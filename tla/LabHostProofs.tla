--------------------------- MODULE LabHostProofs ---------------------------
(***************************************************************************)
(* The lab's bridge and its launches for any VMs, CIDs and settings.       *)
(*                                                                         *)
(* The operations of BridgeNet are functions from a bridge to a bridge, so *)
(* most of this is about them: each keeps the rules exact (Sealed) and the *)
(* books in order (Accounted), that is, it is Fine.  Two run over a set of *)
(* VMs or impairments; they are unfolded step by step (RealiseRun,         *)
(* SlowRun), and what holds after each step holds after the last because   *)
(* a smallest set for which it did not would have a smaller one.           *)
(*                                                                         *)
(* The launches interleave between the three host commands of              *)
(* realize_for_vm.  LInv says what they leave for each other: while one is *)
(* realising, what it saw of the bridge is still so, and the interface or  *)
(* the qdisc of a bridge that is not yet up is one of theirs (Accounts).   *)
(* A VM of a restore that is past the bridge has its TAP (Wired), so that  *)
(* re-applying the graph seals it.  Owned is the same for the CIDs.        *)
(***************************************************************************)
EXTENDS LabHost, FiniteSetTheorems, TLAPS

\* A set of natural numbers has a least one.
LEMMA LeastNat ==
    ASSUME NEW T, T \subseteq Nat, T # {}
    PROVE  \E x \in T : \A y \in T : x <= y
<1>1. PICK x \in T : \A y \in T : ~(<<y, x>> \in OpToRel(<, Nat))
  BY NatLessThanWellFounded, WFMin
<1>2. ASSUME NEW y \in T PROVE x <= y
  <2>1. ~(y < x)
    BY Zenon, <1>1, <1>2 DEF OpToRel
  <2>2. QED
    BY <2>1
<1>3. QED
  BY <1>2

\* One VM of RealiseEach
RealiseNext(v, r, stop) == IF r.ok \/ ~stop THEN realize_for_vm(r.net, v) ELSE r

\* The sizes of the subsets of a finite set.
LEMMA Sizes ==
    ASSUME NEW S, IsFiniteSet(S)
    PROVE  /\ Cardinality(S) \in Nat
           /\ \A s \in SUBSET S :
                /\ Cardinality(s) \in Nat /\ Cardinality(s) <= Cardinality(S)
                /\ (Cardinality(s) = 0 <=> s = {})
                /\ \A x \in s : s \ {x} \in SUBSET S /\ Cardinality(s \ {x}) = Cardinality(s) - 1
<1>1. ASSUME NEW s \in SUBSET S PROVE IsFiniteSet(s) /\ Cardinality(s) <= Cardinality(S)
  BY <1>1, FS_Subset
<1>2. ASSUME NEW s \in SUBSET S PROVE Cardinality(s) \in Nat /\ (Cardinality(s) = 0 <=> s = {})
  BY <1>1, <1>2, FS_CardinalityType, FS_EmptySet
<1>3. ASSUME NEW s \in SUBSET S, NEW x \in s PROVE Cardinality(s \ {x}) = Cardinality(s) - 1
  BY <1>1, <1>3, FS_RemoveElement
<1>4. QED
  BY <1>1, <1>2, <1>3, FS_CardinalityType

\* it[s] is what RealiseEach makes of the VMs in s, for the sets s in D
One(s) == CHOOSE x \in s : TRUE
RealiseSteps(it, D, base, stop) ==
    it = [s \in D |-> IF s = {} THEN base ELSE RealiseNext(One(s), it[s \ {One(s)}], stop)]

\* There are such steps: a least size without them would have them.
LEMMA RealiseStepsExist ==
    ASSUME NEW S, IsFiniteSet(S), NEW base, NEW stop
    PROVE  \E it : RealiseSteps(it, SUBSET S, base, stop)
<1> DEFINE Small(k) == {s \in SUBSET S : Cardinality(s) <= k}
           Steps(it, D) == RealiseSteps(it, D, base, stop)
           Bad == {k \in Nat : ~\E it : Steps(it, Small(k))}
<1>1. ASSUME NEW k \in Nat, NEW it, k > 0 => Steps(it, Small(k - 1))
      PROVE  \E jt : Steps(jt, Small(k))
  <2> DEFINE jt == [s \in Small(k) |-> IF s = {} THEN base
                                       ELSE RealiseNext(One(s), it[s \ {One(s)}], stop)]
  <2>1. ASSUME NEW s \in Small(k), s # {}
        PROVE  /\ s \ {One(s)} \in Small(k) /\ k > 0 /\ s \ {One(s)} \in Small(k - 1)
    <3>1. One(s) \in s
      BY <2>1 DEF One
    <3>2. QED
      BY <2>1, <3>1, Sizes
  <2>2. ASSUME NEW s \in Small(k), s # {} PROVE jt[s \ {One(s)}] = it[s \ {One(s)}]
    <3> DEFINE t == s \ {One(s)}
    <3>1. t \in Small(k) /\ t \in Small(k - 1) /\ Steps(it, Small(k - 1))
      BY <2>1, <2>2, <1>1
    <3> HIDE DEF t, Small
    <3>2. it[t] = IF t = {} THEN base ELSE RealiseNext(One(t), it[t \ {One(t)}], stop)
      BY Zenon, <3>1 DEF RealiseSteps
    <3>3. QED
      BY <3>1, <3>2 DEF t
  <2>3. jt = [s \in Small(k) |-> IF s = {} THEN base
                                 ELSE RealiseNext(One(s), jt[s \ {One(s)}], stop)]
    <3> HIDE DEF Small
    <3>1. QED BY Zenon, <2>2
  <2>4. QED
    BY Zenon, <2>3 DEF RealiseSteps
<1>2. Bad = {}
  <2> HIDE DEF Steps, Small
  <2>1. SUFFICES ASSUME Bad # {} PROVE FALSE
    OBVIOUS
  <2>2. PICK k \in Bad : \A y \in Bad : k <= y
    BY Zenon, <2>1, LeastNat
  <2>3. CASE k = 0
    BY <1>1, <2>2, <2>3
  <2>4. CASE k # 0
    <3>1. k - 1 \in Nat /\ k - 1 \notin Bad
      BY <2>2, <2>4
    <3>2. PICK it : Steps(it, Small(k - 1))
      BY <3>1
    <3>3. QED
      BY <3>2, <1>1, <2>2
  <2>5. QED
    BY <2>3, <2>4
<1>3. Cardinality(S) \in Nat /\ Small(Cardinality(S)) = SUBSET S
  BY Sizes
<1>4. PICK it : Steps(it, Small(Cardinality(S)))
  BY <1>2, <1>3
<1>5. QED
  BY Zenon, <1>3, <1>4

\* RealiseEach, step by step
RealiseRun(it, n, S, stop) ==
    /\ RealiseEach(n, S, stop) = it[S].net
    /\ it[{}] = [net |-> n, ok |-> TRUE]
    /\ \A s \in SUBSET S : s # {} => \E x \in s : it[s] = RealiseNext(x, it[s \ {x}], stop)

\* RealiseEach is such a run, whatever order the set is taken in.
LEMMA RealiseUnfolds ==
    ASSUME NEW S, IsFiniteSet(S), NEW n, NEW stop
    PROVE  \E it : RealiseRun(it, n, S, stop)
<1>1. \A b : \E it : RealiseSteps(it, SUBSET S, b, stop)
  BY Zenon, RealiseStepsExist
<1> DEFINE base == [net |-> n, ok |-> TRUE]
           it == CHOOSE it : RealiseSteps(it, SUBSET S, base, stop)
<1>2. RealiseSteps(it, SUBSET S, base, stop)
  BY Zenon, <1>1
<1>3. RealiseEach(n, S, stop) = it[S].net
  BY Zenon DEF RealiseEach, FoldSet, MapThenFoldSet, RealiseNext, RealiseSteps, One
<1> HIDE DEF it
<1>4. it[{}] = base
  BY <1>2 DEF RealiseSteps
<1>5. ASSUME NEW s \in SUBSET S, s # {} PROVE \E x \in s : it[s] = RealiseNext(x, it[s \ {x}], stop)
  <2>1. it[s] = RealiseNext(One(s), it[s \ {One(s)}], stop)
    BY Zenon, <1>2, <1>5 DEF RealiseSteps
  <2>2. One(s) \in s
    BY <1>5 DEF One
  <2>3. QED
    BY <2>1, <2>2
<1>6. QED
  BY Zenon, <1>3, <1>4, <1>5 DEF RealiseRun

\* The fields of a bridge's record
Fields ==
    {"members", "isolated", "cuts", "oneway", "all", "netem", "capped", "slow",
     "uplink", "up", "rnetem", "rtaps", "rslow", "rnat", "link", "root", "taps",
     "plugged", "shaped", "drops", "nat", "late"}

\* A bridge; one that is not up has no TAP
Base(n) ==
    /\ DOMAIN n = Fields /\ n.up \in BOOLEAN /\ (~n.up => n.rtaps = {})
    /\ n.rtaps \subseteq Vms /\ n.members \subseteq Vms /\ n.slow \subseteq Vms \X Vms

\* and drops nothing
Plain(n) == Base(n) /\ n.oneway \subseteq Vms \X Vms /\ (~n.up => n.drops = {})

\* CutsAreExact, of any bridge
Exact(n) ==
    /\ \A p \in Pairs(n.rtaps \ n.late) : Cut(n, p[1], p[2]) <=> p \in n.drops
    /\ \A p \in n.drops : Cut(n, p[1], p[2])

Sealed(n) == Plain(n) /\ Exact(n)

\* The host has what the bridge remembers, but for the interface of a bridge
\* that is being realised
Booked(n) ==
    /\ n.taps = n.rtaps /\ n.nat = n.rnat /\ n.shaped \subseteq n.rtaps
    /\ n.rnat \in BOOLEAN /\ n.link \in BOOLEAN /\ (n.up => n.link) /\ (~n.up => n.rnetem = None)

\* Nothing is being realised
Accounted(n) == Booked(n) /\ (~n.up => ~n.link /\ n.root = None)

\* Only the fields in F differ
Same(n, m, F) == DOMAIN m = Fields /\ \A f \in Fields \ F : m[f] = n[f]

\* m is n after VMs in vs were realised, or were not: the graph and the rules are
\* what they were, and TAPs have been added that the rules do not know of
Kept(n, m, vs) ==
    /\ DOMAIN m = Fields /\ m.up \in BOOLEAN /\ (n.up => m.up) /\ (~m.up => m.rtaps = {})
    /\ m.members = n.members /\ m.isolated = n.isolated /\ m.cuts = n.cuts
    /\ m.oneway = n.oneway /\ m.all = n.all /\ m.slow = n.slow /\ m.drops = n.drops
    /\ n.rtaps \subseteq m.rtaps /\ m.rtaps \subseteq n.rtaps \cup vs
    /\ n.late \subseteq m.late /\ m.late \subseteq n.late \cup (m.rtaps \ n.rtaps)
    /\ m.rtaps \subseteq n.rtaps \cup m.late

\* What the parts of realize_for_vm change.
LEMMA MakeLinkIs ==
    ASSUME NEW n, DOMAIN n = Fields, NEW seen
    PROVE  LET m == MakeLink(n, seen)
           IN  Same(n, m, {"link"}) /\ m.link = IF seen.link THEN TRUE ELSE n.link
BY DEF MakeLink, Same, Fields

\* The root qdisc is put on the interface.
LEMMA PutNetemIs ==
    ASSUME NEW n, DOMAIN n = Fields, NEW seen
    PROVE  Same(n, PutNetem(n, seen), {"root"})
BY DEF PutNetem, Same, Fields

\* The TAP is made when the bridge did not remember it.
LEMMA MakeTapIs ==
    ASSUME NEW n, DOMAIN n = Fields, NEW seen, NEW v
    PROVE  LET m == MakeTap(n, seen, v)
           IN  /\ Same(n, m, {"taps", "plugged"})
               /\ m.taps = IF seen.tap THEN n.taps \cup {v} ELSE n.taps
BY Zenon DEF MakeTap, Same, Fields

\* The TAP gets its own qdisc, or loses it.
LEMMA ShapeIs ==
    ASSUME NEW n, DOMAIN n = Fields, NEW v
    PROVE  LET m == Shape(n, v)
           IN  Same(n, m, {"shaped"}) /\ m.shaped \subseteq n.shaped \cup {v}
BY DEF Shape, Same, Fields

\* What the bridge remembers of it all.
LEMMA RecordIs ==
    ASSUME NEW n, DOMAIN n = Fields, NEW seen, NEW v
    PROVE  Same(n, Record(n, seen, v), {"up", "rnetem", "rtaps", "rslow", "late"})
BY Zenon DEF Record, Same, Fields

\* A step that touches no rule, no TAP of the bridge and not the graph.
LEMMA SameKept ==
    ASSUME NEW n, DOMAIN n = Fields, n.up \in BOOLEAN, ~n.up => n.rtaps = {}, NEW m, NEW vs,
           Same(n, m, {"link", "root", "taps", "plugged", "shaped", "rnetem", "rslow"})
    PROVE  Kept(n, m, vs)
BY DEF Same, Kept, Fields

\* A TAP that comes up is late: the rules stay exact for the others.
LEMMA KeptSeals ==
    ASSUME NEW n, Sealed(n), NEW m, NEW vs \in SUBSET Vms, Kept(n, m, vs)
    PROVE  Sealed(m)
<1>1. Plain(m)
  BY DEF Plain, Base, Kept, Sealed
<1>2. Exact(m)
  BY DEF Exact, Kept, Sealed, Cut, Pairs
<1>3. QED
  BY <1>1, <1>2 DEF Sealed

\* Realising one VM keeps the graph and the rules, and the books.
LEMMA RealizeIs ==
    ASSUME NEW n, DOMAIN n = Fields, n.up \in BOOLEAN, ~n.up => n.rtaps = {}, NEW v
    PROVE  LET m == realize_for_vm(n, v).net
           IN  Kept(n, m, {v}) /\ (Accounted(n) => Accounted(m))
<1> DEFINE m == realize_for_vm(n, v).net
<1>1. PICK seen : seen = Seen(n, v)
  OBVIOUS
<1>2. PICK linked : linked = MakeLink(n, seen)
  OBVIOUS
<1>3. PICK rooted : rooted = PutNetem(linked, seen)
  OBVIOUS
<1>4. PICK tapped : tapped = MakeTap(rooted, seen, v)
  OBVIOUS
<1>5. PICK shaped : shaped = Shape(tapped, v)
  OBVIOUS
<1>6. PICK last : last = Record(shaped, seen, v)
  OBVIOUS
<1>7. /\ seen.link = ~n.up /\ seen.cur = n.rnetem /\ seen.target = n.netem
      /\ seen.tap = (v \notin n.rtaps)
  BY <1>1 DEF Seen
<1>8. Same(n, linked, {"link"}) /\ linked.link = IF seen.link THEN TRUE ELSE n.link
  BY Zenon, <1>2, MakeLinkIs
<1>9. Same(linked, rooted, {"root"})
  BY <1>3, <1>8, PutNetemIs DEF Same
<1>10. /\ Same(rooted, tapped, {"taps", "plugged"})
       /\ tapped.taps = IF seen.tap THEN rooted.taps \cup {v} ELSE rooted.taps
  <2>1. DOMAIN rooted = Fields
    BY <1>9 DEF Same
  <2>2. QED
    BY Zenon, <2>1, <1>4, MakeTapIs
<1>11. Same(tapped, shaped, {"shaped"}) /\ shaped.shaped \subseteq tapped.shaped \cup {v}
  BY <1>5, <1>10, ShapeIs DEF Same
<1>12. /\ Same(shaped, last, {"up", "rnetem", "rtaps", "rslow", "late"})
       /\ last.up = TRUE /\ last.rtaps = shaped.rtaps \cup {v}
       /\ last.late = IF v \in shaped.rtaps THEN shaped.late ELSE shaped.late \cup {v}
  <2>1. DOMAIN shaped = Fields
    BY <1>11 DEF Same
  <2>2. Same(shaped, last, {"up", "rnetem", "rtaps", "rslow", "late"})
    BY Zenon, <2>1, <1>6, RecordIs
  <2>3. last.up = TRUE /\ last.rtaps = shaped.rtaps \cup {v}
    BY <2>1, <1>6 DEF Record, Fields
  <2>4. last.late = IF v \in shaped.rtaps THEN shaped.late ELSE shaped.late \cup {v}
    BY <2>1, <1>6 DEF Record, Fields
  <2>5. QED
    BY Zenon, <2>2, <2>3, <2>4
<1>13. Same(n, tapped, {"link", "root", "taps", "plugged"})
  BY <1>8, <1>9, <1>10 DEF Same
<1>14. Same(n, shaped, {"link", "root", "taps", "plugged", "shaped"})
  BY <1>11, <1>13 DEF Same
<1>15. \/ m = linked /\ ~NetemFits(linked, seen)
       \/ m = tapped /\ ~(TapFits(linked, seen) /\ ShapeFits(tapped, v))
       \/ m = last
  BY Zenon, <1>1, <1>2, <1>3, <1>4, <1>5, <1>6 DEF realize_for_vm
<1> HIDE DEF m
<1>16. CASE m = linked /\ ~NetemFits(linked, seen)
  <2>1. Kept(n, m, {v})
    BY <1>16, <1>8, SameKept DEF Same
  <2>2. ASSUME Accounted(n) PROVE n.up
    <3>1. ASSUME ~n.up PROVE NetemFits(linked, seen)
      BY Zenon, <2>2, <3>1, <1>7, <1>8 DEF Accounted, Booked, NetemFits, Same, Fields
    <3>2. QED
      BY <3>1, <1>16
  <2>3. ASSUME Accounted(n) PROVE Accounted(m)
    BY Zenon, <2>2, <2>3, <1>16, <1>7, <1>8 DEF Accounted, Booked, Same, Fields
  <2>4. QED
    BY <2>1, <2>3 DEF m
<1>17. CASE m = tapped /\ ~(TapFits(linked, seen) /\ ShapeFits(tapped, v))
  <2>1. Kept(n, m, {v})
    BY <1>17, <1>13, SameKept DEF Same
  <2>2. ASSUME Accounted(n) PROVE v \in n.rtaps
    <3>1. linked.link = TRUE
      BY Zenon, <2>2, <1>7, <1>8 DEF Accounted, Booked
    <3>2. ~ShapeFits(tapped, v)
      BY <3>1, <1>17 DEF TapFits
    <3>3. ASSUME v \notin n.rtaps PROVE v \in tapped.taps \ tapped.shaped
      <4>1. v \in tapped.taps
        BY Zenon, <3>3, <1>7, <1>10
      <4>2. tapped.shaped = n.shaped
        BY <1>13 DEF Same, Fields
      <4>3. QED
        BY <2>2, <3>3, <4>1, <4>2 DEF Accounted, Booked
    <3>4. QED
      BY <3>2, <3>3 DEF ShapeFits
  <2>3. ASSUME Accounted(n) PROVE Accounted(m)
    <3>1. n.up /\ tapped.up = n.up /\ tapped.rtaps = n.rtaps /\ tapped.taps = n.taps
      BY Zenon, <2>2, <2>3, <1>7, <1>10, <1>13, <1>8, <1>9 DEF Same, Fields
    <3>2. tapped.nat = n.nat /\ tapped.rnat = n.rnat /\ tapped.shaped = n.shaped
      BY <1>13 DEF Same, Fields
    <3>3. tapped.link = n.link
      BY Zenon, <3>1, <1>7, <1>8, <1>9, <1>10 DEF Same, Fields
    <3>4. QED
      BY <2>3, <1>17, <3>1, <3>2, <3>3 DEF Accounted, Booked
  <2>4. QED
    BY <2>1, <2>3 DEF m
<1>18. CASE m = last
  <2>1. /\ shaped.rtaps = n.rtaps /\ shaped.late = n.late /\ shaped.members = n.members
        /\ shaped.isolated = n.isolated /\ shaped.cuts = n.cuts /\ shaped.oneway = n.oneway
        /\ shaped.all = n.all /\ shaped.slow = n.slow /\ shaped.drops = n.drops
    BY <1>14 DEF Same, Fields
  <2>5. /\ last.members = shaped.members /\ last.isolated = shaped.isolated
        /\ last.cuts = shaped.cuts /\ last.oneway = shaped.oneway
        /\ last.all = shaped.all /\ last.slow = shaped.slow /\ last.drops = shaped.drops
    BY <1>12 DEF Same, Fields
  <2>2. Kept(n, m, {v})
    BY Zenon, <2>1, <2>5, <1>12, <1>18 DEF Kept, Same
  <2>3. ASSUME Accounted(n) PROVE Accounted(m)
    <3>1. /\ last.taps = tapped.taps /\ last.nat = n.nat /\ last.rnat = n.rnat
          /\ last.shaped \subseteq n.shaped \cup {v} /\ last.link = linked.link
      BY <1>9, <1>10, <1>11, <1>12, <1>13, <1>14 DEF Same, Fields
    <3>2. tapped.taps = n.taps \cup {v}
      <4>1. rooted.taps = n.taps
        BY <1>8, <1>9 DEF Same, Fields
      <4>2. QED
        BY Zenon, <4>1, <1>7, <1>10, <2>3 DEF Accounted, Booked
    <3>3. linked.link = TRUE
      BY Zenon, <2>3, <1>7, <1>8 DEF Accounted, Booked
    <3>4. QED
      BY Zenon, <2>1, <2>3, <3>1, <3>2, <3>3, <1>12, <1>18 DEF Accounted, Booked
  <2>4. QED
    BY <2>2, <2>3 DEF m
<1>19. QED
  BY <1>15, <1>16, <1>17, <1>18

\* First the VMs in vs, then x.
LEMMA KeptMore ==
    ASSUME NEW n, NEW m, NEW k, NEW vs, NEW x \in vs, Kept(n, m, vs \ {x}), Kept(m, k, {x})
    PROVE  Kept(n, k, vs)
BY DEF Kept

\* A run over some VMs is one over more of them.
LEMMA KeptWider ==
    ASSUME NEW n, NEW m, NEW vs, NEW ws, ws \subseteq vs, Kept(n, m, ws)
    PROVE  Kept(n, m, vs)
BY DEF Kept

\* Realising one VM after the other does too.
LEMMA RealiseEachKeeps ==
    ASSUME NEW n, DOMAIN n = Fields, n.up \in BOOLEAN, ~n.up => n.rtaps = {},
           NEW vs, IsFiniteSet(vs), NEW stop
    PROVE  LET m == RealiseEach(n, vs, stop)
           IN  Kept(n, m, vs) /\ (Accounted(n) => Accounted(m))
<1>1. PICK it : RealiseRun(it, n, vs, stop)
  BY RealiseUnfolds
<1> DEFINE Good(s) == Kept(n, it[s].net, s) /\ (Accounted(n) => Accounted(it[s].net))
           Bad == {Cardinality(s) : s \in {s \in SUBSET vs : ~Good(s)}}
<1>2. Good({})
  <2>1. it[{}].net = n
    BY <1>1 DEF RealiseRun
  <2>2. Kept(n, n, {})
    BY SameKept DEF Same
  <2>3. QED
    BY <2>1, <2>2
<1>3. ASSUME NEW s \in SUBSET vs, NEW x \in s, it[s] = RealiseNext(x, it[s \ {x}], stop),
             Good(s \ {x})
      PROVE  Good(s)
  <2>1. PICK m : m = it[s \ {x}].net
    OBVIOUS
  <2>2. Kept(n, m, s \ {x}) /\ (Accounted(n) => Accounted(m))
    BY <1>3, <2>1
  <2>3. it[s].net = m \/ it[s].net = realize_for_vm(m, x).net
    BY <1>3, <2>1 DEF RealiseNext
  <2> HIDE DEF Good
  <2>4. CASE it[s].net = m
    <3>1. Kept(n, m, s)
      BY <2>2, KeptWider
    <3>2. QED
      BY <2>2, <2>4, <3>1 DEF Good
  <2>5. CASE it[s].net = realize_for_vm(m, x).net
    <3>1. PICK k : k = realize_for_vm(m, x).net
      OBVIOUS
    <3>2. DOMAIN m = Fields /\ m.up \in BOOLEAN /\ (~m.up => m.rtaps = {})
      BY <2>2 DEF Kept
    <3>3. Kept(m, k, {x}) /\ (Accounted(m) => Accounted(k))
      BY <3>1, <3>2, RealizeIs
    <3>4. Kept(n, k, s)
      BY <2>2, <3>3, KeptMore
    <3>5. QED
      BY <2>2, <2>5, <3>1, <3>3, <3>4 DEF Good
  <2>6. QED
    BY <2>3, <2>4, <2>5
<1> HIDE DEF Good
<1>4. Bad = {}
  <2>1. SUFFICES ASSUME Bad # {} PROVE FALSE
    OBVIOUS
  <2>2. Bad \subseteq Nat
    BY Sizes
  <2>3. PICK k \in Bad : \A y \in Bad : k <= y
    BY Zenon, <2>1, <2>2, LeastNat
  <2>4. PICK s \in SUBSET vs : ~Good(s) /\ k = Cardinality(s)
    BY <2>3
  <2>5. s # {}
    BY <2>4, <1>2
  <2>6. PICK x \in s : it[s] = RealiseNext(x, it[s \ {x}], stop)
    BY <2>5, <1>1 DEF RealiseRun
  <2>7. s \ {x} \in SUBSET vs /\ Cardinality(s \ {x}) = k - 1 /\ k \in Nat
    BY <2>2, <2>4, Sizes
  <2>8. Good(s \ {x})
    <3>1. ASSUME ~Good(s \ {x}) PROVE FALSE
      <4>1. k - 1 \in Bad
        BY <2>7, <3>1
      <4>2. QED
        BY <4>1, <2>3, <2>7
    <3>2. QED
      BY <3>1
  <2>9. QED
    BY <2>4, <2>6, <2>8, <1>3
<1>5. Good(vs)
  BY <1>4
<1>6. QED
  BY <1>1, <1>5 DEF Good, RealiseRun

\* m is n with other settings: the cuts, the TAPs and the rules are the same
Still(n, m) ==
    /\ Base(m) /\ (n.up => m.up)
    /\ m.isolated = n.isolated /\ m.cuts = n.cuts /\ m.oneway = n.oneway
    /\ m.all = n.all /\ m.drops = n.drops /\ m.rtaps = n.rtaps /\ m.late = n.late

\* The rules stay exact when neither they, the graph nor the TAPs change.
LEMMA StillSeals ==
    ASSUME NEW n, Sealed(n), NEW m, Still(n, m)
    PROVE  Sealed(m)
<1>1. Plain(m)
  BY DEF Plain, Still, Sealed
<1>2. Exact(m)
  BY DEF Exact, Still, Sealed, Cut, Pairs
<1>3. QED
  BY <1>1, <1>2 DEF Sealed

\* Two such steps are one.
LEMMA StillTwice ==
    ASSUME NEW n, NEW m, NEW k, Still(n, m), Still(m, k)
    PROVE  Still(n, k)
BY DEF Still

\* A step on settings and host that is such a step.
LEMMA SameStill ==
    ASSUME NEW n, Base(n), NEW m, m.members \subseteq Vms, m.slow \subseteq Vms \X Vms,
           Same(n, m, {"members", "slow", "netem", "capped", "uplink", "root", "rnetem",
                       "rnat", "nat", "plugged"})
    PROVE  Still(n, m)
BY DEF Same, Still, Base, Fields

\* The books do not depend on the graph, nor, of a bridge that is up, on its qdisc.
LEMMA SameAccounted ==
    ASSUME NEW n, Accounted(n), NEW m, n.up \/ (m.root = n.root /\ m.rnetem = n.rnetem),
           Same(n, m, {"members", "isolated", "cuts", "oneway", "all", "netem", "capped", "slow",
                       "uplink", "rslow", "plugged", "drops", "late", "root", "rnetem"})
    PROVE  Accounted(m)
<1>1. /\ m.taps = n.taps /\ m.rtaps = n.rtaps /\ m.nat = n.nat /\ m.rnat = n.rnat
      /\ m.shaped = n.shaped /\ m.link = n.link /\ m.up = n.up
  BY DEF Same, Fields
<1>2. QED
  BY <1>1 DEF Accounted, Booked

\* Pushing the rules makes them exact.
LEMMA Refreshed ==
    ASSUME NEW n, Plain(n)
    PROVE  Sealed(refresh_partitions(n))
<1>1. CASE ~n.up
  BY <1>1 DEF refresh_partitions, Sealed, Plain, Base, Exact, Pairs
<1>2. CASE n.up
  <2>1. PICK m : m = refresh_partitions(n)
    OBVIOUS
  <2>2. Same(n, m, {"drops", "late"}) /\ m.late = {}
    BY Zenon, <2>1, <1>2 DEF refresh_partitions, Same, Fields, Plain, Base
  <2>3. m.drops = Rules(n)
    BY <2>1, <1>2 DEF refresh_partitions, Fields, Plain, Base
  <2>4. /\ m.up = n.up /\ m.rtaps = n.rtaps /\ m.members = n.members /\ m.slow = n.slow
        /\ m.oneway = n.oneway /\ m.cuts = n.cuts /\ m.isolated = n.isolated /\ m.all = n.all
    BY <2>2 DEF Same, Fields
  <2>5. Plain(m)
    BY <2>2, <2>4, <1>2 DEF Plain, Base, Same
  <2>6. ASSUME NEW p \in m.drops PROVE Cut(m, p[1], p[2])
    BY <2>3, <2>4, <2>6 DEF Rules, Cut, Plain, Pairs
  <2>7. ASSUME NEW p \in Pairs(m.rtaps), Cut(m, p[1], p[2]) PROVE p \in m.drops
    BY <2>3, <2>4, <2>7 DEF Rules, Cut, Plain, Base, Pairs
  <2>8. Exact(m)
    BY <2>2, <2>6, <2>7 DEF Exact
  <2>9. QED
    BY <2>1, <2>5, <2>8 DEF Sealed
<1>3. QED
  BY <1>1, <1>2 DEF Plain, Base

\* What the refreshes change.
LEMMA PartitionsIs ==
    ASSUME NEW n, DOMAIN n = Fields
    PROVE  Same(n, refresh_partitions(n), {"drops", "late"})
BY Zenon DEF refresh_partitions, Same, Fields

\* refresh_netem changes the root qdisc of a bridge that is up.
LEMMA NetemIs ==
    ASSUME NEW n, DOMAIN n = Fields, NEW m, m = refresh_netem(n)
    PROVE  Same(n, m, {"root", "rnetem"}) /\ (~n.up => m = n)
BY Zenon DEF refresh_netem, Same, Fields

\* refresh_bandwidth does too.
LEMMA BandwidthIs ==
    ASSUME NEW n, DOMAIN n = Fields, NEW m, m = refresh_bandwidth(n)
    PROVE  Same(n, m, {"root", "rnetem"}) /\ (~n.up => m = n)
BY Zenon DEF refresh_bandwidth, refresh_netem, Same, Fields

\* The VMs of a lab are finitely many.
LEMMA FewVms == ASSUME NEW S, S \subseteq Vms PROVE IsFiniteSet(S)
BY HostAssumption, FS_Subset

\* refresh_directional realises the TAPs that are there: no TAP comes up.
LEMMA DirectionalIs ==
    ASSUME NEW n, Base(n), NEW m, m = refresh_directional(n)
    PROVE  Still(n, m) /\ (Accounted(n) => Accounted(m))
<1>1. m = RealiseEach(n, n.rtaps, TRUE)
  BY Zenon DEF refresh_directional, Base
<1>2. IsFiniteSet(n.rtaps)
  BY FewVms DEF Base
<1>3. Kept(n, m, n.rtaps) /\ (Accounted(n) => Accounted(m))
  <2>1. DOMAIN n = Fields /\ n.up \in BOOLEAN /\ (~n.up => n.rtaps = {})
    BY DEF Base
  <2>2. QED
    BY Zenon, <2>1, <1>1, <1>2, RealiseEachKeeps
<1>4. Still(n, m)
  BY Zenon, <1>3 DEF Kept, Still, Base
<1>5. QED
  BY <1>3, <1>4

\* A call of the test keeps the rules exact, and the books.
Fine(n, m) == Sealed(m) /\ (Accounted(n) => Accounted(m))

\* A setting, and the qdisc of a bridge that is up.
LEMMA SettingFine ==
    ASSUME NEW n, Sealed(n), NEW m, m.members \subseteq Vms, m.slow \subseteq Vms \X Vms,
           Same(n, m, {"members", "slow", "netem", "capped", "uplink", "root", "rnetem", "plugged"}),
           n.up \/ (m.root = n.root /\ m.rnetem = n.rnetem)
    PROVE  Still(n, m) /\ Fine(n, m)
<1>1. Base(n)
  BY DEF Sealed, Plain
<1>2. Same(n, m, {"members", "slow", "netem", "capped", "uplink", "root", "rnetem",
                  "rnat", "nat", "plugged"})
  BY DEF Same
<1>3. Same(n, m, {"members", "isolated", "cuts", "oneway", "all", "netem", "capped", "slow",
                  "uplink", "rslow", "plugged", "drops", "late", "root", "rnetem"})
  BY DEF Same
<1>4. Still(n, m)
  BY <1>1, <1>2, SameStill
<1>5. QED
  BY <1>3, <1>4, StillSeals, SameAccounted DEF Fine

\* attach, and the members of a snapshot.
LEMMA AttachFine ==
    ASSUME NEW n, Sealed(n), NEW S \in SUBSET Vms
    PROVE  Fine(n, [n EXCEPT !.members = @ \cup S])
<1>1. PICK m : m = [n EXCEPT !.members = @ \cup S]
  BY Zenon
<1>2. Same(n, m, {"members"}) /\ m.members = n.members \cup S
  BY <1>1 DEF Sealed, Plain, Base, Same, Fields
<1>3. m.slow = n.slow /\ m.root = n.root /\ m.rnetem = n.rnetem
  BY <1>2 DEF Same, Fields
<1>4. m.members \subseteq Vms /\ m.slow \subseteq Vms \X Vms
  BY <1>2, <1>3 DEF Sealed, Plain, Base
<1>5. Same(n, m, {"members", "slow", "netem", "capped", "uplink", "root", "rnetem", "plugged"})
  BY <1>2 DEF Same
<1>6. QED
  BY Zenon, <1>1, <1>3, <1>4, <1>5, SettingFine

\* nic:disconnect and nic:reconnect of a TAP.
LEMMA PlugFine ==
    ASSUME NEW n, Sealed(n), NEW v
    PROVE  Fine(n, unplug(n, v)) /\ Fine(n, replug(n, v))
<1>1. ASSUME NEW m, m = unplug(n, v) \/ m = replug(n, v) PROVE Fine(n, m)
  <2>1. Same(n, m, {"plugged"})
    BY <1>1 DEF unplug, replug, Sealed, Plain, Base, Same, Fields
  <2>2. m.members = n.members /\ m.slow = n.slow /\ m.root = n.root /\ m.rnetem = n.rnetem
    BY <2>1 DEF Same, Fields
  <2>3. m.members \subseteq Vms /\ m.slow \subseteq Vms \X Vms
    BY <2>2 DEF Sealed, Plain, Base
  <2>4. Same(n, m, {"members", "slow", "netem", "capped", "uplink", "root", "rnetem", "plugged"})
    BY <2>1 DEF Same
  <2>5. QED
    BY <2>2, <2>3, <2>4, SettingFine
<1>2. QED
  BY <1>1

\* add_latency and drop_rate.
LEMMA LatencyFine ==
    ASSUME NEW n, Sealed(n), NEW x, NEW m, m = add_latency(n, x)
    PROVE  Still(n, m) /\ Fine(n, m)
<1>1. PICK k : k = [n EXCEPT !.netem = x]
  BY Zenon
<1>2. Same(n, k, {"netem"}) /\ DOMAIN k = Fields
  BY <1>1 DEF Sealed, Plain, Base, Same, Fields
<1>3. Same(k, m, {"root", "rnetem"}) /\ (~k.up => m = k)
  BY Zenon, <1>1, <1>2, NetemIs DEF add_latency
<1>4. Same(n, m, {"members", "slow", "netem", "capped", "uplink", "root", "rnetem", "plugged"})
  BY <1>2, <1>3 DEF Same
<1>5. k.up = n.up /\ k.root = n.root /\ k.rnetem = n.rnetem /\ k.members = n.members /\ k.slow = n.slow
  BY <1>2 DEF Same, Fields
<1>6. m.members = k.members /\ m.slow = k.slow
  BY <1>3 DEF Same, Fields
<1>7. m.members \subseteq Vms /\ m.slow \subseteq Vms \X Vms
  BY <1>5, <1>6 DEF Sealed, Plain, Base
<1>8. QED
  BY <1>3, <1>4, <1>5, <1>7, SettingFine

\* bandwidth_limit.
LEMMA LimitFine ==
    ASSUME NEW n, Sealed(n), NEW x, NEW m, m = bandwidth_limit(n, x)
    PROVE  Still(n, m) /\ Fine(n, m)
<1>1. PICK k : k = [n EXCEPT !.capped = x]
  BY Zenon
<1>2. Same(n, k, {"capped"}) /\ DOMAIN k = Fields
  BY <1>1 DEF Sealed, Plain, Base, Same, Fields
<1>3. Same(k, m, {"root", "rnetem"}) /\ (~k.up => m = k)
  BY Zenon, <1>1, <1>2, BandwidthIs DEF bandwidth_limit
<1>4. Same(n, m, {"members", "slow", "netem", "capped", "uplink", "root", "rnetem", "plugged"})
  BY <1>2, <1>3 DEF Same
<1>5. k.up = n.up /\ k.root = n.root /\ k.rnetem = n.rnetem /\ k.members = n.members /\ k.slow = n.slow
  BY <1>2 DEF Same, Fields
<1>6. m.members = k.members /\ m.slow = k.slow
  BY <1>3 DEF Same, Fields
<1>7. m.members \subseteq Vms /\ m.slow \subseteq Vms \X Vms
  BY <1>5, <1>6 DEF Sealed, Plain, Base
<1>8. QED
  BY <1>3, <1>4, <1>5, <1>7, SettingFine

\* enable_uplink.
LEMMA UplinkFine ==
    ASSUME NEW n, Sealed(n), NEW x \in BOOLEAN, NEW m, m = enable_uplink(n, x)
    PROVE  Still(n, m) /\ Fine(n, m)
<1>1. PICK k : k = [n EXCEPT !.uplink = x]
  BY Zenon
<1>2. Same(n, k, {"uplink"}) /\ DOMAIN k = Fields /\ k.uplink = x
  BY <1>1 DEF Sealed, Plain, Base, Same, Fields
<1>3. m = [k EXCEPT !.rnat = k.uplink, !.nat = k.uplink]
  BY <1>1 DEF enable_uplink, refresh_uplink
<1>4. Same(k, m, {"rnat", "nat"}) /\ m.nat = m.rnat /\ m.rnat = k.uplink
  BY Zenon, <1>2, <1>3 DEF Same, Fields
<1>5. Same(n, m, {"uplink", "rnat", "nat"})
  BY <1>2, <1>4 DEF Same
<1>6. /\ m.members = n.members /\ m.slow = n.slow /\ m.taps = n.taps /\ m.rtaps = n.rtaps
      /\ m.shaped = n.shaped /\ m.link = n.link /\ m.up = n.up /\ m.root = n.root
      /\ m.rnetem = n.rnetem
  BY <1>5 DEF Same, Fields
<1>7. m.members \subseteq Vms /\ m.slow \subseteq Vms \X Vms /\ Base(n)
  BY <1>6 DEF Sealed, Plain, Base
<1>8. Same(n, m, {"members", "slow", "netem", "capped", "uplink", "root", "rnetem",
                  "rnat", "nat", "plugged"})
  BY <1>5 DEF Same
<1>9. Still(n, m)
  BY <1>7, <1>8, SameStill
<1>10. Accounted(n) => Accounted(m)
  BY <1>2, <1>4, <1>6 DEF Accounted, Booked
<1>11. QED
  BY <1>9, <1>10, StillSeals DEF Fine

\* A change of the graph, and the rules are pushed.
LEMMA GraphFine ==
    ASSUME NEW n, Sealed(n), NEW k, k.oneway \subseteq Vms \X Vms,
           Same(n, k, {"isolated", "cuts", "oneway", "all"})
    PROVE  Fine(n, refresh_partitions(k))
<1>1. PICK m : m = refresh_partitions(k)
  OBVIOUS
<1>2. /\ k.up = n.up /\ k.rtaps = n.rtaps /\ k.members = n.members /\ k.slow = n.slow
      /\ k.drops = n.drops /\ k.root = n.root /\ k.rnetem = n.rnetem
  BY DEF Same, Fields
<1>3. Plain(k)
  BY <1>2 DEF Sealed, Plain, Base, Same
<1>4. Sealed(m)
  BY <1>1, <1>3, Refreshed
<1>5. Same(k, m, {"drops", "late"})
  BY <1>1, PartitionsIs DEF Same
<1>6. m.root = k.root /\ m.rnetem = k.rnetem
  BY <1>5 DEF Same, Fields
<1>7. Same(n, m, {"members", "isolated", "cuts", "oneway", "all", "netem", "capped", "slow",
                  "uplink", "rslow", "plugged", "drops", "late", "root", "rnetem"})
  BY <1>5 DEF Same
<1>8. Accounted(n) => Accounted(m)
  BY <1>2, <1>6, <1>7, SameAccounted
<1>9. QED
  BY <1>1, <1>4, <1>8 DEF Fine

\* A change of one of the four ways the graph cuts.
LEMMA CutFine ==
    ASSUME NEW n, Sealed(n), NEW S, NEW T \in SUBSET (Vms \X Vms), NEW x,
           NEW k, \/ k = [n EXCEPT !.cuts = S]
                  \/ k = [n EXCEPT !.oneway = T]
                  \/ k = [n EXCEPT !.isolated = S]
                  \/ k = [n EXCEPT !.all = x]
    PROVE  Fine(n, refresh_partitions(k))
<1>1. DOMAIN n = Fields /\ n.oneway \subseteq Vms \X Vms
  BY DEF Sealed, Plain, Base
<1>2. Same(n, k, {"isolated", "cuts", "oneway", "all"}) /\ k.oneway \subseteq Vms \X Vms
  <2>1. CASE k = [n EXCEPT !.cuts = S]
    BY <1>1, <2>1 DEF Same, Fields
  <2>2. CASE k = [n EXCEPT !.oneway = T]
    BY <1>1, <2>2 DEF Same, Fields
  <2>3. CASE k = [n EXCEPT !.isolated = S]
    BY <1>1, <2>3 DEF Same, Fields
  <2>4. CASE k = [n EXCEPT !.all = x]
    BY <1>1, <2>4 DEF Same, Fields
  <2>5. QED
    BY <2>1, <2>2, <2>3, <2>4
<1>3. QED
  BY <1>2, GraphFine

\* The calls that cut a pair, or everything, and those that heal it;
LEMMA PartitionFine ==
    ASSUME NEW n, Sealed(n), NEW p \in Pairs(Vms)
    PROVE  /\ Fine(n, partition(n, p[1], p[2])) /\ Fine(n, unpartition(n, p[1], p[2]))
           /\ Fine(n, partition_directional(n, p[1], p[2]))
           /\ Fine(n, unpartition_directional(n, p[1], p[2]))
           /\ Fine(n, partition_all(n)) /\ Fine(n, restore_all(n))
<1>1. n.oneway \in SUBSET (Vms \X Vms) /\ <<p[1], p[2]>> \in Vms \X Vms
  BY DEF Sealed, Plain, Pairs
<1>2. /\ n.oneway \cup {<<p[1], p[2]>>} \in SUBSET (Vms \X Vms)
      /\ n.oneway \ {<<p[1], p[2]>>} \in SUBSET (Vms \X Vms)
  BY <1>1
<1>3. Fine(n, partition(n, p[1], p[2])) /\ Fine(n, unpartition(n, p[1], p[2]))
  BY Zenon, <1>1, CutFine DEF partition, unpartition
<1>4. Fine(n, partition_directional(n, p[1], p[2])) /\ Fine(n, unpartition_directional(n, p[1], p[2]))
  BY Zenon, <1>2, CutFine DEF partition_directional, unpartition_directional
<1>5. Fine(n, partition_all(n)) /\ Fine(n, restore_all(n))
  BY Zenon, <1>1, CutFine DEF partition_all, restore_all
<1>6. QED
  BY <1>3, <1>4, <1>5

\* and of an isolation, or of its end.
LEMMA IsolateFine ==
    ASSUME NEW n, Sealed(n), NEW v
    PROVE  Fine(n, isolate(n, v)) /\ Fine(n, unisolate(n, v))
<1>1. n.oneway \in SUBSET (Vms \X Vms)
  BY DEF Sealed, Plain
<1>2. QED
  BY Zenon, <1>1, CutFine DEF isolate, unisolate

\* detach: the TAP goes, and the rules are pushed for those that are left.
LEMMA DetachFine ==
    ASSUME NEW n, Sealed(n), NEW v
    PROVE  Fine(n, detach(n, v))
<1>0. DOMAIN n = Fields
  BY DEF Sealed, Plain, Base
<1>1. PICK gone : gone = [n EXCEPT !.members = @ \ {v}, !.isolated = @ \ {v},
                        !.cuts = {c \in @ : v \notin c},
                        !.oneway = Without(@, v), !.slow = Without(@, v),
                        !.rtaps = @ \ {v}, !.late = @ \ {v}]
  BY Zenon
<1>2. PICK k : k = IF n.up /\ v \in n.rtaps
          THEN [gone EXCEPT !.taps = @ \ {v}, !.plugged = @ \ {v}, !.shaped = @ \ {v}]
          ELSE gone
  OBVIOUS
<1>3. PICK m : m = refresh_partitions(k)
  OBVIOUS
<1>4. m = detach(n, v)
  BY Zenon, <1>1, <1>2, <1>3 DEF detach
<1>5. Same(n, gone, {"members", "isolated", "cuts", "oneway", "slow", "rtaps", "late"})
  BY Zenon, <1>0, <1>1 DEF Same, Fields
<1>6. gone.members = n.members \ {v} /\ gone.rtaps = n.rtaps \ {v}
  BY <1>0, <1>1 DEF Fields
<1>7. gone.oneway = Without(n.oneway, v) /\ gone.slow = Without(n.slow, v)
  BY <1>0, <1>1 DEF Fields
<1>8. Same(gone, k, {"taps", "plugged", "shaped"})
  BY Zenon, <1>2, <1>5 DEF Same, Fields
<1>9. IF n.up /\ v \in n.rtaps
        THEN k.taps = gone.taps \ {v} /\ k.shaped = gone.shaped \ {v}
        ELSE k.taps = gone.taps /\ k.shaped = gone.shaped
  BY <1>2, <1>5 DEF Same, Fields
<1>10. /\ gone.up = n.up /\ gone.drops = n.drops /\ gone.taps = n.taps /\ gone.shaped = n.shaped
       /\ gone.nat = n.nat /\ gone.rnat = n.rnat /\ gone.link = n.link /\ gone.root = n.root
       /\ gone.rnetem = n.rnetem
  BY <1>5 DEF Same, Fields
<1>11. /\ k.up = gone.up /\ k.drops = gone.drops /\ k.nat = gone.nat /\ k.rnat = gone.rnat
       /\ k.link = gone.link /\ k.root = gone.root /\ k.rnetem = gone.rnetem
       /\ k.members = gone.members /\ k.rtaps = gone.rtaps /\ k.oneway = gone.oneway
       /\ k.slow = gone.slow
  BY <1>8 DEF Same, Fields
<1>12. Plain(k)
  BY <1>6, <1>7, <1>8, <1>10, <1>11 DEF Sealed, Plain, Base, Without, Same
<1>13. Accounted(n) => Accounted(k)
  BY <1>6, <1>9, <1>10, <1>11 DEF Accounted, Booked, Sealed, Plain, Base
<1>14. Same(k, m, {"drops", "late"})
  BY <1>3, <1>8, PartitionsIs DEF Same
<1>15. m.root = k.root /\ m.rnetem = k.rnetem
  BY <1>14 DEF Same, Fields
<1>16. Same(k, m, {"members", "isolated", "cuts", "oneway", "all", "netem", "capped", "slow",
                  "uplink", "rslow", "plugged", "drops", "late", "root", "rnetem"})
  BY <1>14 DEF Same
<1>17. Accounted(k) => Accounted(m)
  BY <1>15, <1>16, SameAccounted
<1>18. QED
  BY Zenon, <1>3, <1>4, <1>12, <1>13, <1>17, Refreshed DEF Fine

\* A directional impairment, set or lifted.
LEMMA SlowFine ==
    ASSUME NEW n, Sealed(n), NEW p \in Vms \X Vms, NEW on, NEW m, m = add_directional(n, p[1], p[2], on)
    PROVE  Still(n, m) /\ Fine(n, m)
<1>0. DOMAIN n = Fields /\ Base(n) /\ <<p[1], p[2]>> \in Vms \X Vms
  BY DEF Sealed, Plain, Base
<1>1. PICK k : k = [n EXCEPT !.slow = IF on THEN @ \cup {<<p[1], p[2]>>} ELSE @ \ {<<p[1], p[2]>>}]
  BY Zenon
<1>2. Same(n, k, {"slow"}) /\ DOMAIN k = Fields
  BY <1>0, <1>1 DEF Same, Fields
<1>3. k.slow \subseteq Vms \X Vms
  BY <1>0, <1>1 DEF Base, Fields
<1>4. k.members = n.members /\ k.root = n.root /\ k.rnetem = n.rnetem
  BY <1>2 DEF Same, Fields
<1>5. Same(n, k, {"members", "slow", "netem", "capped", "uplink", "root", "rnetem", "plugged"})
  BY <1>2 DEF Same
<1>6. Still(n, k) /\ Fine(n, k)
  BY <1>0, <1>3, <1>4, <1>5, SettingFine DEF Base
<1>7. m = refresh_directional(k) /\ Base(k)
  BY <1>1, <1>6 DEF add_directional, Still
<1>8. Still(k, m) /\ (Accounted(k) => Accounted(m))
  BY <1>7, DirectionalIs
<1>9. Still(n, m)
  BY <1>6, <1>8, StillTwice
<1>10. QED
  BY <1>6, <1>8, <1>9, StillSeals DEF Fine

\* reset: the whole graph is cleared, and pushed four times over.
LEMMA ResetFine ==
    ASSUME NEW n, Sealed(n)
    PROVE  Fine(n, reset(n))
<1>0. DOMAIN n = Fields
  BY DEF Sealed, Plain, Base
<1>1. PICK k : k = Unimpaired(n)
  OBVIOUS
<1>2. PICK l : l = refresh_partitions(k)
  OBVIOUS
<1>3. PICK m : m = refresh_netem(l)
  OBVIOUS
<1>4. PICK o : o = refresh_bandwidth(m)
  OBVIOUS
<1>5. PICK q : q = refresh_directional(o)
  OBVIOUS
<1>6. q = reset(n)
  BY Zenon, <1>1, <1>2, <1>3, <1>4, <1>5 DEF reset
<1>7. Same(n, k, {"cuts", "oneway", "netem", "capped", "slow", "all"})
  BY Zenon, <1>0, <1>1 DEF Unimpaired, Same, Fields
<1>8. k.oneway = {} /\ k.slow = {}
  BY <1>0, <1>1 DEF Unimpaired, Fields
<1>9. /\ k.up = n.up /\ k.rtaps = n.rtaps /\ k.members = n.members /\ k.drops = n.drops
      /\ k.root = n.root /\ k.rnetem = n.rnetem
  BY <1>7 DEF Same, Fields
<1>10. Plain(k)
  BY <1>7, <1>8, <1>9 DEF Sealed, Plain, Base, Same
<1>11. Sealed(l)
  BY <1>2, <1>10, Refreshed
<1>12. Same(k, l, {"drops", "late"}) /\ DOMAIN l = Fields
  BY <1>2, <1>7, PartitionsIs DEF Same
<1>13. l.root = k.root /\ l.rnetem = k.rnetem /\ l.up = k.up
  BY <1>12 DEF Same, Fields
<1>14. Same(l, m, {"root", "rnetem"}) /\ (~l.up => m = l) /\ DOMAIN m = Fields
  BY <1>3, <1>12, NetemIs DEF Same
<1>15. m.up = l.up /\ m.members = l.members /\ m.slow = l.slow
  BY <1>14 DEF Same, Fields
<1>16. Same(m, o, {"root", "rnetem"}) /\ (~m.up => o = m)
  BY <1>4, <1>14, BandwidthIs
<1>17. o.members = m.members /\ o.slow = m.slow
  BY <1>16 DEF Same, Fields
<1>18. Same(l, o, {"members", "slow", "netem", "capped", "uplink", "root", "rnetem", "plugged"})
  BY <1>14, <1>16 DEF Same
<1>19. o.members \subseteq Vms /\ o.slow \subseteq Vms \X Vms
  BY Zenon, <1>11, <1>15, <1>17 DEF Sealed, Plain, Base
<1>20. Still(l, o) /\ Fine(l, o)
  BY <1>11, <1>14, <1>15, <1>16, <1>18, <1>19, SettingFine
<1>21. Same(n, l, {"members", "isolated", "cuts", "oneway", "all", "netem", "capped", "slow",
                   "uplink", "rslow", "plugged", "drops", "late", "root", "rnetem"})
  BY <1>7, <1>12 DEF Same
<1>22. Accounted(n) => Accounted(l)
  BY <1>9, <1>13, <1>21, SameAccounted
<1>23. Still(o, q) /\ (Accounted(o) => Accounted(q))
  BY <1>5, <1>20, DirectionalIs DEF Still
<1>24. QED
  BY <1>6, <1>20, <1>22, <1>23, StillSeals DEF Fine

\* unrealize: what the bridge remembers is taken down.
LEMMA UnrealizeFine ==
    ASSUME NEW n, Sealed(n)
    PROVE  Fine(n, unrealize(n))
<1>0. DOMAIN n = Fields
  BY DEF Sealed, Plain, Base
<1>1. PICK m : m = unrealize(n)
  OBVIOUS
<1>2. /\ DOMAIN m = Fields /\ m.up = FALSE /\ m.rtaps = {} /\ m.drops = {} /\ m.rnetem = None
      /\ m.members = n.members /\ m.slow = n.slow /\ m.oneway = n.oneway
  BY <1>0, <1>1 DEF unrealize, Fields
<1>3. m.taps = n.taps \ n.rtaps /\ m.shaped = n.shaped \ n.rtaps /\ m.rnat = FALSE
  BY <1>0, <1>1 DEF unrealize, Fields
<1>4. /\ m.nat = IF n.rnat THEN FALSE ELSE n.nat
      /\ m.link = IF n.up THEN FALSE ELSE n.link
      /\ m.root = IF n.up THEN None ELSE n.root
  BY Zenon, <1>0, <1>1 DEF unrealize, Fields
<1>5. Sealed(m)
  BY Zenon, <1>2 DEF Sealed, Plain, Base, Exact, Pairs
<1>6. Accounted(n) => Accounted(m)
  BY Zenon, <1>2, <1>3, <1>4 DEF Accounted, Booked
<1>7. QED
  BY <1>1, <1>5, <1>6 DEF Fine

\* One impairment of SlowedDown, and it[s], what it makes of those in s
SlowNext(p, m) == add_directional(m, p[1], p[2], TRUE)
SlowSteps(it, D, base) ==
    it = [s \in D |-> IF s = {} THEN base ELSE SlowNext(One(s), it[s \ {One(s)}])]

\* The steps of SlowedDown are a function: the recursion over sizes is sound.
LEMMA SlowStepsExist ==
    ASSUME NEW S, IsFiniteSet(S), NEW base
    PROVE  \E it : SlowSteps(it, SUBSET S, base)
<1> DEFINE Small(k) == {s \in SUBSET S : Cardinality(s) <= k}
           Steps(it, D) == SlowSteps(it, D, base)
           Bad == {k \in Nat : ~\E it : Steps(it, Small(k))}
<1>1. ASSUME NEW k \in Nat, NEW it, k > 0 => Steps(it, Small(k - 1))
      PROVE  \E jt : Steps(jt, Small(k))
  <2> DEFINE jt == [s \in Small(k) |-> IF s = {} THEN base
                                       ELSE SlowNext(One(s), it[s \ {One(s)}])]
  <2>1. ASSUME NEW s \in Small(k), s # {}
        PROVE  /\ s \ {One(s)} \in Small(k) /\ k > 0 /\ s \ {One(s)} \in Small(k - 1)
    <3>1. One(s) \in s
      BY <2>1 DEF One
    <3>2. QED
      BY <2>1, <3>1, Sizes
  <2>2. ASSUME NEW s \in Small(k), s # {} PROVE jt[s \ {One(s)}] = it[s \ {One(s)}]
    <3> DEFINE t == s \ {One(s)}
    <3>1. t \in Small(k) /\ t \in Small(k - 1) /\ Steps(it, Small(k - 1))
      BY <2>1, <2>2, <1>1
    <3> HIDE DEF t, Small
    <3>2. it[t] = IF t = {} THEN base ELSE SlowNext(One(t), it[t \ {One(t)}])
      BY Zenon, <3>1 DEF SlowSteps
    <3>3. QED
      BY <3>1, <3>2 DEF t
  <2>3. jt = [s \in Small(k) |-> IF s = {} THEN base
                                 ELSE SlowNext(One(s), jt[s \ {One(s)}])]
    <3> HIDE DEF Small
    <3>1. QED BY Zenon, <2>2
  <2>4. QED
    BY Zenon, <2>3 DEF SlowSteps
<1>2. Bad = {}
  <2> HIDE DEF Steps, Small
  <2>1. SUFFICES ASSUME Bad # {} PROVE FALSE
    OBVIOUS
  <2>2. PICK k \in Bad : \A y \in Bad : k <= y
    BY Zenon, <2>1, LeastNat
  <2>3. CASE k = 0
    BY <1>1, <2>2, <2>3
  <2>4. CASE k # 0
    <3>1. k - 1 \in Nat /\ k - 1 \notin Bad
      BY <2>2, <2>4
    <3>2. PICK it : Steps(it, Small(k - 1))
      BY <3>1
    <3>3. QED
      BY <3>2, <1>1, <2>2
  <2>5. QED
    BY <2>3, <2>4
<1>3. Cardinality(S) \in Nat /\ Small(Cardinality(S)) = SUBSET S
  BY Sizes
<1>4. PICK it : Steps(it, Small(Cardinality(S)))
  BY Zenon, <1>2, <1>3
<1>5. QED
  BY Zenon, <1>3, <1>4

\* SlowedDown, step by step
SlowRun(it, n, b) ==
    /\ SlowedDown(n, b) = it[b.slow] /\ it[{}] = n
    /\ \A s \in SUBSET b.slow : s # {} => \E x \in s : it[s] = SlowNext(x, it[s \ {x}])

\* SlowedDown is such a run.
LEMMA SlowUnfolds ==
    ASSUME NEW b, IsFiniteSet(b.slow), NEW n
    PROVE  \E it : SlowRun(it, n, b)
<1>1. \A x : \E it : SlowSteps(it, SUBSET b.slow, x)
  BY Zenon, SlowStepsExist
<1> DEFINE it == CHOOSE it : SlowSteps(it, SUBSET b.slow, n)
<1>2. SlowSteps(it, SUBSET b.slow, n)
  BY Zenon, <1>1
<1>3. SlowedDown(n, b) = it[b.slow]
  BY Zenon DEF SlowedDown, FoldSet, MapThenFoldSet, SlowNext, SlowSteps, One
<1> HIDE DEF it
<1>4. it[{}] = n
  BY <1>2 DEF SlowSteps
<1>5. ASSUME NEW s \in SUBSET b.slow, s # {} PROVE \E x \in s : it[s] = SlowNext(x, it[s \ {x}])
  <2>1. it[s] = SlowNext(One(s), it[s \ {One(s)}])
    BY Zenon, <1>2, <1>5 DEF SlowSteps
  <2>2. One(s) \in s
    BY <1>5 DEF One
  <2>3. QED
    BY Zenon, <2>1, <2>2
<1>6. QED
  BY Zenon, <1>3, <1>4, <1>5 DEF SlowRun

\* Directional impairments leave the cuts as they are.
LEMMA SlowedDownFine ==
    ASSUME NEW n, Sealed(n), NEW b, b.slow \subseteq Vms \X Vms, NEW m, m = SlowedDown(n, b)
    PROVE  Still(n, m) /\ Fine(n, m)
<1>0. IsFiniteSet(b.slow)
  BY Zenon, HostAssumption, FS_Product, FS_Subset
<1>1. PICK it : SlowRun(it, n, b)
  BY <1>0, SlowUnfolds
<1> DEFINE Good(s) == Still(n, it[s]) /\ Fine(n, it[s])
           Bad == {Cardinality(s) : s \in {s \in SUBSET b.slow : ~Good(s)}}
<1>2. Good({})
  BY <1>1 DEF SlowRun, Still, Fine, Sealed, Plain
<1>3. ASSUME NEW s \in SUBSET b.slow, NEW x \in s, it[s] = SlowNext(x, it[s \ {x}]), Good(s \ {x})
      PROVE  Good(s)
  <2>1. PICK k : k = it[s \ {x}]
    OBVIOUS
  <2>2. PICK l : l = it[s]
    OBVIOUS
  <2>3. Sealed(k) /\ x \in Vms \X Vms /\ l = add_directional(k, x[1], x[2], TRUE)
    BY Zenon, <1>3, <2>1, <2>2 DEF SlowNext, Fine
  <2>4. Still(k, l) /\ Fine(k, l)
    BY Zenon, <2>3, SlowFine
  <2>5. Still(n, k) /\ Fine(n, k)
    BY <1>3, <2>1
  <2>6. QED
    BY <2>2, <2>4, <2>5, StillTwice DEF Fine
<1>4. Bad = {}
  <2> HIDE DEF Good
  <2>1. SUFFICES ASSUME Bad # {} PROVE FALSE
    OBVIOUS
  <2>2. Bad \subseteq Nat
    BY <1>0, Sizes
  <2>3. PICK k \in Bad : \A y \in Bad : k <= y
    BY Zenon, <2>1, <2>2, LeastNat
  <2>4. PICK s \in SUBSET b.slow : k = Cardinality(s) /\ ~Good(s)
    BY <2>3
  <2>5. s # {}
    BY <1>2, <2>4
  <2>6. PICK x \in s : it[s] = SlowNext(x, it[s \ {x}])
    BY <1>1, <2>5 DEF SlowRun
  <2>7. Cardinality(s \ {x}) = k - 1 /\ k \in Nat /\ s \ {x} \in SUBSET b.slow
    BY <1>0, <2>4, Sizes
  <2>8. Good(s \ {x})
    BY <2>3, <2>7
  <2>9. QED
    BY <1>3, <2>4, <2>6, <2>8
<1>5. m = it[b.slow]
  BY <1>1 DEF SlowRun
<1>6. QED
  BY <1>4, <1>5

\* Shaping leaves the cuts as they are.
LEMMA ShapedFine ==
    ASSUME NEW n, Sealed(n), NEW b, NEW m, m = Shaped(n, b)
    PROVE  Still(n, m) /\ Fine(n, m)
<1>1. PICK k : k = IF b.netem = None THEN n ELSE add_latency(n, b.netem)
  OBVIOUS
<1>2. Still(n, n) /\ Fine(n, n)
  BY DEF Still, Fine, Sealed, Plain
<1>3. Still(n, k) /\ Fine(n, k)
  BY <1>1, <1>2, LatencyFine
<1>4. m = IF b.capped THEN bandwidth_limit(k, TRUE) ELSE k
  BY <1>1 DEF Shaped
<1>5. Sealed(k)
  BY <1>3 DEF Fine
<1>6. CASE b.capped
  <2>1. Still(k, m) /\ Fine(k, m)
    BY Zenon, <1>4, <1>5, <1>6, LimitFine
  <2>2. QED
    BY <1>3, <2>1, StillTwice DEF Fine
<1>7. QED
  BY Zenon, <1>3, <1>4, <1>6

\* What a cut says of the pairs of a recorded bridge
PairCut(b, p) == \/ {p[1], p[2]} \in b.cuts \/ <<p[1], p[2]>> \in b.oneway
                 \/ p[1] \in b.isolated \/ p[2] \in b.isolated
\* and that the bridge has it, with no TAP that its rules do not know
Applied(n, p) == Cut(n, p[1], p[2]) /\ (n.up => n.late = {})

\* The recorded cuts are in the graph, and on the host, when they are re-applied.
LEMMA PairwiseFine ==
    ASSUME NEW n, Sealed(n), NEW b, b.oneway \subseteq Vms \X Vms, NEW m, m = PairwiseCut(n, b)
    PROVE  /\ Fine(n, m) /\ m.rtaps = n.rtaps /\ m.up = n.up
           /\ \A p : PairCut(b, p) => Applied(m, p)
<1>0. DOMAIN n = Fields
  BY DEF Sealed, Plain, Base
<1>1. CASE b.isolated = {} /\ b.cuts = {} /\ b.oneway = {}
  <2>1. m = n
    BY <1>1 DEF PairwiseCut
  <2>2. \A p : ~PairCut(b, p)
    BY Zenon, <1>1 DEF PairCut
  <2>3. QED
    BY <2>1, <2>2 DEF Fine
<1>2. CASE ~(b.isolated = {} /\ b.cuts = {} /\ b.oneway = {})
  <2>1. PICK k : k = [n EXCEPT !.isolated = @ \cup b.isolated,
                               !.cuts = @ \cup b.cuts, !.oneway = @ \cup b.oneway]
    OBVIOUS
  <2>2. m = refresh_partitions(k)
    BY <1>2, <2>1 DEF PairwiseCut
  <2>3. Same(n, k, {"isolated", "cuts", "oneway", "all"})
    BY Zenon, <1>0, <2>1 DEF Same, Fields
  <2>4. /\ k.isolated = n.isolated \cup b.isolated /\ k.cuts = n.cuts \cup b.cuts
        /\ k.oneway = n.oneway \cup b.oneway
    BY <1>0, <2>1 DEF Fields
  <2>5. k.oneway \subseteq Vms \X Vms
    BY <2>4 DEF Sealed, Plain
  <2>6. Fine(n, m)
    BY <2>2, <2>3, <2>5, GraphFine
  <2>7. Same(k, m, {"drops", "late"}) /\ DOMAIN k = Fields
    BY <2>2, <2>3, PartitionsIs DEF Same
  <2>8. m.isolated = k.isolated /\ m.cuts = k.cuts /\ m.oneway = k.oneway /\ m.up = k.up
    BY <2>7 DEF Same, Fields
  <2>9. m.rtaps = k.rtaps /\ k.rtaps = n.rtaps /\ k.up = n.up
    BY <2>3, <2>7 DEF Same, Fields
  <2>10. k.up => m.late = {}
    BY Zenon, <2>2, <2>7 DEF refresh_partitions, Fields
  <2>11. ASSUME NEW p, PairCut(b, p) PROVE Applied(m, p)
    BY <2>4, <2>8, <2>10, <2>11 DEF PairCut, Applied, Cut
  <2>12. QED
    BY <2>6, <2>8, <2>9, <2>11
<1>3. QED
  BY <1>1, <1>2

\* A cut stays applied when the graph is left alone.
LEMMA StillApplied ==
    ASSUME NEW n, NEW m, Still(n, m), NEW p, Applied(n, p), n.up
    PROVE  Applied(m, p)
BY DEF Still, Applied, Cut


\* partition_all cuts every pair, and its rules know every TAP.
LEMMA AllFine ==
    ASSUME NEW n, Sealed(n), NEW m, m = partition_all(n)
    PROVE  Fine(n, m) /\ m.rtaps = n.rtaps /\ m.up = n.up /\ \A p : Applied(m, p)
<1>0. DOMAIN n = Fields /\ n.oneway \subseteq Vms \X Vms
  BY DEF Sealed, Plain, Base
<1>1. PICK k : k = [n EXCEPT !.all = TRUE]
  BY Zenon
<1>2. m = refresh_partitions(k)
  BY <1>1 DEF partition_all
<1>3. Same(n, k, {"all"}) /\ k.all = TRUE
  BY <1>0, <1>1 DEF Same, Fields
<1>4. Same(n, k, {"isolated", "cuts", "oneway", "all"}) /\ k.oneway = n.oneway
      /\ k.up = n.up /\ k.rtaps = n.rtaps /\ DOMAIN k = Fields
  BY <1>3 DEF Same, Fields
<1>5. Fine(n, m)
  BY <1>0, <1>2, <1>4, GraphFine
<1>6. Same(k, m, {"drops", "late"})
  BY <1>2, <1>4, PartitionsIs
<1>7. m.all = k.all /\ m.up = k.up /\ m.rtaps = k.rtaps
  BY <1>6 DEF Same, Fields
<1>8. k.up => m.late = {}
  BY <1>2, <1>4 DEF refresh_partitions, Fields
<1>9. QED
  BY Zenon, <1>3, <1>4, <1>5, <1>7, <1>8 DEF Applied, Cut

\* The graph of a snapshot, re-applied: the TAPs are kept, and the host drops
\* between them what the snapshot's graph cuts.
LEMMA ImpairedFine ==
    ASSUME NEW n, Sealed(n), NEW b, b.oneway \subseteq Vms \X Vms, b.slow \subseteq Vms \X Vms,
           NEW m, m = Impaired(n, b)
    PROVE  /\ Fine(n, m) /\ m.rtaps = n.rtaps
           /\ \A p \in Pairs(m.rtaps) : Cut(b, p[1], p[2]) => p \in m.drops
<1>1. PICK s : s = Shaped(n, b)
  OBVIOUS
<1>2. PICK c : c = PairwiseCut(s, b)
  OBVIOUS
<1>3. PICK d : d = SlowedDown(c, b)
  OBVIOUS
<1>4. PICK e : e = IF b.all THEN partition_all(d) ELSE d
  OBVIOUS
<1>5. m = Uplinked(e, b)
  BY Zenon, <1>1, <1>2, <1>3, <1>4 DEF Impaired
<1>6. Still(n, s) /\ Fine(n, s) /\ Sealed(s)
  BY <1>1, ShapedFine DEF Fine
<1>7. /\ Fine(s, c) /\ c.rtaps = s.rtaps /\ c.up = s.up
      /\ \A p : PairCut(b, p) => Applied(c, p)
  BY <1>2, <1>6, PairwiseFine
<1>8. Sealed(c)
  BY <1>7 DEF Fine
<1>9. Still(c, d) /\ Fine(c, d) /\ Sealed(d)
  BY Zenon, <1>3, <1>8, SlowedDownFine DEF Fine
<1>10. Fine(d, e) /\ Sealed(e) /\ e.rtaps = d.rtaps /\ (d.up => e.up)
  BY Zenon, <1>4, <1>9, AllFine DEF Fine
<1>11. Still(e, m) /\ Fine(e, m)
  <2>1. Still(e, e) /\ Fine(e, e)
    BY <1>10 DEF Still, Fine, Sealed, Plain
  <2>2. QED
    BY Zenon, <1>5, <1>10, <2>1, UplinkFine DEF Uplinked
<1>12. m.rtaps = n.rtaps
  BY <1>6, <1>7, <1>9, <1>10, <1>11 DEF Still
<1>13. Fine(n, m)
  BY Zenon, <1>6, <1>7, <1>9, <1>10, <1>11 DEF Fine
<1>14. ASSUME NEW p \in Pairs(m.rtaps), Cut(b, p[1], p[2]) PROVE p \in m.drops
  <2>1. n.up /\ s.up /\ c.up /\ d.up /\ e.up
    <3>1. n.rtaps # {}
      BY <1>12, <1>14 DEF Pairs
    <3>2. n.up
      BY <3>1 DEF Sealed, Plain, Base
    <3>3. QED
      BY Zenon, <3>2, <1>6, <1>7, <1>9, <1>10 DEF Still
  <2>2. Applied(e, p)
    <3>1. CASE b.all
      BY Zenon, <1>4, <1>9, <3>1, AllFine
    <3>2. CASE ~b.all
      <4>1. PairCut(b, p)
        BY Zenon, <1>14, <3>2 DEF Cut, PairCut
      <4>2. Applied(c, p)
        BY Zenon, <4>1, <1>7
      <4>3. Applied(d, p)
        BY Zenon, <4>2, <2>1, <1>9, StillApplied
      <4>4. QED
        BY Zenon, <4>3, <1>4, <3>2
    <3>3. QED
      BY Zenon, <3>1, <3>2
  <2>3. Applied(m, p)
    BY Zenon, <2>1, <2>2, <1>11, StillApplied
  <2>4. m.late = {} /\ Cut(m, p[1], p[2]) /\ Exact(m)
    BY <2>1, <2>3, <1>11 DEF Applied, Still, Fine, Sealed
  <2>5. QED
    BY Zenon, <2>4, <1>14 DEF Exact
<1>15. QED
  BY <1>12, <1>13, <1>14

\* The members' TAPs, made again one by one.
LEMMA MembersFine ==
    ASSUME NEW n, Sealed(n), saved.bridge.members \subseteq Vms, NEW m, m = RealiseMembers(n)
    PROVE  Fine(n, m) /\ n.rtaps \subseteq m.rtaps
<1>1. PICK vs : vs = saved.bridge.members
  OBVIOUS
<1>2. IsFiniteSet(vs) /\ vs \in SUBSET Vms
  BY <1>1, FewVms
<1>0. PICK stop : stop = FALSE
  BY Zenon
<1>3. m = RealiseEach(n, vs, stop)
  BY Zenon, <1>0, <1>1 DEF RealiseMembers
<1>4. DOMAIN n = Fields /\ n.up \in BOOLEAN /\ (~n.up => n.rtaps = {})
  BY Zenon DEF Sealed, Plain, Base
<1>5. Kept(n, m, vs) /\ (Accounted(n) => Accounted(m))
  BY <1>2, <1>3, <1>4, RealiseEachKeeps
<1>6. Sealed(m)
  BY Zenon, <1>2, <1>5, KeptSeals
<1>7. QED
  BY <1>5, <1>6 DEF Fine, Kept


\* The snapshot the lab has
SavedIsSound ==
    /\ saved.vms \subseteq Vms /\ saved.bridge.members \subseteq Vms
    /\ saved.bridge.oneway \subseteq Vms \X Vms /\ saved.bridge.slow \subseteq Vms \X Vms

\* A launch: over, or at one of its stages
JobFields == {"pc", "how", "seen", "cid", "tries"}
IsJob(j) ==
    \/ DOMAIN j = {"pc"} /\ j.pc \in {"none", "failed"}
    \/ /\ DOMAIN j = JobFields /\ j.how \in {"boot", "restore"}
       /\ j.pc \in {"realise", "netem", "tap", "reserve", "await"}
Jobs == DOMAIN job = Vms /\ \A v \in Vms : IsJob(job[v])

\* Who launches when
Launches ==
    /\ phase \in {"idle", "boot", "restore", "resume", "refused"}
    /\ phase \in {"resume", "refused"} => Launching = {}
    /\ \A v \in Launching : job[v].how = "boot" => phase = "boot"
    /\ ~stray /\ phase \notin {"boot", "restore"} => Launching = {}
    /\ ~stray /\ phase = "boot" => \A v \in Launching : job[v].how = "boot"

\* The host's side between the steps of launches that realise the bridge at once
Realising == {v \in Vms : job[v].pc \in {"netem", "tap"}}
Accounts ==
    /\ Booked(net)
    /\ \A v \in Realising :
        /\ net.link /\ job[v].seen.tap = (v \notin net.rtaps)
        /\ ~net.up => job[v].seen.cur = None
    /\ ~net.up /\ net.link => Realising # {}
    /\ ~net.up /\ net.root # None => \E v \in Vms : job[v].pc = "tap"

\* A restored VM that has come past the bridge has its TAP
Wired ==
    phase = "restore" =>
        \A v \in saved.vms \cap saved.bridge.members :
            job[v].pc \in {"none", "reserve", "await"} => v \in net.rtaps

\* The bridge keeps its cuts exact, and its books but for the launches under way
LInv ==
    /\ Sealed(net) /\ SavedIsSound /\ Jobs /\ Launches
    /\ ~stray => Accounts
    /\ Wired /\ RestoreSeals

\* With no launch under way the books are in order.
LEMMA QuietAccounts ==
    ASSUME Jobs, Launching = {}
    PROVE  Accounts <=> Accounted(net)
<1>1. Realising = {} /\ ~\E v \in Vms : job[v].pc = "tap"
  BY DEF Launching, Realising
<1>2. QED
  BY <1>1 DEF Accounts, Accounted, Booked

\* A call of the test on the bridge
LEMMA BridgeKeeps ==
    ASSUME LInv, phase = "idle", Fine(net, net'), UNCHANGED <<job, phase, saved, stray>>
    PROVE  LInv'
<1>1. Sealed(net)'
  BY DEF Fine
<1>2. SavedIsSound' /\ Jobs' /\ Launches'
  BY DEF LInv, SavedIsSound, Jobs, Launches, Launching
<1>3. Wired' /\ RestoreSeals'
  BY DEF Wired, RestoreSeals
<1>4. ASSUME ~stray' PROVE Accounts'
  <2>1. Launching = {} /\ ~stray /\ Jobs
    BY <1>4 DEF LInv, Launches
  <2>2. Accounted(net)'
    BY <2>1, QuietAccounts DEF LInv, Fine
  <2>3. Realising' = {} /\ ~\E v \in Vms : job'[v].pc = "tap"
    BY <2>1 DEF Launching, Realising
  <2>4. QED
    BY <2>2, <2>3 DEF Accounts, Accounted, Booked
<1>5. QED
  BY <1>1, <1>2, <1>3, <1>4 DEF LInv

\* A step that is about none of it
LEMMA ElsewhereKeeps ==
    ASSUME LInv, UNCHANGED <<net, job, phase, saved, stray>>
    PROVE  LInv'
<1>1. Sealed(net)'
  BY DEF LInv
<1>2. SavedIsSound' /\ Jobs' /\ Launches'
  BY DEF LInv, SavedIsSound, Jobs, Launches, Launching
<1>3. Wired' /\ RestoreSeals'
  BY Zenon DEF LInv, Wired, RestoreSeals
<1>4. ASSUME ~stray' PROVE Accounts'
  BY <1>4 DEF LInv, Accounts, Realising
<1>5. QED
  BY <1>1, <1>2, <1>3, <1>4 DEF LInv

\* A launch goes on, or ends
LEMMA LaunchStays ==
    ASSUME Jobs, Launches, NEW v \in Vms, v \in Launching, NEW j, IsJob(j),
           job' = [job EXCEPT ![v] = j], DOMAIN j = JobFields => j.how = job[v].how,
           UNCHANGED <<phase, stray>>
    PROVE  Jobs' /\ Launches' /\ phase \notin {"resume", "refused"}
<1>1. phase \notin {"resume", "refused"}
  BY DEF Launches
<1>2. job'[v] = j /\ (\A w \in Vms \ {v} : job'[w] = job[w]) /\ DOMAIN job' = Vms
  BY DEF Jobs
<1>3. Jobs'
  BY <1>2 DEF Jobs
<1>4. \A w \in Launching' : w \in Launching /\ job'[w].how = job[w].how
  BY <1>2, <1>3 DEF Jobs, IsJob, Launching
<1>5. Launches'
  BY <1>1, <1>4 DEF Launches
<1>6. QED
  BY <1>1, <1>3, <1>5

\* The part of a launch that has the bridge behind it
LEMMA HostKeeps ==
    ASSUME LInv, NEW v \in Vms, job[v].pc \in {"reserve", "await"}, NEW j, IsJob(j),
           j.pc \in {"reserve", "await", "none", "failed"},
           job' = [job EXCEPT ![v] = j], DOMAIN j = JobFields => j.how = job[v].how,
           UNCHANGED <<net, phase, saved, stray>>
    PROVE  LInv'
<1>1. v \in Launching /\ Jobs /\ Launches
  BY DEF Launching, LInv
<1>2. Jobs' /\ Launches' /\ phase \notin {"resume", "refused"}
  BY Zenon, <1>1, LaunchStays
<1>3. job'[v] = j /\ (\A w \in Vms \ {v} : job'[w] = job[w])
  BY <1>1 DEF Jobs
<1>4. Sealed(net)' /\ SavedIsSound'
  BY DEF LInv, SavedIsSound
<1>5. Wired'
  BY <1>3 DEF LInv, Wired, SavedIsSound
<1>6. RestoreSeals'
  BY Zenon, <1>2 DEF RestoreSeals
<1>7. ASSUME ~stray' PROVE Accounts'
  <2>1. Accounts
    BY <1>7 DEF LInv
  <2>2. Realising' = Realising /\ \A w \in Realising : job'[w] = job[w]
    BY <1>3 DEF Realising
  <2>3. (\E w \in Vms : job[w].pc = "tap") => \E w \in Vms : job'[w].pc = "tap"
    BY Zenon, <1>3
  <2>4. QED
    BY <2>1, <2>2, <2>3 DEF Accounts
<1>8. QED
  BY <1>2, <1>4, <1>5, <1>6, <1>7 DEF LInv


\* The part of a launch that realises the bridge
LEMMA RealiseKeeps ==
    ASSUME LInv, NEW v \in Vms, job[v].pc \in {"realise", "netem", "tap"}, NEW j, IsJob(j),
           j.pc \in {"netem", "tap", "reserve", "failed"},
           job' = [job EXCEPT ![v] = j], DOMAIN j = JobFields => j.how = job[v].how,
           UNCHANGED <<phase, saved, stray>>, Kept(net, net', {v}),
           j.pc = "reserve" => v \in net'.rtaps, ~stray => Accounts'
    PROVE  LInv'
<1>1. v \in Launching /\ Jobs /\ Launches /\ Sealed(net)
  BY Zenon DEF Launching, LInv
<1>2. Jobs' /\ Launches' /\ phase \notin {"resume", "refused"}
  BY Zenon, <1>1, LaunchStays
<1>3. job'[v] = j /\ (\A w \in Vms \ {v} : job'[w] = job[w])
  BY <1>1 DEF Jobs
<1>4. Sealed(net')
  BY <1>1, KeptSeals
<1>5. SavedIsSound'
  BY DEF LInv, SavedIsSound
<1>6. Wired'
  BY <1>3 DEF LInv, Wired, SavedIsSound, Kept
<1>7. RestoreSeals'
  BY Zenon, <1>2 DEF RestoreSeals
<1>8. QED
  BY Zenon, <1>2, <1>4, <1>5, <1>6, <1>7 DEF LInv

\* A launch looks at the bridge, and makes the interface.
LEMMA LookKeeps ==
    ASSUME LInv, NEW v \in Vms, RealiseLook(v)
    PROVE  LInv'
<1>0. DOMAIN net = Fields /\ net.up \in BOOLEAN /\ (~net.up => net.rtaps = {}) /\ Jobs
  BY DEF LInv, Sealed, Plain, Base
<1>1. PICK seen : seen = Seen(net, v)
  OBVIOUS
<1>2. PICK j : j = [job[v] EXCEPT !.pc = "netem", !.seen = seen]
  OBVIOUS
<1>3. /\ job[v].pc = "realise" /\ job' = [job EXCEPT ![v] = j] /\ net' = MakeLink(net, seen)
      /\ UNCHANGED <<phase, saved, stray>>
  BY Zenon, <1>1, <1>2 DEF RealiseLook, At, labVars
<1>4. DOMAIN job[v] = JobFields /\ job[v].how \in {"boot", "restore"}
  BY <1>0, <1>3 DEF Jobs, IsJob
<1>5. DOMAIN j = JobFields /\ j.pc = "netem" /\ j.seen = seen /\ j.how = job[v].how
  BY <1>2, <1>4 DEF JobFields
<1>6. IsJob(j)
  BY <1>4, <1>5 DEF IsJob
<1>7. Same(net, net', {"link"}) /\ net'.link = IF seen.link THEN TRUE ELSE net.link
  BY Zenon, <1>0, <1>3, MakeLinkIs
<1>8. Kept(net, net', {v})
  BY <1>0, <1>7, SameKept DEF Same
<1>9. /\ seen.link = ~net.up /\ seen.cur = net.rnetem /\ seen.tap = (v \notin net.rtaps)
  BY <1>1 DEF Seen
<1>10. ASSUME ~stray PROVE Accounts'
  <2>1. Accounts
    BY <1>10 DEF LInv
  <2>2. job'[v] = j /\ (\A w \in Vms \ {v} : job'[w] = job[w])
    BY Zenon, <1>0, <1>3 DEF Jobs
  <2>3. Realising' = Realising \cup {v} /\ v \notin Realising
    BY Zenon, <1>3, <1>5, <2>2 DEF Realising
  <2>4. /\ net'.up = net.up /\ net'.rtaps = net.rtaps /\ net'.taps = net.taps
        /\ net'.nat = net.nat /\ net'.rnat = net.rnat /\ net'.shaped = net.shaped
        /\ net'.rnetem = net.rnetem /\ net'.root = net.root
    BY Zenon, <1>7 DEF Same, Fields
  <2>5. net'.link = TRUE
    BY Zenon, <2>1, <1>0, <1>7, <1>9 DEF Accounts, Booked
  <2>6. Booked(net)'
    BY Zenon, <2>1, <2>4, <2>5 DEF Accounts, Booked
  <2>7. ASSUME NEW w \in Realising' PROVE job'[w].seen.tap = (w \notin net'.rtaps)
                                      /\ (~net'.up => job'[w].seen.cur = None)
    <3>1. CASE w = v
      BY <3>1, <2>1, <2>2, <2>4, <1>5, <1>9 DEF Accounts, Booked
    <3>2. CASE w # v
      BY <3>2, <2>1, <2>2, <2>3, <2>4, <2>7 DEF Accounts, Realising
    <3>3. QED
      BY <3>1, <3>2
  <2>8. ASSUME ~net'.up, net'.root # None PROVE \E w \in Vms : job'[w].pc = "tap"
    <3>1. PICK w \in Vms : job[w].pc = "tap"
      BY <2>1, <2>4, <2>8 DEF Accounts
    <3>2. w # v
      BY <3>1, <1>3
    <3>3. QED
      BY Zenon, <3>1, <3>2, <2>2
  <2>9. QED
    BY <2>3, <2>5, <2>6, <2>7, <2>8 DEF Accounts
<1>11. QED
  BY Zenon, <1>3, <1>5, <1>6, <1>8, <1>10, RealiseKeeps

\* It installs the root qdisc, or finds that another launch was first.
LEMMA NetemKeeps ==
    ASSUME LInv, NEW v \in Vms, RealiseNetem(v)
    PROVE  LInv'
<1>0. DOMAIN net = Fields /\ net.up \in BOOLEAN /\ (~net.up => net.rtaps = {}) /\ Jobs
  BY DEF LInv, Sealed, Plain, Base
<1>1. PICK seen : seen = job[v].seen
  BY Zenon
<1>2. job[v].pc = "netem" /\ UNCHANGED <<phase, saved, stray>>
  BY Zenon DEF RealiseNetem, At, labVars
<1>3. DOMAIN job[v] = JobFields /\ job[v].how \in {"boot", "restore"}
  BY Zenon, <1>0, <1>2 DEF Jobs, IsJob
<1>4. ASSUME ~stray
      PROVE  Accounts /\ net.link /\ seen.tap = (v \notin net.rtaps) /\ (~net.up => seen.cur = None)
  BY Zenon, <1>1, <1>2, <1>4 DEF LInv, Accounts, Realising
<1>5. CASE NetemFits(net, seen)
  <2>1. PICK j : j = [job[v] EXCEPT !.pc = "tap"]
    BY Zenon
  <2>2. job' = [job EXCEPT ![v] = j] /\ net' = PutNetem(net, seen)
    BY <1>1, <1>5, <2>1 DEF RealiseNetem, Goes
  <2>3. DOMAIN j = JobFields /\ j.pc = "tap" /\ j.seen = seen /\ j.how = job[v].how
    BY <1>1, <1>3, <2>1 DEF JobFields
  <2>4. IsJob(j)
    BY <1>3, <2>3 DEF IsJob
  <2>5. Same(net, net', {"root"})
    BY Zenon, <1>0, <2>2, PutNetemIs
  <2>6. Kept(net, net', {v})
    BY Zenon, <1>0, <2>5, SameKept DEF Same
  <2>7. ASSUME ~stray PROVE Accounts'
    <3>1. job'[v] = j /\ (\A w \in Vms \ {v} : job'[w] = job[w])
      BY Zenon, <1>0, <2>2 DEF Jobs
    <3>2. Realising' = Realising /\ v \in Realising
      BY Zenon, <1>2, <2>3, <3>1 DEF Realising
    <3>3. /\ net'.up = net.up /\ net'.rtaps = net.rtaps /\ net'.taps = net.taps
          /\ net'.nat = net.nat /\ net'.rnat = net.rnat /\ net'.shaped = net.shaped
          /\ net'.rnetem = net.rnetem /\ net'.link = net.link
      BY Zenon, <2>5 DEF Same, Fields
    <3>4. Booked(net)' /\ net'.link
      BY Zenon, <1>4, <2>7, <3>3 DEF Accounts, Booked
    <3>5. \A w \in Realising' : job'[w].seen = job[w].seen
      BY Zenon, <1>1, <2>3, <3>1 DEF Realising
    <3>6. QED
      BY <1>4, <2>3, <2>7, <3>1, <3>2, <3>3, <3>4, <3>5 DEF Accounts
  <2>8. QED
    BY Zenon, <1>2, <2>2, <2>3, <2>4, <2>6, <2>7, RealiseKeeps
<1>6. CASE ~NetemFits(net, seen)
  <2>1. PICK j : j = [pc |-> "failed"]
    BY Zenon
  <2>2. job' = [job EXCEPT ![v] = j] /\ net' = net
    BY <1>1, <1>6, <2>1 DEF RealiseNetem, Fails
  <2>3. IsJob(j) /\ j.pc = "failed" /\ DOMAIN j # JobFields
    BY <2>1 DEF IsJob, JobFields
  <2>4. Kept(net, net', {v})
    BY Zenon, <1>0, <2>2, SameKept DEF Same
  <2>5. ASSUME ~stray PROVE Accounts'
    <3>1. job'[v] = j /\ (\A w \in Vms \ {v} : job'[w] = job[w])
      BY Zenon, <1>0, <2>2 DEF Jobs
    <3>2. Realising' = Realising \ {v}
      BY Zenon, <2>3, <3>1 DEF Realising
    <3>3. ASSUME ~net.up PROVE \E w \in Vms : job'[w].pc = "tap" /\ w \in Realising'
      <4>1. net.root # None
        BY Zenon, <3>3, <1>4, <1>6, <2>5 DEF NetemFits
      <4>2. PICK w \in Vms : job[w].pc = "tap"
        BY Zenon, <3>3, <4>1, <1>4, <2>5 DEF Accounts
      <4>3. QED
        BY Zenon, <4>2, <1>2, <3>1, <3>2 DEF Realising
    <3>4. QED
      BY <1>4, <2>2, <2>5, <3>1, <3>2, <3>3 DEF Accounts
  <2>6. QED
    BY Zenon, <1>2, <2>2, <2>3, <2>4, <2>5, RealiseKeeps
<1>7. QED
  BY <1>5, <1>6


\* It makes the TAP and records what it has done, or fails on its qdisc.
LEMMA TapKeeps ==
    ASSUME LInv, NEW v \in Vms, RealiseTap(v)
    PROVE  LInv'
<1>0. DOMAIN net = Fields /\ net.up \in BOOLEAN /\ (~net.up => net.rtaps = {}) /\ Jobs
  BY DEF LInv, Sealed, Plain, Base
<1>1. PICK seen : seen = job[v].seen
  OBVIOUS
<1>2. job[v].pc = "tap" /\ UNCHANGED <<phase, saved, stray>>
  BY DEF RealiseTap, At, labVars
<1>3. DOMAIN job[v] = JobFields /\ job[v].how \in {"boot", "restore"}
  BY <1>0, <1>2 DEF Jobs, IsJob
<1>4. ASSUME ~stray
      PROVE  Accounts /\ net.link /\ seen.tap = (v \notin net.rtaps) /\ (~net.up => seen.cur = None)
  BY <1>1, <1>2, <1>4 DEF LInv, Accounts, Realising
<1>5. PICK tapped : tapped = MakeTap(net, seen, v)
  BY Zenon
<1>6. /\ Same(net, tapped, {"taps", "plugged"})
      /\ tapped.taps = IF seen.tap THEN net.taps \cup {v} ELSE net.taps
  BY Zenon, <1>0, <1>5, MakeTapIs
<1>7. CASE TapFits(net, seen) /\ ShapeFits(tapped, v)
  <2>1. PICK j : j = [job[v] EXCEPT !.pc = "reserve", !.seen = None]
    OBVIOUS
  <2>2. PICK shaped : shaped = Shape(tapped, v)
    OBVIOUS
  <2>3. PICK last : last = Record(shaped, seen, v)
    OBVIOUS
  <2>4. job' = [job EXCEPT ![v] = j] /\ net' = last
    BY Zenon, <1>1, <1>5, <1>7, <2>1, <2>2, <2>3 DEF RealiseTap
  <2>5. DOMAIN j = JobFields /\ j.pc = "reserve" /\ j.how = job[v].how
    BY <1>3, <2>1 DEF JobFields
  <2>6. IsJob(j)
    BY <1>3, <2>5 DEF IsJob
  <2>7. DOMAIN tapped = Fields
    BY <1>6 DEF Same
  <2>8. Same(tapped, shaped, {"shaped"}) /\ shaped.shaped \subseteq tapped.shaped \cup {v}
    BY <2>2, <2>7, ShapeIs
  <2>9. DOMAIN shaped = Fields
    BY <2>8 DEF Same
  <2>10. Same(shaped, last, {"up", "rnetem", "rtaps", "rslow", "late"})
    BY Zenon, <2>3, <2>9, RecordIs
  <2>11. last.up = TRUE /\ last.rtaps = shaped.rtaps \cup {v}
    BY <2>3, <2>9 DEF Record, Fields
  <2>12. last.late = IF v \in shaped.rtaps THEN shaped.late ELSE shaped.late \cup {v}
    BY Zenon, <2>3, <2>9 DEF Record, Fields
  <2>13. Same(net, shaped, {"taps", "plugged", "shaped"})
    BY <1>6, <2>8 DEF Same
  <2>14. /\ shaped.rtaps = net.rtaps /\ shaped.late = net.late /\ shaped.members = net.members
         /\ shaped.isolated = net.isolated /\ shaped.cuts = net.cuts
         /\ shaped.oneway = net.oneway
         /\ shaped.all = net.all /\ shaped.slow = net.slow /\ shaped.drops = net.drops
    BY <2>13 DEF Same, Fields
  <2>15. /\ last.members = shaped.members /\ last.isolated = shaped.isolated
         /\ last.cuts = shaped.cuts /\ last.oneway = shaped.oneway
         /\ last.all = shaped.all /\ last.slow = shaped.slow /\ last.drops = shaped.drops
    BY Zenon, <2>10 DEF Same, Fields
  <2>16. Kept(net, last, {v})
    BY Zenon, <2>10, <2>11, <2>12, <2>14, <2>15 DEF Kept, Same
  <2>17. ASSUME ~stray PROVE Accounts'
    <3>1. /\ last.taps = tapped.taps /\ last.nat = net.nat /\ last.rnat = net.rnat
          /\ last.shaped \subseteq net.shaped \cup {v} /\ last.link = net.link
      BY Zenon, <1>6, <2>8, <2>10, <2>13 DEF Same, Fields
    <3>2. last.taps = last.rtaps
      BY <1>4, <1>6, <2>11, <2>14, <2>17, <3>1 DEF Accounts, Booked
    <3>3. Booked(last) /\ last.link
      BY Zenon, <1>4, <2>11, <2>14, <2>17, <3>1, <3>2 DEF Accounts, Booked
    <3>4. Booked(net)' /\ net'.link /\ net'.up
      BY Zenon, <2>4, <2>11, <3>3
    <3>5. job'[v] = j /\ (\A w \in Vms \ {v} : job'[w] = job[w])
      BY Zenon, <1>0, <2>4 DEF Jobs
    <3>6. \A w \in Realising' : w \in Realising /\ w # v /\ job'[w] = job[w]
      BY Zenon, <2>5, <3>5 DEF Realising
    <3>7. \A w \in Realising' : (w \notin net'.rtaps) = (w \notin net.rtaps)
      BY Zenon, <3>6, <2>4, <2>11, <2>14
    <3>8. QED
      BY <1>4, <2>17, <3>4, <3>6, <3>7 DEF Accounts
  <2>18. v \in net'.rtaps /\ Kept(net, net', {v})
    BY Zenon, <2>4, <2>11, <2>16
  <2>19. QED
    BY Zenon, <1>2, <2>4, <2>5, <2>6, <2>17, <2>18, RealiseKeeps
<1>8. CASE ~(TapFits(net, seen) /\ ShapeFits(tapped, v))
  <2>1. PICK j : j = [pc |-> "failed"]
    BY Zenon
  <2>2. job' = [job EXCEPT ![v] = j] /\ net' = tapped
    BY <1>1, <1>5, <1>8, <2>1 DEF RealiseTap, Fails
  <2>3. IsJob(j) /\ j.pc = "failed" /\ DOMAIN j # JobFields
    BY <2>1 DEF IsJob, JobFields
  <2>4. Same(net, net', {"link", "root", "taps", "plugged", "shaped", "rnetem", "rslow"})
    BY <1>6, <2>2 DEF Same
  <2>5. Kept(net, net', {v})
    BY Zenon, <1>0, <2>4, SameKept
  <2>6. ASSUME ~stray PROVE Accounts'
    <3>1. tapped.shaped = net.shaped /\ tapped.taps = net.taps \cup {v}
      <4>1. tapped.shaped = net.shaped
        BY Zenon, <1>6 DEF Same, Fields
      <4>2. QED
        BY Zenon, <4>1, <1>4, <1>6, <2>6 DEF Accounts, Booked
    <3>2. v \in net.rtaps
      <4>1. ~ShapeFits(tapped, v)
        BY <1>4, <1>8, <2>6 DEF TapFits
      <4>2. v \in tapped.shaped
        BY <4>1, <3>1 DEF ShapeFits
      <4>3. QED
        BY Zenon, <4>2, <3>1, <1>4, <2>6 DEF Accounts, Booked
    <3>3. net' = net
      BY Zenon, <3>2, <1>4, <1>5, <2>2, <2>6 DEF MakeTap
    <3>4. net.up
      BY <3>2, <1>0
    <3>5. job'[v] = j /\ (\A w \in Vms \ {v} : job'[w] = job[w])
      BY <1>0, <2>2 DEF Jobs
    <3>6. \A w \in Realising' : w \in Realising /\ job'[w] = job[w]
      BY <2>3, <3>5 DEF Realising
    <3>7. QED
      BY Zenon, <1>4, <2>6, <3>3, <3>4, <3>6 DEF Accounts
  <2>7. QED
    BY Zenon, <1>2, <2>2, <2>3, <2>5, <2>6, RealiseKeeps
<1>9. QED
  BY <1>7, <1>8

\* The steps of a launch that has the bridge behind it
LEMMA ReserveKeeps ==
    ASSUME LInv, NEW v \in Vms,
           \/ Reserve(v) \/ ConnectFails(v) \/ ConnectRetries(v)
           \/ IncomingFails(v) \/ AgentMissing(v) \/ AgentAnswers(v)
    PROVE  LInv'
<1>0. Jobs
  BY DEF LInv
<1>1. job[v].pc \in {"reserve", "await"} /\ UNCHANGED <<net, phase, saved, stray>>
  BY Zenon DEF Reserve, ConnectFails, ConnectRetries, IncomingFails, AgentMissing, AgentAnswers,
         At, KillAndClean, labVars
<1>2. DOMAIN job[v] = JobFields /\ job[v].how \in {"boot", "restore"}
  BY Zenon, <1>0, <1>1 DEF Jobs, IsJob
<1>3. PICK j : /\ job' = [job EXCEPT ![v] = j]
               /\ \/ j = [pc |-> "failed"] \/ j = NoJob
                  \/ \E c : j = [job[v] EXCEPT !.pc = "await", !.cid = c]
                  \/ j = [job[v] EXCEPT !.pc = "reserve", !.cid = 0, !.tries = @ + 1]
  <2>1. CASE Reserve(v)
    <3>1. PICK c : c = Min(FreeCids)
      OBVIOUS
    <3>2. \/ job' = [job EXCEPT ![v] = [pc |-> "failed"]]
          \/ job' = [job EXCEPT ![v].pc = "await", ![v].cid = c]
      BY Zenon, <2>1, <3>1 DEF Reserve, Fails
    <3>3. CASE job' = [job EXCEPT ![v] = [pc |-> "failed"]]
      BY Zenon, <3>3
    <3>4. CASE job' = [job EXCEPT ![v].pc = "await", ![v].cid = c]
      <4>1. PICK k : k = [job[v] EXCEPT !.pc = "await", !.cid = c]
        OBVIOUS
      <4>2. job' = [job EXCEPT ![v] = k]
        BY Zenon, <3>4, <4>1
      <4>3. QED
        BY Zenon, <4>1, <4>2
    <3>5. QED
      BY Zenon, <3>2, <3>3, <3>4
  <2>2. CASE ConnectRetries(v)
    BY Zenon, <2>2 DEF ConnectRetries
  <2>3. CASE ConnectFails(v) \/ IncomingFails(v) \/ AgentMissing(v)
    BY Zenon, <2>3 DEF ConnectFails, IncomingFails, AgentMissing, Fails
  <2>4. CASE AgentAnswers(v)
    BY Zenon, <2>4 DEF AgentAnswers
  <2>5. QED
    BY Zenon, <2>1, <2>2, <2>3, <2>4
<1>4. IsJob(j) /\ j.pc \in {"reserve", "await", "none", "failed"}
      /\ (DOMAIN j = JobFields => j.how = job[v].how)
  <2>1. CASE j = [pc |-> "failed"] \/ j = NoJob
    BY <2>1 DEF IsJob, JobFields, NoJob
  <2>2. ASSUME NEW c, j = [job[v] EXCEPT !.pc = "await", !.cid = c]
        PROVE  DOMAIN j = JobFields /\ j.pc = "await" /\ j.how = job[v].how
    BY <2>2, <1>2 DEF JobFields
  <2>3. CASE j = [job[v] EXCEPT !.pc = "reserve", !.cid = 0, !.tries = @ + 1]
    <3>1. DOMAIN j = JobFields /\ j.pc = "reserve" /\ j.how = job[v].how
      BY <2>3, <1>2 DEF JobFields
    <3>2. QED
      BY <3>1, <1>2 DEF IsJob
  <2>4. QED
    BY Zenon, <1>2, <1>3, <2>1, <2>2, <2>3 DEF IsJob
<1>5. QED
  BY Zenon, <1>1, <1>3, <1>4, HostKeeps

\* A step of a launch.
LEMMA LaunchKeeps ==
    ASSUME LInv, Launch
    PROVE  LInv'
BY Zenon, LookKeeps, NetemKeeps, TapKeeps, ReserveKeeps DEF Launch

\* The test's calls on the bridge
LEMMA CallsKeep ==
    ASSUME LInv, \/ Attach \/ Detach \/ Disconnect \/ Reconnect \/ Partition \/ Heal
                 \/ Isolate \/ Impair \/ Uplink \/ Reset \/ Close
    PROVE  LInv'
<1>0. Sealed(net)
  BY DEF LInv
<1>1. ASSUME NEW n, OnBridge(n), Fine(net, n) PROVE LInv'
  <2>1. phase = "idle" /\ net' = n /\ UNCHANGED <<job, phase, saved, stray>>
    BY <1>1 DEF OnBridge, launchVars
  <2>2. QED
    BY <1>1, <2>1, BridgeKeeps
<1>a. \A v \in Vms : Fine(net, attach(net, v))
  BY Zenon, <1>0, AttachFine DEF attach
<1>2. CASE Attach
  <2>1. PICK v \in Vms : phase = "idle" /\ net' = attach(net, v)
                         /\ UNCHANGED <<job, phase, saved, stray>>
    BY <1>2 DEF Attach, launchVars
  <2>2. QED
    BY <1>a, <2>1, BridgeKeeps
<1>3. CASE Detach \/ Disconnect
  BY Zenon, <1>0, <1>1, <1>3, DetachFine, PlugFine DEF Detach, Disconnect
<1>4. CASE Reconnect
  BY Zenon, <1>0, <1>1, <1>4, <1>a, PlugFine DEF Reconnect
<1>5. CASE Partition
  <2>1. PICK p \in Pairs(Vms) : \/ OnBridge(partition(net, p[1], p[2]))
                                \/ OnBridge(partition_directional(net, p[1], p[2]))
                                \/ OnBridge(partition_all(net))
    BY Zenon, <1>5 DEF Partition
  <2>2. QED
    BY Zenon, <2>1, <1>0, <1>1, PartitionFine
<1>6. CASE Heal
  <2>1. PICK p \in Pairs(Vms) : \/ OnBridge(unpartition(net, p[1], p[2]))
                                \/ OnBridge(unpartition_directional(net, p[1], p[2]))
                                \/ OnBridge(restore_all(net))
    BY Zenon, <1>6 DEF Heal
  <2>2. QED
    BY Zenon, <2>1, <1>0, <1>1, PartitionFine
<1>7. CASE Isolate
  BY Zenon, <1>0, <1>1, <1>7, IsolateFine DEF Isolate
<1>8. CASE Impair
  <2>1. CASE \E x \in Netems \cup {None} : OnBridge(add_latency(net, x))
    BY Zenon, <2>1, <1>0, <1>1, LatencyFine
  <2>2. CASE \E on \in BOOLEAN : OnBridge(bandwidth_limit(net, on))
    BY Zenon, <2>2, <1>0, <1>1, LimitFine
  <2>3. CASE \E p \in Pairs(Vms), on \in BOOLEAN : OnBridge(add_directional(net, p[1], p[2], on))
    <3>1. PICK p \in Pairs(Vms), on \in BOOLEAN : OnBridge(add_directional(net, p[1], p[2], on))
      BY <2>3
    <3>2. p \in Vms \X Vms
      BY DEF Pairs
    <3>3. QED
      BY Zenon, <3>1, <3>2, <1>0, <1>1, SlowFine
  <2>4. QED
    BY Zenon, <1>8, <2>1, <2>2, <2>3 DEF Impair
<1>9. CASE Uplink
  BY Zenon, <1>0, <1>1, <1>9, UplinkFine DEF Uplink
<1>10. CASE Reset
  BY Zenon, <1>0, <1>1, <1>10, ResetFine DEF Reset
<1>11. CASE Close
  BY Zenon, <1>0, <1>1, <1>11, UnrealizeFine DEF Close
<1>12. QED
  BY Zenon, <1>2, <1>3, <1>4, <1>5, <1>6, <1>7, <1>8, <1>9, <1>10, <1>11


\* boot, and the end of it
LEMMA BootKeeps ==
    ASSUME LInv, Boot \/ BootReturns
    PROVE  LInv'
<1>1. UNCHANGED <<net, saved, stray>> /\ phase' \in {"boot", "idle"} /\ Jobs /\ Launches
  BY Zenon DEF Boot, BootReturns, LInv
<1>2. Sealed(net)' /\ SavedIsSound' /\ Wired' /\ RestoreSeals'
  BY <1>1 DEF LInv, SavedIsSound, Wired, RestoreSeals
<1>3. ASSUME ~stray PROVE Launching = {}
  <2>1. CASE Boot
    BY Zenon, <1>1, <1>3, <2>1 DEF Boot, Launches
  <2>2. CASE BootReturns
    BY <1>1, <1>3, <2>2 DEF BootReturns, Launches, Threads
  <2>3. QED
    BY <2>1, <2>2
<1>4. ASSUME ~stray PROVE Realising' = {} /\ ~\E v \in Vms : job'[v].pc = "tap"
  <2>1. CASE Boot
    BY <1>3, <1>4, <2>1 DEF Boot, Realising, NewJob, NoJob
  <2>2. CASE BootReturns
    BY Zenon, <1>3, <1>4, <2>2 DEF BootReturns, Realising, NoJob
  <2>3. QED
    BY <2>1, <2>2
<1>5. ASSUME ~stray' PROVE Accounts'
  <2>1. Accounted(net)'
    BY <1>1, <1>3, <1>5, QuietAccounts DEF LInv
  <2>2. QED
    BY Zenon, <1>1, <1>4, <1>5, <2>1 DEF Accounts, Accounted, Booked
<1>6. Jobs' /\ Launches'
  <2>1. CASE Boot
    <3>1. PICK vs \in SUBSET Vms :
            job' = [v \in Vms |-> CASE v \in vs -> NewJob(v, "boot", v \in nics)
                                    [] v \in Launching -> job[v]
                                    [] OTHER -> NoJob]
      BY <2>1 DEF Boot
    <3>2. ASSUME NEW v \in Vms
          PROVE  \/ v \in vs /\ job'[v] = NewJob(v, "boot", v \in nics)
                 \/ v \in Launching /\ job'[v] = job[v]
                 \/ job'[v] = NoJob
      BY <3>1
    <3>3. \A v \in Vms : IsJob(NewJob(v, "boot", v \in nics)) /\ NewJob(v, "boot", v \in nics).how = "boot"
      BY DEF IsJob, NewJob, JobFields
    <3>4. IsJob(NoJob) /\ NoJob.pc = "none"
      BY DEF IsJob, NoJob
    <3>5. DOMAIN job' = Vms
      BY Zenon, <3>1
    <3>6. Jobs'
      BY Zenon, <1>1, <3>2, <3>3, <3>4, <3>5 DEF Jobs
    <3>7. \A v \in Launching' : (v \in Launching /\ job'[v] = job[v]) \/ job'[v].how = "boot"
      BY <3>2, <3>3, <3>4 DEF Launching
    <3>8. phase' = "boot" /\ phase = "idle" /\ stray' = stray
      BY Zenon, <2>1 DEF Boot
    <3>9. QED
      BY <1>1, <1>3, <3>6, <3>7, <3>8 DEF Launches
  <2>2. CASE BootReturns
    <3>1. job' = [v \in Vms |-> IF v \in Launching THEN job[v] ELSE NoJob]
      BY <2>2 DEF BootReturns
    <3>2. IsJob(NoJob) /\ NoJob.pc = "none"
      BY DEF IsJob, NoJob
    <3>3. Jobs'
      BY Zenon, <1>1, <3>1, <3>2 DEF Jobs
    <3>4. \A v \in Launching' : v \in Launching /\ job'[v] = job[v]
      BY Zenon, <3>1, <3>2 DEF Launching
    <3>5. phase = "boot" /\ phase' = "idle" /\ stray' = stray /\ Threads("boot") = {}
      BY <2>2 DEF BootReturns
    <3>6. \A v \in Launching : job[v].how # "boot"
      BY <3>5 DEF Threads
    <3>7. QED
      BY <1>1, <1>3, <3>3, <3>4, <3>5, <3>6 DEF Launches
  <2>3. QED
    BY Zenon, <2>1, <2>2
<1>7. QED
  BY <1>2, <1>5, <1>6 DEF LInv

\* What a snapshot records of a sound bridge is sound.
LEMMA SnapshotKeeps ==
    ASSUME LInv, LabSnapshot
    PROVE  LInv'
<1>1. UNCHANGED <<net, job, phase, stray>> /\ phase = "idle"
  BY Zenon DEF LabSnapshot, launchVars
<1>2. saved' = saved \/ \E lab \in SUBSET Vms : saved' = [vms |-> lab, bridge |-> Captured(net)]
  BY Zenon DEF LabSnapshot
<1>3. SavedIsSound'
  <2>1. CASE saved' = saved
    BY <2>1 DEF LInv, SavedIsSound
  <2>2. ASSUME NEW lab \in SUBSET Vms, saved' = [vms |-> lab, bridge |-> Captured(net)]
        PROVE  SavedIsSound'
    <3>1. saved'.vms = lab /\ saved'.bridge = Captured(net)
      BY <2>2
    <3>2. /\ Captured(net).members = net.members /\ Captured(net).oneway = net.oneway
          /\ Captured(net).slow = net.slow
      BY Zenon DEF Captured, NewBridge
    <3>3. QED
      BY <3>1, <3>2 DEF SavedIsSound, LInv, Sealed, Plain, Base
  <2>3. QED
    BY <1>2, <2>1, <2>2
<1>4. Sealed(net)' /\ Jobs' /\ Launches'
  BY <1>1 DEF LInv, Jobs, Launches, Launching
<1>5. Wired' /\ RestoreSeals'
  BY Zenon, <1>1 DEF Wired, RestoreSeals
<1>6. ASSUME ~stray' PROVE Accounts'
  BY <1>1, <1>6 DEF LInv, Accounts, Realising
<1>7. QED
  BY Zenon, <1>3, <1>4, <1>5, <1>6 DEF LInv

\* The start of a restore: the snapshot's members, and a launch for each VM
LEMMA RestoreKeeps ==
    ASSUME LInv, LabRestore
    PROVE  LInv'
<1>1. /\ phase = "idle" /\ phase' = "restore" /\ UNCHANGED <<saved, stray>>
      /\ net' = [net EXCEPT !.members = @ \cup saved.bridge.members]
      /\ job' = [v \in Vms |-> IF v \in saved.vms
                    THEN NewJob(v, "restore", v \in saved.bridge.members) ELSE NoJob]
  BY DEF LabRestore
<1>2. Fine(net, net')
  BY Zenon, <1>1, AttachFine DEF LInv, SavedIsSound
<1>3. ASSUME NEW v \in Vms
      PROVE  /\ IsJob(job'[v]) /\ job'[v].pc \in {"none", "realise", "reserve"}
             /\ v \in saved.vms \cap saved.bridge.members => job'[v].pc = "realise"
             /\ job'[v].pc # "none" => job'[v].how = "restore"
  BY <1>1 DEF IsJob, JobFields, NewJob, NoJob
<1>4. Jobs' /\ SavedIsSound'
  BY <1>1, <1>3 DEF Jobs, LInv, SavedIsSound
<1>5. Launches'
  BY <1>1, <1>3 DEF Launches, Launching
<1>6. Wired' /\ RestoreSeals'
  BY <1>1, <1>3 DEF Wired, RestoreSeals, LInv, SavedIsSound
<1>7. ASSUME ~stray' PROVE Accounts'
  <2>1. Launching = {} /\ ~stray /\ Jobs
    BY <1>1, <1>7 DEF LInv, Launches
  <2>2. Accounted(net)'
    BY Zenon, <1>2, <2>1, QuietAccounts DEF LInv, Fine
  <2>3. Realising' = {} /\ ~\E v \in Vms : job'[v].pc = "tap"
    BY Zenon, <1>3 DEF Realising
  <2>4. QED
    BY <2>2, <2>3 DEF Accounts, Accounted, Booked
<1>8. QED
  BY <1>2, <1>4, <1>5, <1>6, <1>7 DEF LInv, Fine

\* The graph is re-applied once every VM is up, and every member has its TAP.
LEMMA ReapplyKeeps ==
    ASSUME LInv, Reapply
    PROVE  LInv'
<1>1. /\ phase = "restore" /\ phase' = "resume" /\ UNCHANGED <<job, saved, stray>>
      /\ Launching = {} /\ (\A v \in Vms : job[v].pc # "failed")
      /\ net' = Impaired(RealiseMembers(net), saved.bridge)
  BY DEF Reapply, launchVars, At
<1>2. PICK m : m = RealiseMembers(net)
  OBVIOUS
<1>3. PICK b : b = saved.bridge
  BY Zenon
<1>4. Fine(net, m) /\ net.rtaps \subseteq m.rtaps /\ Sealed(m)
  BY Zenon, <1>2, MembersFine DEF LInv, SavedIsSound, Fine
<1>5. b.oneway \subseteq Vms \X Vms /\ b.slow \subseteq Vms \X Vms /\ net' = Impaired(m, b)
  BY Zenon, <1>1, <1>2, <1>3 DEF LInv, SavedIsSound
<1>6. /\ Fine(m, net') /\ net'.rtaps = m.rtaps
      /\ \A p \in Pairs(net'.rtaps) : Cut(b, p[1], p[2]) => p \in net'.drops
  BY Zenon, <1>4, <1>5, ImpairedFine
<1>7. Fine(net, net') /\ net.rtaps \subseteq net'.rtaps
  BY Zenon, <1>4, <1>6 DEF Fine
<1>8. saved.vms \cap saved.bridge.members \subseteq net'.rtaps
  <2>1. \A v \in Vms : job[v].pc = "none"
    BY Zenon, <1>1 DEF Launching
  <2>2. QED
    BY Zenon, <1>1, <1>7, <2>1 DEF LInv, SavedIsSound, Wired
<1>9. RestoreSeals'
  BY Zenon, <1>1, <1>3, <1>6, <1>8 DEF RestoreSeals, Pairs
<1>10. SavedIsSound' /\ Jobs' /\ Launches' /\ Wired'
  BY Zenon, <1>1 DEF LInv, SavedIsSound, Jobs, Launches, Launching, Wired
<1>11. ASSUME ~stray' PROVE Accounts'
  <2>1. Accounted(net)'
    BY <1>1, <1>7, <1>11, QuietAccounts DEF LInv, Fine
  <2>2. Realising' = {} /\ ~\E v \in Vms : job'[v].pc = "tap"
    BY <1>1 DEF Realising, Launching
  <2>3. QED
    BY <2>1, <2>2 DEF Accounts, Accounted, Booked
<1>12. QED
  BY <1>7, <1>9, <1>10, <1>11 DEF LInv, Fine

\* A restore that fails, and one that has re-applied the graph
LEMMA RestoreEnds ==
    ASSUME LInv, RestoreFails \/ Resume \/ RestoreReturns
    PROVE  LInv'
<1>1. UNCHANGED <<net, saved>> /\ phase' \in {"idle", "refused"} /\ Jobs /\ Launches
  BY Zenon DEF RestoreFails, Resume, RestoreReturns, LInv
<1>2. Sealed(net)' /\ SavedIsSound' /\ Wired' /\ RestoreSeals'
  BY <1>1 DEF LInv, SavedIsSound, Wired, RestoreSeals
<1>3. CASE RestoreFails
  <2>1. /\ job' = [v \in Vms |-> IF v \in Launching THEN job[v] ELSE NoJob]
        /\ phase = "restore" /\ phase' = "idle" /\ stray' = (stray \/ Launching # {})
    BY <1>3 DEF RestoreFails
  <2>2. IsJob(NoJob) /\ NoJob.pc = "none"
    BY DEF IsJob, NoJob
  <2>3. Jobs'
    BY Zenon, <1>1, <2>1, <2>2 DEF Jobs
  <2>4. \A v \in Launching' : v \in Launching /\ job'[v] = job[v]
    BY Zenon, <2>1, <2>2 DEF Launching
  <2>5. Launches'
    BY Zenon, <1>1, <2>1, <2>4 DEF Launches
  <2>6. ASSUME ~stray' PROVE Accounts'
    <3>1. ~stray /\ Launching = {}
      BY Zenon, <2>1, <2>6
    <3>2. Accounted(net)'
      BY <1>1, <3>1, QuietAccounts DEF LInv
    <3>3. Realising' = {} /\ ~\E v \in Vms : job'[v].pc = "tap"
      BY <2>1, <2>2, <3>1 DEF Realising
    <3>4. QED
      BY <3>2, <3>3 DEF Accounts, Accounted, Booked
  <2>7. QED
    BY <1>2, <2>3, <2>5, <2>6 DEF LInv
<1>4. CASE Resume \/ RestoreReturns
  <2>1. phase \in {"resume", "refused"} /\ UNCHANGED <<job, stray>>
    BY Zenon, <1>4 DEF Resume, RestoreReturns, launchVars
  <2>2. Jobs' /\ Launches'
    BY Zenon, <1>1, <2>1 DEF Jobs, Launches, Launching
  <2>3. ASSUME ~stray' PROVE Accounts'
    BY <1>1, <2>1, <2>3 DEF LInv, Accounts, Realising
  <2>4. QED
    BY <1>2, <2>2, <2>3 DEF LInv
<1>5. QED
  BY Zenon, <1>3, <1>4

\* LInv is inductive.
LEMMA LInvStarts ==
    ASSUME Init
    PROVE  LInv
<1>1. /\ DOMAIN NewBridge = Fields /\ NewBridge.up = FALSE /\ NewBridge.rtaps = {}
      /\ NewBridge.members = {} /\ NewBridge.slow = {} /\ NewBridge.oneway = {}
      /\ NewBridge.drops = {}
  BY Zenon DEF NewBridge, Fields
<1>2. /\ NewBridge.taps = {} /\ NewBridge.nat = FALSE /\ NewBridge.rnat = FALSE
      /\ NewBridge.shaped = {} /\ NewBridge.link = FALSE /\ NewBridge.rnetem = None
      /\ NewBridge.root = None
  BY Zenon DEF NewBridge
<1>3. Sealed(NewBridge)
  BY Zenon, <1>1 DEF Sealed, Plain, Base, Exact, Pairs
<1>4. PICK n : n = NewBridge
  OBVIOUS
<1>5. Accounted(n)
  BY Zenon, <1>1, <1>2, <1>4 DEF Accounted, Booked
<1>6. net = [n EXCEPT !.members = Vms]
  BY <1>4 DEF Init
<1>7. Same(n, net, {"members"}) /\ net.members = Vms
  BY Zenon, <1>1, <1>4, <1>6 DEF Same, Fields
<1>8. net.slow = {} /\ net.root = n.root /\ net.rnetem = n.rnetem
  BY Zenon, <1>1, <1>4, <1>7 DEF Same, Fields
<1>9. Same(n, net, {"members", "slow", "netem", "capped", "uplink", "root", "rnetem", "plugged"})
  BY Zenon, <1>7 DEF Same
<1>10. Fine(n, net)
  BY <1>3, <1>4, <1>7, <1>8, <1>9, SettingFine
<1>11. SavedIsSound /\ Jobs
  BY <1>1 DEF Init, NoSave, SavedIsSound, Jobs, IsJob, NoJob
<1>12. Launching = {} /\ phase = "idle"
  BY Zenon DEF Init, Launching, NoJob
<1>13. Launches /\ Wired /\ RestoreSeals
  BY <1>12 DEF Launches, Wired, RestoreSeals
<1>14. Accounts
  BY <1>5, <1>10, <1>11, <1>12, QuietAccounts DEF Fine
<1>15. QED
  BY Zenon, <1>10, <1>11, <1>13, <1>14 DEF LInv, Fine

\* Every step keeps it.
LEMMA LInvSteps == LInv /\ [Next]_vars => LInv'
<1>1. SUFFICES ASSUME LInv, [Next]_vars PROVE LInv'
  OBVIOUS
<1>2. CASE Shutdown \/ Rivals \/ UNCHANGED vars
  <2>1. UNCHANGED <<net, job, phase, saved, stray>>
    BY <1>2 DEF Shutdown, Rivals, vars, labVars
  <2>2. QED
    BY Zenon, <1>1, <2>1, ElsewhereKeeps
<1>3. QED
  BY Zenon, <1>1, <1>2, LaunchKeeps, CallsKeep, BootKeeps, SnapshotKeeps, RestoreKeeps, ReapplyKeeps, RestoreEnds
     DEF Next

\* The inductive invariant holds for any VMs, any CIDs and any settings.
THEOREM LInvHolds == Spec => []LInv
BY LInvStarts, LInvSteps, PTL DEF Spec

\* The host drops exactly what the graph cuts, between TAPs that were up at the
\* last refresh, and nothing else: Bridge::refresh_partitions after every change.
THEOREM CutsStayExact == Spec => []CutsAreExact
<1>1. LInv => CutsAreExact
  BY DEF LInv, Sealed, Exact, CutsAreExact
<1>2. QED
  BY <1>1, LInvHolds, PTL

\* With no launch under way the host has what the bridge remembers: launches that
\* raced each other through realize_for_vm, or failed in it, leave nothing behind.
THEOREM HostStaysAccounted == Spec => []HostIsAccounted
<1>1. ASSUME LInv PROVE HostIsAccounted
  <2>1. SUFFICES ASSUME Launching = {}, ~stray
                 PROVE  /\ net.taps = net.rtaps /\ net.link = net.up /\ net.nat = net.rnat
                        /\ ~net.up => net.root = None /\ net.drops = {} /\ net.shaped = {}
    BY DEF HostIsAccounted
  <2>2. Accounted(net) /\ Plain(net)
    BY <1>1, <2>1, QuietAccounts DEF LInv, Sealed
  <2>3. QED
    BY Zenon, <2>2 DEF Accounted, Booked, Plain, Base
<1>2. QED
  BY <1>1, LInvHolds, PTL

\* lab_restore resumes no VM before the host keeps apart what the snapshot did.
THEOREM RestoreAlwaysSeals == Spec => []RestoreSeals
<1>1. LInv => RestoreSeals
  BY Zenon DEF LInv
<1>2. QED
  BY <1>1, LInvHolds, PTL


\* A VM that is being launched is not up, whoever launches it
Pending ==
    \A v \in Launching :
        /\ job[v].how = "boot" => state[v] = "created"
        /\ job[v].how = "restore" => state[v] = "absent" /\ v \in saved.vms

\* A process has the CID its launch reserved, or belongs to a VM that is up
Processes ==
    \A v \in Vms :
        /\ qemu[v] # 0 => \/ job[v].pc = "await" /\ job[v].cid = qemu[v]
                          \/ job[v].pc = "none" /\ state[v] \in {"booted", "paused"}
        /\ job[v].pc = "await" => job[v].cid # 0

\* A CID in use has its directory, and nobody else has either
Reserved ==
    \A v \in Vms : Cid(v) # 0 =>
        Cid(v) \in dirs \ rival /\ \A w \in Vms \ {v} : Cid(w) # Cid(v)

Owned ==
    /\ next \in Nat \ {0} /\ DOMAIN qemu = Vms /\ DOMAIN state = Vms
    /\ rival \subseteq dirs /\ 0 \notin rival
    /\ Pending /\ Processes /\ Reserved

\* A step that is about none of it
LEMMA ElsewhereOwned ==
    ASSUME Owned, UNCHANGED <<state, job, qemu, next, dirs, rival, saved>>
    PROVE  Owned'
<1>1. Pending'
  BY Zenon DEF Owned, Pending, Launching
<1>2. Processes' /\ Reserved'
  BY Zenon DEF Owned, Processes, Reserved, Cid
<1>3. QED
  BY Zenon, <1>1, <1>2 DEF Owned

\* Launches begin for VMs that are not up, and ended ones are forgotten.
LEMMA FreshOwned ==
    ASSUME Owned, UNCHANGED <<state, qemu, next, dirs, rival, saved>>,
           \A v \in Vms : \/ job'[v] = job[v]
                          \/ /\ v \notin Launching
                             /\ \/ job'[v] = NoJob
                                \/ /\ job'[v].pc \in {"realise", "reserve"} /\ job'[v].how = "boot"
                                   /\ state[v] = "created"
                                \/ /\ job'[v].pc \in {"realise", "reserve"} /\ job'[v].how = "restore"
                                   /\ state[v] = "absent" /\ v \in saved.vms
    PROVE  Owned'
<1>0. NoJob.pc = "none"
  BY Zenon DEF NoJob
<1>1. Pending'
  BY <1>0 DEF Owned, Pending, Launching
<1>2. ASSUME NEW v \in Vms
      PROVE  /\ qemu'[v] # 0 => \/ job'[v].pc = "await" /\ job'[v].cid = qemu'[v]
                                \/ job'[v].pc = "none" /\ state'[v] \in {"booted", "paused"}
             /\ job'[v].pc = "await" => job'[v].cid # 0
  BY Zenon, <1>0, <1>2 DEF Owned, Processes, Launching
<1>3. ASSUME NEW v \in Vms PROVE Cid(v)' = Cid(v)
  BY Zenon, <1>0, <1>3 DEF Cid, Launching
<1>4. Reserved'
  BY Zenon, <1>3 DEF Owned, Reserved
<1>5. QED
  BY Zenon, <1>1, <1>2, <1>4 DEF Owned, Processes

\* A launch that holds nothing goes on, or fails.
LEMMA WaitingOwned ==
    ASSUME Owned, Jobs, UNCHANGED <<state, qemu, next, dirs, rival, saved>>,
           NEW v \in Vms, v \in Launching, job[v].pc # "await", NEW j,
           job' = [job EXCEPT ![v] = j], j.pc \notin {"none", "await"},
           j.pc # "failed" => j.how = job[v].how
    PROVE  Owned'
<1>1. job'[v] = j /\ (\A w \in Vms \ {v} : job'[w] = job[w])
  BY Zenon DEF Jobs
<1>2. qemu[v] = 0
  BY Zenon DEF Owned, Processes, Launching
<1>3. Pending'
  BY <1>1 DEF Owned, Pending, Launching
<1>4. Processes'
  BY <1>1, <1>2 DEF Owned, Processes
<1>5. ASSUME NEW w \in Vms PROVE Cid(w)' = Cid(w)
  BY <1>1, <1>5 DEF Cid
<1>6. Reserved'
  BY Zenon, <1>5 DEF Owned, Reserved
<1>7. QED
  BY Zenon, <1>3, <1>4, <1>6 DEF Owned

\* A launch lets go of its process and its directory.
LEMMA KilledOwned ==
    ASSUME Owned, Jobs, NEW v \in Vms, job[v].pc = "await", KillAndClean(v), NEW j,
           job' = [job EXCEPT ![v] = j], j.pc \in {"reserve", "failed"},
           j.pc # "failed" => j.how = job[v].how
    PROVE  Owned'
<1>1. job'[v] = j /\ (\A w \in Vms \ {v} : job'[w] = job[w])
  BY Zenon DEF Jobs
<1>2. qemu'[v] = 0 /\ (\A w \in Vms \ {v} : qemu'[w] = qemu[w]) /\ DOMAIN qemu' = Vms
  BY DEF Owned, KillAndClean
<1>3. dirs' = dirs \ {job[v].cid} /\ UNCHANGED <<next, rival, state, saved>>
  BY Zenon DEF KillAndClean, labVars
<1>4. Cid(v) = job[v].cid /\ Cid(v) # 0
  BY Zenon DEF Owned, Processes, Cid
<1>5. Cid(v)' = 0 /\ \A w \in Vms \ {v} : Cid(w)' = Cid(w)
  BY <1>1, <1>2 DEF Cid
<1>6. Pending'
  BY <1>1, <1>3 DEF Owned, Pending, Launching
<1>7. Processes'
  BY Zenon, <1>1, <1>2, <1>3 DEF Owned, Processes
<1>8. Reserved'
  BY <1>3, <1>4, <1>5 DEF Owned, Reserved
<1>9. rival' \subseteq dirs'
  BY Zenon, <1>3, <1>4 DEF Owned, Reserved
<1>10. QED
  BY Zenon, <1>2, <1>3, <1>6, <1>7, <1>8, <1>9 DEF Owned

\* A launch reserves a CID that no directory of the host has.
LEMMA ReserveOwned ==
    ASSUME Owned, Jobs, NEW v \in Vms, Reserve(v)
    PROVE  Owned'
<1>1. PICK c : c = Min(FreeCids)
  OBVIOUS
<1>2. /\ job[v].pc = "reserve" /\ FreeCids # {} /\ next' = c + 1 /\ dirs' = dirs \cup {c}
      /\ UNCHANGED <<rival, state, saved>>
  BY Zenon, <1>1 DEF Reserve, At, labVars
<1>3. \/ job' = [job EXCEPT ![v] = [pc |-> "failed"]] /\ UNCHANGED qemu
      \/ /\ job' = [job EXCEPT ![v].pc = "await", ![v].cid = c]
         /\ qemu' = [qemu EXCEPT ![v] = c] \/ UNCHANGED qemu
  BY Zenon, <1>1 DEF Reserve, Fails
<1>4. c \in FreeCids
  <2>1. FreeCids \subseteq Nat
    BY HostAssumption DEF FreeCids, Cids
  <2>2. \E x \in FreeCids : \A y \in FreeCids : x <= y
    BY Zenon, <1>2, <2>1, LeastNat
  <2>3. QED
    BY Zenon, <1>1, <2>2 DEF Min
<1>5. c \in Nat \ {0} /\ c \notin dirs
  BY <1>4, HostAssumption DEF FreeCids, Cids
<1>6. qemu[v] = 0 /\ Cid(v) = 0 /\ c \notin rival
  BY <1>2, <1>5 DEF Owned, Processes, Cid
<1>7. DOMAIN job[v] = JobFields
  BY <1>2 DEF Jobs, IsJob
<1>8. /\ (\A w \in Vms \ {v} : job'[w] = job[w] /\ qemu'[w] = qemu[w]) /\ DOMAIN qemu' = Vms
      /\ \/ job'[v].pc = "failed" /\ qemu'[v] = 0
         \/ /\ job'[v].pc = "await" /\ job'[v].cid = c /\ job'[v].how = job[v].how
            /\ qemu'[v] \in {0, c}
  <2>1. CASE job' = [job EXCEPT ![v] = [pc |-> "failed"]] /\ UNCHANGED qemu
    BY Zenon, <1>6, <2>1 DEF Jobs, Owned
  <2>2. CASE /\ job' = [job EXCEPT ![v].pc = "await", ![v].cid = c]
             /\ qemu' = [qemu EXCEPT ![v] = c] \/ UNCHANGED qemu
    <3>1. job'[v] = [job[v] EXCEPT !.pc = "await", !.cid = c]
      BY <2>2 DEF Jobs
    <3>2. job'[v].pc = "await" /\ job'[v].cid = c /\ job'[v].how = job[v].how
      BY <1>7, <3>1 DEF JobFields
    <3>3. \A w \in Vms \ {v} : job'[w] = job[w]
      BY <2>2 DEF Jobs
    <3>4. (\A w \in Vms \ {v} : qemu'[w] = qemu[w]) /\ DOMAIN qemu' = Vms /\ qemu'[v] \in {0, c}
      BY Zenon, <1>6, <2>2 DEF Owned
    <3>5. QED
      BY <3>2, <3>3, <3>4
  <2>3. QED
    BY Zenon, <1>3, <2>1, <2>2
<1>9. Pending'
  BY Zenon, <1>2, <1>8 DEF Owned, Pending, Launching
<1>10. Processes'
  BY Zenon, <1>2, <1>5, <1>8 DEF Owned, Processes
<1>11. Cid(v)' \in {0, c} /\ \A w \in Vms \ {v} : Cid(w)' = Cid(w)
  BY Zenon, <1>8 DEF Cid
<1>12. Reserved'
  BY <1>2, <1>5, <1>6, <1>11 DEF Owned, Reserved
<1>13. next' \in Nat \ {0} /\ rival' \subseteq dirs'
  BY <1>2, <1>5 DEF Owned
<1>14. QED
  BY Zenon, <1>2, <1>8, <1>9, <1>10, <1>12, <1>13 DEF Owned


\* The agent answers: the process becomes the VM's.
LEMMA AnswerOwned ==
    ASSUME Owned, Jobs, NEW v \in Vms, AgentAnswers(v)
    PROVE  Owned'
<1>1. /\ job[v].pc = "await" /\ qemu[v] # 0 /\ UNCHANGED <<qemu, next, dirs, rival, saved>>
      /\ job' = [job EXCEPT ![v] = NoJob] /\ state' = [state EXCEPT ![v] = "booted"]
  BY Zenon DEF AgentAnswers, At, hostVars
<1>2. job'[v].pc = "none" /\ (\A w \in Vms \ {v} : job'[w] = job[w])
  BY Zenon, <1>1 DEF Jobs, NoJob
<1>3. state'[v] = "booted" /\ (\A w \in Vms \ {v} : state'[w] = state[w]) /\ DOMAIN state' = Vms
  BY Zenon, <1>1 DEF Owned
<1>4. Pending'
  BY <1>1, <1>2, <1>3 DEF Owned, Pending, Launching
<1>5. Processes'
  BY <1>1, <1>2, <1>3 DEF Owned, Processes
<1>6. ASSUME NEW w \in Vms PROVE Cid(w)' = Cid(w)
  BY <1>1, <1>2, <1>6 DEF Cid
<1>7. Reserved'
  BY <1>1, <1>6 DEF Owned, Reserved
<1>8. QED
  BY Zenon, <1>1, <1>3, <1>4, <1>5, <1>7 DEF Owned

\* The steps of a launch
LEMMA LaunchOwned ==
    ASSUME Owned, Jobs, Launch
    PROVE  Owned'
<1>1. ASSUME NEW v \in Vms, RealiseLook(v) \/ RealiseNetem(v) \/ RealiseTap(v)
      PROVE  Owned'
  <2>1. /\ job[v].pc \in {"realise", "netem", "tap"}
        /\ UNCHANGED <<state, qemu, next, dirs, rival, saved>>
    BY <1>1 DEF RealiseLook, RealiseNetem, RealiseTap, At, hostVars, labVars
  <2>2. v \in Launching /\ DOMAIN job[v] = JobFields
    BY <2>1 DEF Launching, Jobs, IsJob
  <2>3. PICK seen, j : /\ job' = [job EXCEPT ![v] = j]
                       /\ \/ j = [job[v] EXCEPT !.pc = "netem", !.seen = seen]
                          \/ j = [job[v] EXCEPT !.pc = "tap"]
                          \/ j = [job[v] EXCEPT !.pc = "reserve", !.seen = None]
                          \/ j = [pc |-> "failed"]
    <3>1. CASE RealiseLook(v)
      BY Zenon, <3>1 DEF RealiseLook
    <3>2. CASE RealiseNetem(v)
      BY Zenon, <3>2 DEF RealiseNetem, Goes, Fails
    <3>3. CASE RealiseTap(v)
      <4>1. \/ job' = [job EXCEPT ![v] = [pc |-> "failed"]]
            \/ job' = [job EXCEPT ![v].pc = "reserve", ![v].seen = None]
        BY <3>3 DEF RealiseTap, Fails
      <4>2. PICK k : k = [job[v] EXCEPT !.pc = "reserve", !.seen = None]
        OBVIOUS
      <4>3. job' = [job EXCEPT ![v] = [pc |-> "failed"]] \/ job' = [job EXCEPT ![v] = k]
        BY Zenon, <4>1, <4>2
      <4>4. QED
        BY Zenon, <4>2, <4>3
    <3>4. QED
      BY <1>1, <3>1, <3>2, <3>3
  <2>4. j.pc \notin {"none", "await"} /\ (j.pc # "failed" => j.how = job[v].how)
    <3>1. CASE j = [job[v] EXCEPT !.pc = "netem", !.seen = seen]
      BY <2>2, <3>1 DEF JobFields
    <3>2. CASE j = [job[v] EXCEPT !.pc = "tap"]
      BY <2>2, <3>2 DEF JobFields
    <3>3. CASE j = [job[v] EXCEPT !.pc = "reserve", !.seen = None]
      BY Zenon, <2>2, <3>3 DEF JobFields
    <3>4. CASE j = [pc |-> "failed"]
      BY Zenon, <3>4
    <3>5. QED
      BY <2>3, <3>1, <3>2, <3>3, <3>4
  <2>5. job[v].pc # "await"
    BY <2>1
  <2>6. QED
    BY Zenon, <2>1, <2>2, <2>3, <2>4, <2>5, WaitingOwned
<1>2. ASSUME NEW v \in Vms,
             ConnectFails(v) \/ ConnectRetries(v) \/ IncomingFails(v) \/ AgentMissing(v)
      PROVE  Owned'
  <2>1. job[v].pc = "await" /\ KillAndClean(v)
    BY <1>2 DEF ConnectFails, ConnectRetries, IncomingFails, AgentMissing, At
  <2>2. DOMAIN job[v] = JobFields
    BY <2>1 DEF Jobs, IsJob
  <2>3. PICK j : /\ job' = [job EXCEPT ![v] = j]
                 /\ \/ j = [job[v] EXCEPT !.pc = "reserve", !.cid = 0, !.tries = @ + 1]
                    \/ j = [pc |-> "failed"]
    <3>1. CASE ConnectRetries(v)
      BY Zenon, <3>1 DEF ConnectRetries
    <3>2. CASE ConnectFails(v) \/ IncomingFails(v) \/ AgentMissing(v)
      BY Zenon, <3>2 DEF ConnectFails, IncomingFails, AgentMissing, Fails
    <3>3. QED
      BY <1>2, <3>1, <3>2
  <2>4. j.pc \in {"reserve", "failed"} /\ (j.pc # "failed" => j.how = job[v].how)
    <3>1. CASE j = [job[v] EXCEPT !.pc = "reserve", !.cid = 0, !.tries = @ + 1]
      BY Zenon, <2>2, <3>1 DEF JobFields
    <3>2. CASE j = [pc |-> "failed"]
      BY Zenon, <3>2
    <3>3. QED
      BY <2>3, <3>1, <3>2
  <2>5. QED
    BY Zenon, <2>1, <2>3, <2>4, KilledOwned
<1>3. QED
  BY Zenon, <1>1, <1>2, ReserveOwned, AnswerOwned DEF Launch

\* Other provium processes
LEMMA RivalsOwned ==
    ASSUME Owned, Rivals
    PROVE  Owned'
<1>1. UNCHANGED <<job, qemu, next, state, saved>>
  BY DEF Rivals, labVars
<1>2. \/ \E c \in {next, next + 1} \ dirs : rival' = rival \cup {c} /\ dirs' = dirs \cup {c}
      \/ \E c \in rival : rival' = rival \ {c} /\ dirs' = dirs \ {c}
  BY Zenon DEF Rivals
<1>3. Pending' /\ Processes'
  BY <1>1 DEF Owned, Pending, Processes, Launching
<1>4. \A v \in Vms : Cid(v)' = Cid(v)
  BY <1>1 DEF Cid
<1>5. rival' \subseteq dirs' /\ 0 \notin rival'
  BY <1>2 DEF Owned
<1>6. \A c \in dirs \ rival : c \in dirs' \ rival'
  BY Zenon, <1>2
<1>7. Reserved'
  BY Zenon, <1>4, <1>6 DEF Owned, Reserved
<1>8. QED
  BY <1>1, <1>3, <1>5, <1>7 DEF Owned

\* A VM is shut down: its process and its directory go.
LEMMA ShutdownOwned ==
    ASSUME Owned, Jobs, Shutdown
    PROVE  Owned'
<1>1. PICK v \in Vms :
        /\ state[v] \in {"booted", "paused"} /\ state' = [state EXCEPT ![v] = "absent"]
        /\ dirs' = dirs \ {qemu[v]} /\ qemu' = [qemu EXCEPT ![v] = 0]
        /\ UNCHANGED <<job, next, rival, saved>>
  BY Zenon DEF Shutdown
<1>2. v \notin Launching
  BY <1>1 DEF Owned, Pending, Launching, Jobs, IsJob
<1>3. state'[v] = "absent" /\ (\A w \in Vms \ {v} : state'[w] = state[w]) /\ DOMAIN state' = Vms
  BY <1>1 DEF Owned
<1>4. qemu'[v] = 0 /\ (\A w \in Vms \ {v} : qemu'[w] = qemu[w]) /\ DOMAIN qemu' = Vms
  BY <1>1 DEF Owned
<1>5. Pending'
  BY Zenon, <1>1, <1>2, <1>3 DEF Owned, Pending, Launching
<1>6. Processes'
  BY Zenon, <1>1, <1>3, <1>4 DEF Owned, Processes
<1>7. Cid(v) = qemu[v] /\ Cid(v)' = 0 /\ \A w \in Vms \ {v} : Cid(w)' = Cid(w)
  BY Zenon, <1>1, <1>2, <1>4 DEF Cid, Launching
<1>8. Reserved'
  BY Zenon, <1>1, <1>7 DEF Owned, Reserved
<1>9. rival' \subseteq dirs'
  BY <1>1, <1>7 DEF Owned, Reserved
<1>10. QED
  BY Zenon, <1>1, <1>3, <1>4, <1>5, <1>6, <1>8, <1>9 DEF Owned

\* A snapshot pauses and resumes the VMs that are up.
LEMMA SnapshotOwned ==
    ASSUME Owned, Jobs, LabSnapshot
    PROVE  Owned'
<1>1. /\ UNCHANGED <<job, qemu, next, dirs, rival>> /\ saved.vms = {}
  BY Zenon DEF LabSnapshot, launchVars, NoSave
<1> DEFINE lab == {v \in Vms : state[v] # "absent"}
           live == {v \in lab : state[v] \in {"booted", "paused"}}
<1>2. PICK broken \in SUBSET live :
        state' = [v \in Vms |-> IF v \in broken THEN "paused"
                                ELSE IF v \in live THEN "booted" ELSE state[v]]
  BY DEF LabSnapshot
<1>3. /\ DOMAIN state' = Vms
      /\ \A v \in Vms : state'[v] = state[v] \/ {state[v], state'[v]} \subseteq {"booted", "paused"}
  BY Zenon, <1>2
<1>4. Pending'
  BY Zenon, <1>1, <1>3 DEF Owned, Pending, Launching
<1>5. Processes'
  BY Zenon, <1>1, <1>3 DEF Owned, Processes
<1>6. Reserved'
  BY Zenon, <1>1 DEF Owned, Reserved, Cid
<1>7. QED
  BY Zenon, <1>1, <1>3, <1>4, <1>5, <1>6 DEF Owned

\* The starts and the ends of boot and restore
LEMMA PhasesOwned ==
    ASSUME Owned, Jobs, Launches, Boot \/ BootReturns \/ LabRestore \/ RestoreFails
    PROVE  Owned'
<1>1. UNCHANGED <<state, qemu, next, dirs, rival, saved>>
  BY DEF Boot, BootReturns, LabRestore, RestoreFails, hostVars
<1>2. CASE Boot
  <2>1. PICK vs \in SUBSET {v \in Vms : state[v] = "created"} :
          job' = [v \in Vms |-> CASE v \in vs -> NewJob(v, "boot", v \in nics)
                                  [] v \in Launching -> job[v]
                                  [] OTHER -> NoJob]
    BY <1>2 DEF Boot
  <2>2. \A v \in vs : v \notin Launching
    BY <1>2 DEF Boot, Owned, Pending, Launches, Jobs, IsJob, Launching
  <2>3. ASSUME NEW v \in Vms
        PROVE  \/ job'[v] = job[v]
               \/ v \notin Launching /\ job'[v] = NoJob
               \/ v \in vs /\ job'[v] = NewJob(v, "boot", v \in nics)
    BY <2>1
  <2>4. \A v \in Vms : /\ NewJob(v, "boot", v \in nics).pc \in {"realise", "reserve"}
                       /\ NewJob(v, "boot", v \in nics).how = "boot"
    BY Zenon DEF NewJob
  <2>5. QED
    BY <1>1, <2>1, <2>2, <2>3, <2>4, FreshOwned
<1>3. CASE BootReturns \/ RestoreFails
  <2>1. \A v \in Vms : job'[v] = job[v] \/ (v \notin Launching /\ job'[v] = NoJob)
    BY Zenon, <1>3 DEF BootReturns, RestoreFails
  <2>2. QED
    BY Zenon, <1>1, <2>1, FreshOwned
<1>4. CASE LabRestore
  <2>1. /\ job' = [v \in Vms |-> IF v \in saved.vms
                      THEN NewJob(v, "restore", v \in saved.bridge.members) ELSE NoJob]
        /\ phase = "idle" /\ \A v \in saved.vms : state[v] = "absent" /\ v \notin Launching
    BY Zenon, <1>4 DEF LabRestore
  <2>2. \A v \in Vms : v \notin Launching
    BY Zenon, <2>1 DEF Owned, Pending, Launches, Jobs, IsJob, Launching
  <2>3. \A v \in Vms : \/ v \in saved.vms /\ job'[v] = NewJob(v, "restore", v \in saved.bridge.members)
                       \/ job'[v] = NoJob
    BY Zenon, <2>1
  <2>4. \A v \in Vms : /\ NewJob(v, "restore", v \in saved.bridge.members).pc \in {"realise", "reserve"}
                       /\ NewJob(v, "restore", v \in saved.bridge.members).how = "restore"
    BY DEF NewJob
  <2>5. QED
    BY Zenon, <1>1, <2>1, <2>2, <2>3, <2>4, FreshOwned
<1>5. QED
  BY <1>2, <1>3, <1>4

\* Owned is inductive, given LInv.
LEMMA OwnedStarts ==
    ASSUME Init
    PROVE  Owned
<1>1. \A v \in Vms : job[v].pc = "none" /\ qemu[v] = 0
  BY DEF Init, NoJob
<1>2. \A v \in Vms : Cid(v) = 0
  BY Zenon, <1>1 DEF Cid
<1>3. Pending /\ Processes /\ Reserved
  BY <1>1, <1>2 DEF Pending, Processes, Reserved, Launching
<1>4. QED
  BY <1>3 DEF Init, Owned

\* Every step keeps it.
LEMMA OwnedSteps == Owned /\ LInv /\ [Next]_vars => Owned'
<1>1. SUFFICES ASSUME Owned, LInv, [Next]_vars PROVE Owned'
  OBVIOUS
<1>2. Jobs /\ Launches
  BY <1>1 DEF LInv
<1>3. CASE \/ Attach \/ Detach \/ Disconnect \/ Reconnect \/ Partition \/ Heal
           \/ Isolate \/ Impair \/ Uplink \/ Reset \/ Close
  <2>1. UNCHANGED <<state, launchVars, saved>>
    BY Zenon, <1>3 DEF Attach, Detach, Disconnect, Reconnect, Partition, Heal, Isolate, Impair,
       Uplink, Reset, Close, OnBridge
  <2>2. QED
    BY <1>1, <2>1, ElsewhereOwned DEF launchVars
<1>4. CASE Reapply \/ Resume \/ RestoreReturns \/ UNCHANGED vars
  <2>1. UNCHANGED <<state, launchVars, saved>>
    BY <1>4 DEF Reapply, Resume, RestoreReturns, vars, launchVars
  <2>2. QED
    BY <1>1, <2>1, ElsewhereOwned DEF launchVars
<1>5. QED
  BY Zenon, <1>1, <1>2, <1>3, <1>4, LaunchOwned, RivalsOwned, ShutdownOwned, SnapshotOwned, PhasesOwned
     DEF Next

\* A QEMU process is a launch's or a VM's that is up, and its CID and scratch
\* directory are its own: LaunchIsOwned, on any number of VMs and CIDs.
THEOREM LaunchStaysOwned == Spec => []LaunchIsOwned
<1>1. Owned => LaunchIsOwned
  BY DEF Owned, Processes, Reserved, LaunchIsOwned
<1>2. QED
  BY <1>1, LInvHolds, OwnedStarts, OwnedSteps, PTL DEF Spec

=============================================================================
