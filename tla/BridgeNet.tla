----------------------------- MODULE BridgeNet -----------------------------
(***************************************************************************)
(* One `Bridge` of a lab (provium-host/src/bridge.rs): the graph a test    *)
(* declares, what the bridge remembers of having put on the host (its      *)
(* `realized*` fields), and the host itself: the bridge interface, its     *)
(* root qdisc, the TAPs, the nft drop rules and the NAT rule.  The three   *)
(* are kept in one record, and every operation of the bridge is a function *)
(* from the record to the record, because an operation runs through        *)
(* several of them (`reset` refreshes four things).                        *)
(*                                                                         *)
(* Fields.  Graph: members, isolated, cuts (unordered pairs), oneway       *)
(* (ordered pairs), all (`partition_all`), netem (latency and drop rate    *)
(* together), capped (a bandwidth limit), slow (directional impairments),  *)
(* uplink.  Remembered: up, rnetem, rtaps, rslow, rnat.  Host: link (the   *)
(* bridge interface), root (its root qdisc), taps, plugged, shaped (TAPs   *)
(* with a qdisc of their own), drops (ordered pairs), nat.  `late` is a    *)
(* history field: the VMs whose TAP came up after the last nft refresh.    *)
(***************************************************************************)
EXTENDS FiniteSetsExt

CONSTANTS
  Vms,      \* the VMs of the lab
  Netems    \* whole-bridge latency and drop settings, other than no setting

None == "none"
Tbf == "tbf"

NewBridge ==
  [members |-> {}, isolated |-> {}, cuts |-> {}, oneway |-> {}, all |-> FALSE,
   netem |-> None, capped |-> FALSE, slow |-> {}, uplink |-> FALSE,
   up |-> FALSE, rnetem |-> None, rtaps |-> {}, rslow |-> {}, rnat |-> FALSE,
   link |-> FALSE, root |-> None, taps |-> {}, plugged |-> {}, shaped |-> {},
   drops |-> {}, nat |-> FALSE, late |-> {}]

Pairs(S) == {p \in S \X S : p[1] # p[2]}

(* What the graph says of traffic from a to b. *)
Cut(n, a, b) ==
  n.all \/ {a, b} \in n.cuts \/ <<a, b>> \in n.oneway
        \/ a \in n.isolated \/ b \in n.isolated

(***************************************************************************)
(* Pushing the graph to the host of a bridge that is up.                   *)
(***************************************************************************)
(* Pair rules are written for the names whether or not the TAPs exist yet;
   the rules of `partition_all` and of isolation are written for the TAPs
   the bridge has. *)
Rules(n) ==
  IF n.all THEN Pairs(n.rtaps)
  ELSE {p \in Pairs(Vms) : {p[1], p[2]} \in n.cuts} \cup n.oneway
         \cup {p \in Pairs(n.rtaps \cup n.isolated) :
                 \/ p[1] \in n.isolated /\ p[2] \in n.rtaps
                 \/ p[2] \in n.isolated /\ p[1] \in n.rtaps}

refresh_partitions(n) ==
  IF n.up THEN [n EXCEPT !.drops = Rules(n), !.late = {}] ELSE n

(* The setting is installed but not remembered: only its removal is. *)
refresh_netem(n) ==
  IF ~n.up \/ (n.rnetem = None /\ n.netem = None) THEN n
  ELSE [n EXCEPT !.root = n.netem,
                 !.rnetem = IF n.netem = None THEN None ELSE @]

refresh_bandwidth(n) ==
  CASE ~n.up -> n
    [] n.up /\ ~n.capped ->
         LET bare == [n EXCEPT !.root = None]
         IN  IF n.netem = None THEN bare ELSE refresh_netem(bare)
    [] n.up /\ n.capped ->
         IF n.netem = None THEN [n EXCEPT !.root = Tbf] ELSE n

(* On a host with a default route; without one only rnat changes. *)
refresh_uplink(n) == [n EXCEPT !.rnat = n.uplink, !.nat = n.uplink]

(***************************************************************************)
(* realize_for_vm.  The state it decides by is read once, under the lock;  *)
(* the host commands that follow run without it.                           *)
(***************************************************************************)
Seen(n, v) ==
  [link |-> ~n.up, cur |-> n.rnetem, target |-> n.netem, tap |-> v \notin n.rtaps]

MakeLink(n, seen) == IF seen.link THEN [n EXCEPT !.link = TRUE] ELSE n

(* `tc qdisc add` refuses a root that has a qdisc, `tc qdisc change` one
   that is not a netem; both, and `ip link set master`, an interface that
   is gone. *)
NetemFits(n, seen) ==
  \/ seen.cur = seen.target
  \/ seen.target = None
  \/ seen.cur = None /\ n.root = None /\ n.link
  \/ seen.cur # None /\ n.root \in Netems

PutNetem(n, seen) ==
  IF seen.cur = seen.target THEN n ELSE [n EXCEPT !.root = seen.target]

MakeTap(n, seen, v) ==
  IF seen.tap
    THEN [n EXCEPT !.taps = @ \cup {v}, !.plugged = @ \cup {v}]
    ELSE n

TapFits(n, seen) == seen.tap => n.link

(* collapsed_directional_for: the worst of the impairments from v, here
   whether there is one. *)
Slowed(n, v) == \E p \in n.slow : p[1] = v

ShapeFits(n, v) ==
  Slowed(n, v) /\ v \notin n.rslow => v \in n.taps \ n.shaped

Shape(n, v) ==
  IF Slowed(n, v) = (v \in n.rslow) THEN n
  ELSE [n EXCEPT !.shaped = IF Slowed(n, v) THEN @ \cup {v} ELSE @ \ {v}]

Record(n, seen, v) ==
  [n EXCEPT !.up = TRUE, !.rnetem = seen.target, !.rtaps = @ \cup {v},
            !.rslow = IF Slowed(n, v) THEN @ \cup {v} ELSE @ \ {v},
            !.late = IF v \in n.rtaps THEN @ ELSE @ \cup {v}]

(* The whole of it on a thread that nothing runs beside. *)
realize_for_vm(n, v) ==
  LET seen   == Seen(n, v)
      linked == MakeLink(n, seen)
      tapped == MakeTap(PutNetem(linked, seen), seen, v)
  IN  CASE ~NetemFits(linked, seen) -> [net |-> linked, ok |-> FALSE]
        [] /\ NetemFits(linked, seen)
           /\ ~(TapFits(linked, seen) /\ ShapeFits(tapped, v)) ->
             [net |-> tapped, ok |-> FALSE]
        [] OTHER ->
             [net |-> Record(Shape(tapped, v), seen, v), ok |-> TRUE]

(* One VM after the other; `stop` at the first that fails, or go on. *)
RealiseEach(n, vs, stop) ==
  FoldSet(LAMBDA v, r : IF r.ok \/ ~stop THEN realize_for_vm(r.net, v) ELSE r,
          [net |-> n, ok |-> TRUE], vs).net

(* Every TAP again, up to the first that fails. *)
refresh_directional(n) == RealiseEach(n, IF n.up THEN n.rtaps ELSE {}, TRUE)

(***************************************************************************)
(* The operations a test calls.                                            *)
(***************************************************************************)
attach(n, v) == [n EXCEPT !.members = @ \cup {v}]

Without(ps, v) == {p \in ps : p[1] # v /\ p[2] # v}

(* rslow keeps v: the next TAP of v is taken to be shaped already. *)
detach(n, v) ==
  LET gone == [n EXCEPT !.members = @ \ {v}, !.isolated = @ \ {v},
                        !.cuts = {c \in @ : v \notin c},
                        !.oneway = Without(@, v), !.slow = Without(@, v),
                        !.rtaps = @ \ {v}, !.late = @ \ {v}]
  IN  refresh_partitions(
        IF n.up /\ v \in n.rtaps
          THEN [gone EXCEPT !.taps = @ \ {v}, !.plugged = @ \ {v},
                            !.shaped = @ \ {v}]
          ELSE gone)

unplug(n, v) == [n EXCEPT !.plugged = @ \ {v}]
replug(n, v) == [n EXCEPT !.plugged = @ \cup ({v} \cap n.taps)]

partition(n, a, b) == refresh_partitions([n EXCEPT !.cuts = @ \cup {{a, b}}])

(* Mutant: the graph is healed and the host left as it was. *)
unpartition_graph_only(n, a, b) == [n EXCEPT !.cuts = @ \ {{a, b}}]
unpartition(n, a, b) == refresh_partitions([n EXCEPT !.cuts = @ \ {{a, b}}])

partition_directional(n, a, b) ==
  refresh_partitions([n EXCEPT !.oneway = @ \cup {<<a, b>>}])

unpartition_directional(n, a, b) ==
  refresh_partitions([n EXCEPT !.oneway = @ \ {<<a, b>>}])

partition_all(n) == refresh_partitions([n EXCEPT !.all = TRUE])
restore_all(n) == refresh_partitions([n EXCEPT !.all = FALSE])

isolate(n, v) == refresh_partitions([n EXCEPT !.isolated = @ \cup {v}])
unisolate(n, v) == refresh_partitions([n EXCEPT !.isolated = @ \ {v}])

(* add_latency and drop_rate: one setting of the two. *)
add_latency(n, x) == refresh_netem([n EXCEPT !.netem = x])
bandwidth_limit(n, on) == refresh_bandwidth([n EXCEPT !.capped = on])

(* add_directional_latency, directional_drop_rate, set_directional_bandwidth *)
add_directional(n, a, b, on) ==
  refresh_directional(
    [n EXCEPT !.slow = IF on THEN @ \cup {<<a, b>>} ELSE @ \ {<<a, b>>}])

enable_uplink(n, on) == refresh_uplink([n EXCEPT !.uplink = on])

Unimpaired(n) ==
  [n EXCEPT !.cuts = {}, !.oneway = {}, !.netem = None, !.capped = FALSE,
            !.slow = {}, !.all = FALSE]

reset(n) ==
  refresh_directional(
    refresh_bandwidth(refresh_netem(refresh_partitions(Unimpaired(n)))))

(* Mutant: the TAPs are forgotten and left on the host. *)
unrealize_keeping_taps(n) ==
  [n EXCEPT !.up = FALSE, !.rnetem = None, !.rtaps = {}, !.rslow = {},
            !.rnat = FALSE, !.late = {}, !.drops = {}, !.nat = FALSE,
            !.link = FALSE, !.root = None, !.plugged = {}]
unrealize(n) ==
  [n EXCEPT !.up = FALSE, !.rnetem = None, !.rtaps = {}, !.rslow = {},
            !.rnat = FALSE, !.late = {},
            !.drops = {}, !.nat = IF n.rnat THEN FALSE ELSE @,
            !.taps = @ \ n.rtaps, !.plugged = @ \ n.rtaps,
            !.shaped = @ \ n.rtaps,
            !.link = IF n.up THEN FALSE ELSE @,
            !.root = IF n.up THEN None ELSE @]

=============================================================================
