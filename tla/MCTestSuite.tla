---------------------------- MODULE MCTestSuite -----------------------------
(* Two files, one of two tests and one of one, on a pool with room for one *)
(* at a time, so that a file is queued while the other runs.               *)
EXTENDS TestSuite, TLC

CONSTANTS a, b

Test(pairs) == [skip |-> FALSE, slow |-> FALSE, pairs |-> pairs]

MCMetas ==
    (a :> <<Test({<<"tags", "net">>, <<"area", "disk">>}), Test({})>>) @@
    (b :> <<[Test({<<"tags", "net">>}) EXCEPT !.slow = TRUE]>>)

NoFilter == [includeSlow |-> TRUE, tag |-> {}, noTag |-> {}, tagMeta |-> {}, noTagMeta |-> {}]

\* The plain run, and one whose filters keep the first test of the first file
MCFilters ==
    {NoFilter,
     [NoFilter EXCEPT !.includeSlow = FALSE, !.tag = {"net"},
                      !.tagMeta = {<<"area", "disk">>, <<"area", "cpu">>}]}
=============================================================================
