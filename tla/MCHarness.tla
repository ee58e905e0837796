------------------------------ MODULE MCHarness ------------------------------
(* An instance of the harness hub for TLC: three names, two of which become   *)
(* one capability, and a market that changes its mind.                        *)
EXTENDS HarnessPlans, TLC

MCName    == {1, 2, 3}
MCQuery   == MCName \cup {NoQuery}
MCCapOf   == 1 :> "c1" @@ 2 :> "c2" @@ 3 :> "c1"
MCTarget  == 1 :> <<"smokes", "imports">> @@ 2 :> <<"absent", "imports">> @@ 3 :> <<>>
MCMain    == 1 :> "imports" @@ 2 :> "none" @@ 3 :> "none"

\* A manifest of one's own parser, verified with its fixtures.
MCShipped == "c1" :> [ManifestFor(1, NoRecord) EXCEPT !.parser = "custom", !.verified = TRUE]
          @@ "c2" :> NoManifest
MCShippedFixtures == {<<"c1", "custom">>}

Record(name, requires, info, platform, risk) ==
    [name |-> name, display |-> name, requires |-> requires, info |-> info,
     platform |-> platform, risk |-> risk]

MCMarket == {
    <<Record(1, "undeclared", "tool", TRUE, "read"),
      Record(2, "tool", "none", TRUE, "write-workspace")>>,
    <<Record(3, "tool", "none", TRUE, "read"),
      Record(1, "undeclared", "none", TRUE, "external-network")>>}

\* A market that answers, in its own way, and one that does not.
Found(shape, found) == [shape |-> shape, found |-> found]
MCAnswers == {
    NoQuery :> Found("list", {1, 2, 3}) @@ 1 :> Found("list", {1, 3})
        @@ 2 :> Found("list", {1, 2}) @@ 3 :> Found("list", {3}),
    NoQuery :> Found("object", {1, 2}) @@ 1 :> Found("error", {})
        @@ 2 :> Found("object", {2}) @@ 3 :> Found("list", {})}
==============================================================================
