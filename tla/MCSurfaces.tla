------------------------------ MODULE MCSurfaces ------------------------------
(* An instance of the surfaces for TLC: an MCP server, an ACP server or none, up  *)
(* to three requests to the daemon, up to three commands on a package.            *)
EXTENDS Surfaces

MCTask == {1, 2}
MCUses == <<"cat", "tool">>
Free == [held |-> FALSE, parser |-> "json.auto", known |-> TRUE, verified |-> TRUE]
Held == [Free EXCEPT !.held = TRUE]
Text == [Free EXCEPT !.parser = "raw.text"]
Unverified == [Free EXCEPT !.verified = FALSE]
Gone == [Free EXCEPT !.known = FALSE]

MCManifest == {Free, Held, Text, Unverified, Gone}

Hands(listed, kind, valid, picks) ==
    [source |-> 1, consumer |-> 2, listed |-> listed,
     selector |-> [kind |-> kind, valid |-> valid, picks |-> picks]]
Field == Hands(TRUE, "payload", TRUE, "field")
Item == Hands(TRUE, "artifact", TRUE, "item")

MCMappings ==
    {{}, {Field}, {Item}, {Field, Item}, {Hands(FALSE, "payload", TRUE, "always")},
     {Hands(TRUE, "payload", TRUE, "always")}, {Hands(TRUE, "metadata", TRUE, "always")},
     {Hands(TRUE, "payload", FALSE, "never")}, {Hands(TRUE, "unknown", TRUE, "always")}}

Use(used, n, manifests) ==
    [used |-> used, stimuli |-> n, manifests |-> manifests, mappings |-> {{}}]

MCMix ==
    {Use({"mcp1"}, 4, {Held}),
     Use({"mcp1"}, 3, {Free, Held}),
     Use({"acp1"}, 4, {Free, Held}),
     Use({"daemon"}, 3, {Held}),
     Use({"daemon"}, 2, {Free, Held}),
     Use({"package"}, 4, {Free, Text}),
     Use({"package"}, 3, {Free, Held, Text}),
     Use({"mcp1", "daemon"}, 2, {Free, Held}),
     Use({"mcp1", "package"}, 2, {Free, Text}),
     Use({"acp1", "package"}, 2, {Free, Text}),
     [used |-> {"reports"}, stimuli |-> 2,
      manifests |-> {Free, Held, Unverified, Gone}, mappings |-> MCMappings]}

MCProtocol == [mcp1 |-> "mcp", acp1 |-> "acp"]
==============================================================================
