--------------------------- MODULE MCConversation ---------------------------
EXTENDS Conversation

MCCalls == <<"shell", "read">>
MCFreeform == {"read"}
MCNameOf == [c \in {"shell", "read"} |-> <<"mcp", c>>]

Entry(stem, glob, tier) == [stem |-> stem, glob |-> glob, tier |-> tier]
Config(tools, wellformed, served) ==
  [tools |-> tools, wellformed |-> wellformed, served |-> served,
   precedence |-> <<"premium", "structured", "code", "fast", "crud">>,
   aliases |-> (<<"mcp", "read">> :> <<"mcp", "Read">>),
   premium |-> {<<"mcp", "Read">>}]

\* The built-in map knows one of the two tools.
MCDefaultTools == <<Entry(<<"mcp", "shell">>, FALSE, "fast")>>

\* An exact name and a pattern; a pattern for everything and a premium tool under
\* another spelling; a tier that is not in the precedence; a malformed map, and
\* another tool in the guard.
MCConfigs ==
  {[Config(<<Entry(<<"mcp">>, TRUE, "code"), Entry(<<"mcp", "shell">>, FALSE, "fast")>>,
           TRUE, {"code", "fast"}) EXCEPT !.premium = {}],
   Config(<<Entry(<<>>, TRUE, "fast"), Entry(<<"mcp", "Read">>, FALSE, "premium")>>,
          TRUE, {"fast"}),
   Config(<<Entry(<<"mcp", "shell">>, FALSE, "local"), Entry(<<"mcp", "Read">>, FALSE, "fast")>>,
          TRUE, {"fast"}),
   [Config(<<>>, FALSE, {"fast"}) EXCEPT !.premium = {<<"mcp", "shell">>, <<"mcp", "Read">>}]}
=============================================================================
