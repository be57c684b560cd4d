-------------------------- MODULE MCCloudVariables --------------------------
(* Values of the constants of CloudVariables for TLC: integer variables, one  *)
(* of which the cloud may write with or without the portal's quotes.          *)
EXTENDS CloudVariables, TLC

MCValues == {0, 1}
MCTexts == {"", "0", "1", "'1'"}
MCPutTexts == {"0", "'1'"}
MCFormat == [v \in MCValues |-> IF v = 0 THEN "0" ELSE "1"]
MCParse == [t \in MCTexts |-> IF t = "1" THEN 1 ELSE 0]   \* atoi("'1'") = 0
MCUnquote == [t \in MCTexts |-> IF t = "'1'" THEN "1" ELSE t]

\* Two variables: one the main thread assigns to, one its callback assigns to.
SplitWriters == "led" :> {"main"} @@ "echo" :> {"event"}
\* One that both threads assign to, and one whose definition is rejected.
SharedWriters == "led" :> AppThreads @@ "bad" :> {"main"}
\* A single variable of the main thread.
MainWriter == "led" :> {"main"}
\* What the portal PUTs: always quoted.
MCPortalTexts == {"'1'"}
=============================================================================
