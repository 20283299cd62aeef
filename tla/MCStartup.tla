----------------------------- MODULE MCStartup ------------------------------
EXTENDS Startup

\* The signer is its own account, with spot assets, or an agent without them; or
\* writes fail at once.
RunScenarios ==
  {[agent |-> FALSE, spot |-> TRUE, adopt |-> TRUE, resets |-> FALSE],
   [agent |-> TRUE, spot |-> FALSE, adopt |-> TRUE, resets |-> FALSE],
   [agent |-> FALSE, spot |-> FALSE, adopt |-> TRUE, resets |-> TRUE]}

\* The default configuration with a signer that is its own account.
PlainScenario == {[agent |-> FALSE, spot |-> FALSE, adopt |-> TRUE, resets |-> FALSE]}

\* An error, a 429, a body in chunks, a body that the close ends, a bad head, and
\* a response after which the server closes.
RunVariants == {[status |-> "error", keep |-> TRUE, framing |-> "none", length |-> 0],
                [status |-> "limit", keep |-> TRUE, framing |-> "length", length |-> 0],
                [status |-> "ok", keep |-> TRUE, framing |-> "chunked", length |-> 2],
                [status |-> "ok", keep |-> TRUE, framing |-> "close", length |-> 2],
                [status |-> "ok", keep |-> TRUE, framing |-> "bad", length |-> 0],
                [status |-> "ok", keep |-> FALSE, framing |-> "length", length |-> 2]}
=============================================================================
