----------------------------- MODULE MCMcpServer -----------------------------
(***************************************************************************)
(* Sessions of a client that shakes hands, or not, calls tools under an id *)
(* it may use again, and cancels that id and another.                      *)
(***************************************************************************)
EXTENDS McpServer

CONSTANTS a, b

Line(kind, id) == [kind |-> kind, id |-> id]

\* One line for each way the server can take a line.
SessionLines == {Line("initialize", a), Line("badInitialize", a),
                 Line("initialized", Null), Line("unparsable", Null),
                 Line("unknown", b), Line("call", a)}
==============================================================================
