---------------------------- MODULE MCWebServer ----------------------------
(* Values of the constants of WebServer for TLC. *)
EXTENDS WebServer, TLC

CONSTANTS c1, c2

R(kind, size, headers, query) ==
  [kind |-> kind, size |-> size, headers |-> headers, query |-> query]

\* Headers within the limit, at it, above it within a last recv(), beyond; all
\* routes; the right token last, first and not at all, in headers and query.
Mixed ==
  {R("get", 2, <<>>, <<>>), R("get", 3, <<>>, <<>>),
   R("get", 4, <<>>, <<>>), R("unknown", 1, <<>>, <<>>), R("bad", 2, <<>>, <<>>),
   R("ota", 1, <<"other", "secret">>, <<>>), R("ota", 1, <<"secret", "other">>, <<"other", "secret">>),
   R("ota", 1, <<>>, <<"secret">>), R("ota", 1, <<"change-me">>, <<"">>)}

Few == {R("get", 1, <<>>, <<>>), R("get", 4, <<>>, <<>>), R("ota", 1, <<"secret">>, <<>>)}

Open == [web |-> TRUE, enabled |-> TRUE, token |-> "secret"]
OneConf == {Open}
SomeConfs ==
  {Open, [Open EXCEPT !.web = FALSE], [Open EXCEPT !.enabled = FALSE],
   [Open EXCEPT !.token = ""], [Open EXCEPT !.token = "change-me"]}

Interchangeable == Permutations(Clients)
=============================================================================
