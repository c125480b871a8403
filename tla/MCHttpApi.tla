----------------------------- MODULE MCHttpApi -----------------------------
\* HttpApi with two processes and one request.
EXTENDS HttpApi

Option(lifecycle, token, port, timeout) ==
  [lifecycle |-> lifecycle, token |-> token, loopback |-> TRUE, provider |-> TRUE,
   port |-> port, timeout |-> timeout, origins |-> {}]

MCOptions ==
  { Option(TRUE, None, AnyPort, 1),
    [Option(TRUE, "shared", "p1", 0) EXCEPT !.origins = {"webview"}],
    Option(FALSE, None, "p1", 1), Option(TRUE, "weak", "p2", 1),
    [Option(FALSE, "shared", "p2", 1) EXCEPT !.loopback = FALSE] }

Ask(method, path, origin, body) ==
  [method |-> method, path |-> path, origin |-> origin, body |-> body,
   blank |-> FALSE, budget |-> 0]

MCCalls ==
  { Ask("POST", "/v1/prompt-enhance", "webview", "document"),
    [Ask("POST", "/v1/prompt-enhance", None, "document") EXCEPT !.budget = -1],
    Ask("OPTIONS", "/v1/prompt-enhance", "webview", None) }
=============================================================================
