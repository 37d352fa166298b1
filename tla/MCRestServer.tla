---------------------------- MODULE MCRestServer ----------------------------
(* Instances of RestServer for TLC: two connections, or one on every route.  *)
EXTENDS RestServer

CONSTANTS a, c1, c2

MCKey == {1}

Exchange(method, target, length, body) ==
  [method |-> method, target |-> target, wellFormed |-> TRUE, fields |-> TRUE, header |-> 1,
   length |-> length, body |-> body, key |-> 1, val |-> a]

\* A PUT of one unit of header and one of body.
MCOne == {Exchange("PUT", "kv", 1, 1)}

\* Every route, every way to refuse a request, a body longer than declared, a
\* header longer than MaxHeader that fits if it comes in one piece, one that
\* never fits, and requests with no header line.
MCRoutes ==
  {Exchange("OPTIONS", "kv", 0, 0), Exchange("POST", "/sync", 0, 0),
   Exchange("GET", "/scan", 0, 0),
   Exchange("GET", "/scan?", 0, 0), Exchange("GET", "/kv/%", 0, 0),
   Exchange("GET", "kv", 0, 0), Exchange("POST", "kv", 0, 0),
   Exchange("GET", "/", 0, 0), Exchange("GET", "/stats", 0, 1),
   Exchange("PUT", "kv", 1, 2), Exchange("DELETE", "kv", 0, 0),
   Exchange("PUT", "kv", Malformed, 0), Exchange("PUT", "kv", 2, 2),
   [Exchange("DELETE", "kv", 0, 0) EXCEPT !.wellFormed = FALSE],
   [Exchange("PUT", "kv", 1, 1) EXCEPT !.header = 2],
   [Exchange("PUT", "kv", 1, 1) EXCEPT !.header = 3],
   [Exchange("PUT", "kv", 1, 1) EXCEPT !.fields = FALSE],
   [Exchange("DELETE", "kv", 0, 0) EXCEPT !.fields = FALSE]}
=============================================================================
