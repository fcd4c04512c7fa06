------------------------------ MODULE Routing ------------------------------
(***************************************************************************)
(* The router of src/routing/router.c and route.c as operators on a table  *)
(* of routes.  A path is the sequence of its segments, as next_seg yields  *)
(* them; a pattern is a sequence of literals, captures and stars.          *)
(***************************************************************************)
EXTENDS Naturals, Sequences, SequencesExt

Lit(s)  == <<"lit", s>>
Cap(n)  == <<"cap", n>>     \* "<n>"; the empty name is "<>"
Star    == <<"star", "*">>
NoRoute == 0

Set(params, k, v) == [x \in DOMAIN params \cup {k} |-> IF x = k THEN v ELSE params[x]]

-----------------------------------------------------------------------------
\* What a pattern is made of, and what a route is registered with.
Segments == ({"lit", "cap"} \X STRING) \cup {Star}
Registration == [method : STRING, pattern : Seq(Segments), handler : STRING]

\* A table without routes, and the operations on one.
router_init == << >>

router_add(routes, method, pattern, handler) ==
  Append(routes, [method |-> method, pattern |-> pattern, handler |-> handler, timeout |-> 0])

\* The first route registered under this method and pattern.
Slot(routes, method, pattern) ==
  SelectInSeq(routes, LAMBDA r : r.method = method /\ r.pattern = pattern)

router_set_timeout(routes, method, pattern, ms) ==
  LET i == Slot(routes, method, pattern)
  IN  IF i = NoRoute THEN routes ELSE [routes EXCEPT ![i].timeout = ms]

router_remove(routes, method, pattern) ==
  LET i == Slot(routes, method, pattern)
  IN  IF i = NoRoute THEN routes ELSE RemoveAt(routes, i)

-----------------------------------------------------------------------------
(* route_path_matches walks pattern and path side by side, up to the first *)
(* place where one of them ends, the pattern has a star, or they differ.   *)

Agrees(pseg, qseg) == pseg = Lit(qseg) \/ (pseg[1] = "cap" /\ pseg # Cap(""))

WalkEnd(p, q) ==
  CHOOSE i \in 1 .. Len(p) + 1 :
    /\ i > Len(p) \/ i > Len(q) \/ ~Agrees(p[i], q[i])
    /\ \A j \in 1 .. i - 1 : j <= Len(q) /\ Agrees(p[j], q[j])

\* A star that is not the last segment of its pattern is taken for one that is.
route_path_matches_AnyStar(p, q) ==
  LET i == WalkEnd(p, q)
  IN  IF i <= Len(p) /\ p[i] = Star THEN TRUE ELSE i > Len(p) /\ i > Len(q)

route_path_matches(p, q) ==
  LET i == WalkEnd(p, q)
  IN  IF i <= Len(p) /\ p[i] = Star THEN i = Len(p) ELSE i > Len(p) /\ i > Len(q)

\* What the walk leaves in params, whether or not the pattern matches in the end.
Captured(p, q, params) ==
  LET upto[n \in 0 .. WalkEnd(p, q) - 1] ==
        IF n = 0 THEN params
        ELSE IF p[n][1] = "cap" THEN Set(upto[n - 1], p[n][2], q[n]) ELSE upto[n - 1]
  IN  upto[WalkEnd(p, q) - 1]

-----------------------------------------------------------------------------
\* A HEAD request is served by the route of a GET.
Wanted(method) == IF method = "HEAD" THEN "GET" ELSE method

\* The route that serves the request: the first of its method that matches.
FirstMatch(routes, method, path) ==
  SelectInSeq(routes, LAMBDA r : r.method = Wanted(method) /\ route_path_matches(r.pattern, path))

\* The parameters when route i is called: the routes of this method that were
\* tried before it have written their captures into the same map.
ParamsAt(routes, method, path, i, params) ==
  LET upto[n \in 0 .. i] ==
        IF n = 0 THEN params
        ELSE IF routes[n].method = Wanted(method) THEN Captured(routes[n].pattern, path, upto[n - 1])
        ELSE upto[n - 1]
  IN  upto[i]

\* The methods under which the path exists, in the order of the routes.
Allow(routes, path) ==
  LET upto[n \in 0 .. Len(routes)] ==
        IF n = 0 THEN << >>
        ELSE IF route_path_matches(routes[n].pattern, path) /\ ~Contains(upto[n - 1], routes[n].method)
        THEN Append(upto[n - 1], routes[n].method) ELSE upto[n - 1]
  IN  upto[Len(routes)]
=============================================================================
