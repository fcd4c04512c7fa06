----------------------------- MODULE MCPipeline -----------------------------
(***************************************************************************)
(* Model-checking instances of Pipeline: one configuration of the          *)
(* generated application for each kind of question.                        *)
(***************************************************************************)
EXTENDS Pipeline

CONSTANTS w1, w2

Anonymous == [user |-> NoKey, pass |-> NoKey]
Owner     == [user |-> "ann", pass |-> "right"]
Guess     == [user |-> "ann", pass |-> "wrong"]

Get == [method |-> "GET", path |-> <<"file">>, query |-> << >>, form |-> TRUE, cred |-> Anonymous,
        remote |-> "a1", xff |-> << >>, sig |-> [mac |-> TRUE, ts |-> 0], origin |-> FALSE,
        inm |-> {}, ims |-> NoDate, range |-> << >>, ifr |-> NoTag, gz |-> FALSE, check |-> {}]

R(m, p, h) == [method |-> m, pattern |-> p, handler |-> h]

\* A page and the fallback, as the generated main registers them.
Site == <<R("GET", << >>, "page"), R("POST", << >>, "page"), R("GET", <<Star>>, "fallback"), R("POST", <<Star>>, "fallback")>>

App == [name |-> "guess", layers |-> {"rate", "basic_auth"}, layout |-> TRUE, root |-> TRUE, table |-> Site,
        specs |-> {}, threads |-> {w1, w2}, account |-> Owner,
        requests |-> 3, ticks |-> 2, edits |-> 0, sizes |-> {3}]

\* Two threads serve the owner and, from behind the proxy, a guess at the owner's
\* password.
Guessing == App
Guesses  == {[Get EXCEPT !.path = << >>, !.cred = Owner],
             [Get EXCEPT !.path = << >>, !.cred = Guess, !.remote = "p", !.xff = <<"a2", "p", "junk">>]}

\* One thread, every layer: what each of them refuses, and what passes.
Full == [App EXCEPT !.name = "full", !.threads = {w1}, !.requests = 2, !.ticks = 1,
         !.layers = {"stats", "client_ip", "request_id", "security", "signature", "rate", "basic_auth", "gzip", "etag", "cors"}]
Calls ==
  LET Mine == [Get EXCEPT !.cred = Owner]
      Home == [Mine EXCEPT !.path = << >>]
  IN  {Mine, Home, [Home EXCEPT !.remote = "a2", !.gz = TRUE], [Mine EXCEPT !.path = <<"none">>, !.origin = TRUE],
       [Home EXCEPT !.cred = Guess], [Home EXCEPT !.sig.mac = FALSE], [Home EXCEPT !.sig.ts = 2],
       [Home EXCEPT !.method = "OPTIONS", !.origin = TRUE], [Home EXCEPT !.method = "OPTIONS"],
       [Home EXCEPT !.inm = {[kind |-> "strong", val |-> <<"page", <<<<"a1", 1>>>>>>]}],
       [Home EXCEPT !.method = "HEAD", !.gz = TRUE], [Mine EXCEPT !.path = <<"bad">>],
       [Home EXCEPT !.cred = Anonymous, !.remote = "p", !.xff = <<"a1", "p", "a2">>]}

\* A client keeps a copy of a file that is being replaced.
Copying == [App EXCEPT !.name = "copy", !.threads = {w1}, !.ticks = 0, !.edits = 2, !.sizes = {0, 3},
            !.layers = {"gzip", "etag"}]
Spec1(a, b) == [from |-> a, to |-> b]
Copies ==
  {Get, [Get EXCEPT !.gz = TRUE], [Get EXCEPT !.range = <<Spec1(0, 0)>>],
   [Get EXCEPT !.range = <<Spec1(0, 0), Spec1(2, 2)>>]}
  \cup {[Get EXCEPT !.check = c] : c \in {{"inm"}, {"ims"}, {"inm", "ims"}}}
  \cup {[Get EXCEPT !.check = {c}, !.range = <<Spec1(1, Empty)>>] : c \in {"tag", "date"}}

\* Every list of up to three range specs.
Ranging == [App EXCEPT !.name = "range", !.threads = {w1}, !.requests = 1, !.ticks = 0, !.sizes = {0, 3}, !.layers = {},
            !.table = <<R("GET", <<Star>>, "mount")>>]
Spans == {Spec1(a, b) : a \in {0, 1, 3, Empty}, b \in {0, 2, 4, Empty}} \cup {Spec1(Junk, 1), Spec1(1, Junk)}
Ranges == {[Get EXCEPT !.range = r] : r \in UNION {[1 .. n -> Spans] : n \in 1 .. 3}}

\* Route tables built by up to three operations.
Routing1 == [App EXCEPT !.name = "route", !.threads = {w1}, !.requests = 1, !.ticks = 0, !.layers = {}, !.table = << >>, !.layout = FALSE,
             !.specs = {R("GET", <<Lit("a"), Cap("x")>>, "page"), R("GET", <<Cap("x"), Lit("b")>>, "dated"),
                        R("GET", <<Cap("x"), Cap("x")>>, "page"), R("GET", <<Cap("y"), Star>>, "page"),
                        R("GET", <<Star, Lit("b")>>, "page"), R("GET", <<Lit("a"), Cap("")>>, "page"),
                        R("POST", <<Lit("a"), Cap("x")>>, "page"), R("POST", <<Star>>, "page"),
                        R("OPTIONS", <<Lit("a")>>, "page")}]
Paths == {<< >>, <<"a">>, <<"a", "b">>, <<"c", "b">>, <<"a", "b", "c">>}
Hits  == {[Get EXCEPT !.method = m, !.path = p, !.query = q] :
            m \in {"GET", "HEAD", "POST", "OPTIONS", "PUT"}, p \in Paths, q \in {<< >>, [x \in {"x", "y"} |-> "q"]}}
         \cup {[Get EXCEPT !.form = FALSE]}

\* The workers are interchangeable: where one thread serves, it is any of them.
Apps  == {Guessing} \cup {[a EXCEPT !.threads = {w}] : a \in {Full, Copying, Ranging, Routing1}, w \in Workers}
Twins == Permutations(Workers)
Sent == [guess |-> Guesses, full |-> Calls, copy |-> Copies, range |-> Ranges, route |-> Hits]
=============================================================================
