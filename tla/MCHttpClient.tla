---------------------------- MODULE MCHttpClient ----------------------------
(***************************************************************************)
(* Model-checking instances of HttpClient.                                 *)
(***************************************************************************)
EXTENDS HttpClient

NoBase == {NoHost}

A(frame, dies, code, location) ==
  [frame |-> frame, dies |-> dies, code |-> code, location |-> location]

\* Every framing, a close announced, redirects with and without a Location that can
\* be followed, and an answer a client has to reject.
EveryAnswer ==
  {A("none", FALSE, 303, "http"), A("sized", TRUE, 301, "none"), A("chunked", FALSE, 200, "none"),
   A("eof", FALSE, 302, "other"), A("badchunk", FALSE, 200, "none")}
=============================================================================
