---------------------------- MODULE MCConnection ----------------------------
(***************************************************************************)
(* Model-checking instances of Connection: the requests a client sends.    *)
(***************************************************************************)
EXTENDS Connection

Base == [head |-> 2, body |-> << >>, declared |-> FALSE, length |-> 0,
         chunked |-> FALSE, expect |-> "none", keep |-> TRUE, http11 |-> TRUE,
         wellformed |-> TRUE, whole |-> FALSE, cuts |-> {}, gzip |-> "no", proto |-> "http",
         slow |-> FALSE]

Datas(n) == [k \in 1 .. n |-> "data"]

Get   == Base
Slow  == [Base EXCEPT !.slow = TRUE]
Close == [Base EXCEPT !.keep = FALSE]
Post(n)    == [Base EXCEPT !.body = Datas(n), !.declared = TRUE, !.length = n]
Expects(n) == [Post(n) EXCEPT !.expect = "continue"]

\* A header block that leaves little of the buffer.
LongHead(n) == [Post(n) EXCEPT !.head = 5]

WithZip(r, z)   == [r EXCEPT !.gzip = z]
WithProto(r, p) == [r EXCEPT !.proto = p]

\* A request whose header block does not parse.
Garbled == [Base EXCEPT !.wellformed = FALSE]

\* Chunked bodies; one of a single data unit.
Chunked(b) == [Base EXCEPT !.chunked = TRUE, !.body = b]
OneChunkBody == <<"size", "nl", "data", "nl", "zero", "nl", "nl">>

\* The preface of a client with prior knowledge of HTTP/2.
Preface == [Base EXCEPT !.proto = "pri", !.head = 1, !.body = <<"magic">>]

\* Requests without chunked framing, alone and followed by another one.
Firsts == {Get, Slow, Close, Garbled, Post(0), Post(1), Post(3), Post(7),
           Expects(2), Expects(7), [Post(2) EXCEPT !.expect = "unknown"],
           WithZip(Post(1), "corrupt"), WithZip(Post(7), "bomb"), WithZip(Post(1), "valid"),
           WithProto(Get, "upgrade"), WithProto(Post(7), "h2c")}

PlainScripts == {<<r, s>> : r \in Firsts, s \in {Get, Post(2), Expects(7), Garbled}}
                \cup {<<LongHead(7), Get>>, <<Slow, Slow, Post(1)>>, <<Get, Slow, Get>>, <<Preface>>,
                      <<WithProto(Base, "pri")>>}

\* Well-formed chunked bodies cut where the decoder can resume: behind the header
\* block and behind the first size line, while nothing has been slid over the framing.
\* The last one does not fit the buffer.
Whole(r) == [r EXCEPT !.whole = TRUE]
TwoChunks == <<"size", "nl", "data", "nl", "size", "nl", "data", "nl">>
ChunkedScripts ==
  {<<[Whole(Chunked(b)) EXCEPT !.cuts = {4}], Get>> :
     b \in {OneChunkBody, TwoChunks \o <<"zero", "nl", "nl">>,
            TwoChunks \o TwoChunks \o <<"zero", "nl", "nl">>}}
  \cup {<<Whole(Chunked(<<"zero", "nl", "nl">>)), Get>>}

\* A body of two chunks, cut between them.
ResumedScripts == {<<[Whole(Chunked(TwoChunks \o <<"zero", "nl", "nl">>)) EXCEPT !.cuts = {6}]>>}

\* A request behind a spilled body, when the header block fills most of the buffer.
SurplusScripts == {<<LongHead(7), Get>>}

\* One well-formed chunked body, split anywhere.
SplitScripts == {<<Chunked(OneChunkBody)>>}

\* A chunked body whose size line is not a number.
BadChunkScripts == {<<Whole(Chunked(<<"junk", "nl", "data", "nl", "zero", "nl", "nl">>)), Get>>}

\* The two requests that make the parse loop look into the configuration.
NullScripts == {<<Expects(2)>>, <<Post(7)>>}

\* A client that waits for a 100 before it sends a chunked body.
ExpectChunked == Whole([Chunked(OneChunkBody) EXCEPT !.expect = "continue"])

\* A complete HTTP/1 request that starts like the HTTP/2 preface and is shorter.
ShortPri == [Base EXCEPT !.proto = "pri", !.head = 1]

\* The requests that are answered one by one and in full: with a declared length or
\* none however they arrive, chunked where the decoder can resume.
SafeScripts == PlainScripts \cup ChunkedScripts

\* One request of every kind, the awkward ones included.
EveryScript == {<<r>> : r \in Firsts \cup {ExpectChunked, ShortPri, Preface}}
               \cup SplitScripts \cup BadChunkScripts \cup NullScripts
               \cup SafeScripts

=============================================================================
