-------------------------------- MODULE MCH2 --------------------------------
(***************************************************************************)
(* Model-checking instances of H2: the frames a client sends.              *)
(***************************************************************************)
EXTENDS H2

Frame == [type |-> "ping", id |-> 0, len |-> 1, ok |-> TRUE, ack |-> FALSE, es |-> FALSE,
          eh |-> TRUE, block |-> "request", cl |-> -1, zip |-> "no", inc |-> -1,
          err |-> "none", last |-> 0]

Settings(w)     == [Frame EXCEPT !.type = "settings", !.inc = w]
Window(id, n)   == [Frame EXCEPT !.type = "window", !.id = id, !.inc = n]
Get(id)         == [Frame EXCEPT !.type = "headers", !.id = id, !.es = TRUE]
Post(id, cl)    == [Frame EXCEPT !.type = "headers", !.id = id, !.cl = cl]
Data(id, n, es) == [Frame EXCEPT !.type = "data", !.id = id, !.len = n, !.es = es]
Rst(id)         == [Frame EXCEPT !.type = "rst", !.id = id]
Goaway(id)      == [Frame EXCEPT !.type = "goaway", !.last = id]
Cont(id, eh)    == [Frame EXCEPT !.type = "cont", !.id = id, !.eh = eh]
Typed(t, id)    == [Frame EXCEPT !.type = t, !.id = id]
Bad(f)          == [f EXCEPT !.ok = FALSE]
Block(f, b)     == [f EXCEPT !.block = b]
Unfinished(f)   == [f EXCEPT !.eh = FALSE]

PriorKnowledge == [how |-> "prior", window |-> InitWindow, preface |-> FALSE,
                   undecodable |-> FALSE, body |-> 0]
WithPreface    == [PriorKnowledge EXCEPT !.how = "tls", !.preface = TRUE]
Upgrade(w)     == [PriorKnowledge EXCEPT !.how = "upgrade", !.window = w]

JustPrior   == {PriorKnowledge}
AllEntries  == {PriorKnowledge, WithPreface, Upgrade(0), Upgrade(2), Upgrade(MaxWindow + 1),
                [Upgrade(2) EXCEPT !.body = MaxBody + 1],
                [Upgrade(2) EXCEPT !.undecodable = TRUE]}

OneBody     == {[left |-> 3, how |-> "body"]}
SomeBodies  == {[left |-> 0, how |-> "body"], [left |-> 4, how |-> "body"],
                [left |-> 0, how |-> "queue"], [left |-> 2, how |-> "fn"]}

\* Downloads: two streams share the connection window.
FlowFrames == {Settings(-1), Settings(0), Settings(1), Settings(3), Settings(MaxWindow + 1),
               Get(1), Get(3), Window(0, 1), Window(0, 2), Window(1, 1), Window(1, 3),
               Window(3, 2), Window(3, 0), Window(0, 0), Rst(1)}

\* Uploads: declared and undeclared lengths, within max_body and beyond it.
UploadFrames == {Settings(-1), Get(1), Post(1, -1), Post(1, 2), Post(1, 4), Post(3, -1),
                 [Post(3, 1) EXCEPT !.zip = "corrupt"], [Post(3, 1) EXCEPT !.zip = "bomb"],
                 Data(1, 0, TRUE), Data(1, 1, FALSE), Data(1, 1, TRUE), Data(1, 2, TRUE),
                 Data(3, 1, TRUE), Data(3, 2, FALSE), Bad(Data(3, 1, TRUE)), Window(1, 2)}

\* Streams opened, refused, reset and abandoned.
LifeFrames == {Settings(-1), Get(1), Get(3), Get(2), Post(5, -1), Data(5, 1, TRUE), Data(1, 1, TRUE),
               Block(Get(3), "malformed"), Block(Get(5), "undecodable"),
               Unfinished(Get(3)), Cont(3, TRUE), Cont(3, FALSE), Rst(1), Rst(5),
               Goaway(0), Goaway(3), Window(1, 1), Window(1, 4), Window(0, 3)}

\* The frames that are refused or ignored, and those that end a connection.
LiveFrames == {Settings(-1), [Settings(-1) EXCEPT !.ack = TRUE],
              Bad([Settings(-1) EXCEPT !.ack = TRUE]), [Settings(-1) EXCEPT !.err = "protocol"],
              Typed("settings", 1), Typed("ping", 0), Bad(Typed("ping", 0)), Typed("ping", 1),
              Typed("push", 1), Typed("unknown", 1), Typed("priority", 1), Bad(Typed("priority", 1)),
              Bad(Typed("priority", 3)), Typed("priority", 0), Data(0, 1, TRUE),
              Data(1, MaxFrame + 1, TRUE), Get(1), Get(3), Post(1, -1), Window(1, 0),
              Window(0, 2), Rst(1), Goaway(0), Goaway(3)}

\* A client that only uploads, within the credit it has.
CreditFrames == {Settings(-1), Post(1, -1), Data(1, 1, FALSE), Data(1, 2, TRUE)}

Sends(fs, n, es, rs) == [frames |-> fs, most |-> n, entries |-> es, responses |-> rs]

EveryClient == <<Sends(FlowFrames, 6, JustPrior, OneBody),
                 Sends(UploadFrames, 5, AllEntries, SomeBodies),
                 Sends(LifeFrames, 6, JustPrior, SomeBodies),
                 Sends(LiveFrames, 5, AllEntries, OneBody)>>
UploadClient == <<Sends(CreditFrames, 4, JustPrior, OneBody)>>
=============================================================================
