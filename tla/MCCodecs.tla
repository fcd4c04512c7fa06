------------------------------ MODULE MCCodecs ------------------------------
(***************************************************************************)
(* The two stateful decoders, Hpack and WebSocket, model-checked side by   *)
(* side: a behaviour runs one of them and leaves the other where it is.    *)
(***************************************************************************)
EXTENDS Naturals, Sequences

CONSTANTS Names, Sizes, Limit, MaxSteps, Staging, Slack, PayloadCap, MaxFrames

\* A table and a buffer hold something, and an entry of a table takes room: 32 octets
\* besides its text (hpack.c:250).
ASSUME Bounds == /\ Sizes \subseteq Nat \ {0} /\ Limit \in Nat \ {0}
                 /\ Staging \in Nat \ {0} /\ Slack \in Nat /\ PayloadCap \in Nat

VARIABLES which,
          enc, hp, any, field, dead, beyond, steps,
          pc, cap, rb, wire, sent, frame, seen, out, ret

hvars == <<enc, hp, any, field, dead, beyond, steps>>
wvars == <<pc, cap, rb, wire, sent, frame, seen, out, ret>>

F(op, fin, len, bad) == [op |-> op, fin |-> fin, len |-> len, bad |-> bad]

\* Data frames of every length class, the control frames, and what is refused.
Frames == {F("text", TRUE, 3, FALSE), F("cont", FALSE, 0, FALSE), F("text", TRUE, 4, FALSE),
           F("ping", TRUE, 1, FALSE), F("pong", TRUE, 0, FALSE), F("close", TRUE, 0, FALSE),
           F("ping", TRUE, 2, FALSE), F("text", TRUE, 0, TRUE)}

H == INSTANCE Hpack
W == INSTANCE WebSocket

Init == which \in {"hpack", "ws"} /\ H!Init /\ W!Init

Next == \/ which = "hpack" /\ H!Next /\ UNCHANGED <<which, wvars>>
        \/ which = "ws" /\ W!Next /\ UNCHANGED <<which, hvars>>

Spec == Init /\ [][Next]_<<which, hvars, wvars>>

\* As long as the client does none of six legal things hpack.c does not follow,
\* its table is the encoder's and every field decodes as it was sent.
TablesInSync == H!TablesInSync

\* The byte count of hpack.c's table is that of its entries, within the capacity.
TableBounded == H!TableBounded

\* Through ws.c the application gets the client's messages whole and in order, and
\* pings and the close are answered.
ConversationFaithful == W!ConversationFaithful

\* ws.c rejects only a frame that is forbidden or larger than a buffer.
GoodFramesRead == W!GoodFramesRead
=============================================================================
