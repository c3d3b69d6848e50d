----------------------------- MODULE MCWsReader ----------------------------
(* Small streams for WsReader. *)
EXTENDS WsReader

F(kind, ext, masked, len) ==
  [kind |-> kind, fin |-> TRUE, ext |-> ext, masked |-> masked, len |-> len]
Unfinished(f) == [f EXCEPT !.fin = FALSE]

\* A job, pings and pongs with and without payload, an empty message, a masked
\* job with an extended length, and a close with something behind it.
Mixed ==
  <<F("data", 0, FALSE, 2), F("ping", 0, FALSE, 1), F("pong", 0, FALSE, 1),
    F("data", 0, FALSE, 0), Unfinished(F("ping", 2, FALSE, 0)), F("pong", 0, FALSE, 0),
    F("data", 2, TRUE, 3), F("close", 0, FALSE, 0), F("data", 0, FALSE, 1)>>

\* Jobs with something the reader refuses between them.
Refusing(f) == <<F("data", 0, FALSE, 1), f, F("data", 0, FALSE, 1)>>

AllStreams ==
  {Mixed, Refusing(F("ping", 2, FALSE, 2)), Refusing(F("pong", 0, FALSE, 2)),
   Refusing(Unfinished(F("data", 0, TRUE, 1))), Refusing(Unfinished(F("pong", 0, FALSE, 1))),
   Refusing(F("data", 8, FALSE, 4))}

OneJob == {<<F("data", 0, FALSE, 2), F("data", 0, FALSE, 1)>>}
=============================================================================
