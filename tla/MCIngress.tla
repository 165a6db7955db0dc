----------------------------- MODULE MCIngress -----------------------------
(* Two or three events of one or two senders, in the mixes that bring lanes, *)
(* gates, claims and locks together.                                        *)
EXTENDS Ingress, TLC

CONSTANTS a, b, c, x, y, original

Of(p, q, r) == a :> p @@ b :> q @@ c :> r

Plain == [sender |-> Of(x, x, x), kind |-> Of("text", "text", "text"),
          thread |-> Of(NoThread, NoThread, NoThread), alias |-> Of({}, {}, {}),
          roomMode |-> FALSE, offered |-> {a, b, c}, maxFaults |-> 0]

\* Two relays of one original behind a message of the same requester.
Relays == [Plain EXCEPT !.kind = Of("text", "relay", "relay"),
                        !.alias = Of({}, {original}, {original})]

\* The first of the two relays may fail.
Retried == [Relays EXCEPT !.offered = {b, c}, !.maxFaults = 1]

\* An original and two relays of it, all offered to one agent.
Routed == [Plain EXCEPT !.kind = Of("text", "relay", "relay"), !.alias = Of({}, {a}, {a})]

\* An original and its relay, one of which may fail.
Reroute == [Routed EXCEPT !.offered = {a, b}, !.maxFaults = 1]

\* Uploads, and a thread started on the first of them.
Uploads == [Plain EXCEPT !.kind = Of("media", "media", "text"),
                         !.thread = Of(NoThread, NoThread, a)]

\* A conversation in a thread that several people and a voice message join.
Threaded == [Plain EXCEPT !.sender = Of(x, y, x), !.kind = Of("text", "text", "voice"),
                          !.thread = Of(NoThread, a, a)]

\* The whole room is one conversation.
Shared == [Plain EXCEPT !.sender = Of(x, y, x), !.kind = Of("text", "media", "relay"),
                        !.alias = Of({}, {}, {original}), !.roomMode = TRUE]

\* New threads by two people, and a command.
Threads == [Plain EXCEPT !.sender = Of(x, x, y), !.kind = Of("text", "command", "text")]

\* A voice message in a thread whose transcription or settlement may fail.
Voices == [Plain EXCEPT !.kind = Of("text", "voice", "text"), !.thread = Of(NoThread, a, a),
                        !.offered = {a, b}, !.maxFaults = 1]

MCTraffics == {Relays, Retried, Routed, Reroute, Uploads, Threaded, Shared, Threads, Voices}
=============================================================================
