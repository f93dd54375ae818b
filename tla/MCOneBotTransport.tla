-------------------------- MODULE MCOneBotTransport --------------------------
(* Small instances of OneBotTransport: one bot that reconnects, and calls that *)
(* share one permit.                                                           *)
EXTENDS OneBotTransport

CONSTANTS bot

OneBot == {bot}
MCBotOf == [k \in Connections |-> bot]

(* A message and another action; three messages: one is under way, one waits, *)
(* one arrives.                                                               *)
Sharing == [connections |-> MaxConnections, actions |-> {1}, messages |-> {2}]
InLine == [connections |-> 2, actions |-> {}, messages |-> {1, 2, 3}]
Scenarios == {Sharing, InLine}
OnlySharing == {Sharing}
==============================================================================
