---------------------------- MODULE MCAgentCalls ----------------------------
(***************************************************************************)
(* Instances of AgentCalls for TLC: chats that share a tool host, and sends *)
(* on one session through one or two of its handles.                        *)
(***************************************************************************)
EXTENDS AgentCalls, TLC

CONSTANTS c1, c2, c3, t1, t2, m1, m2, s1, h1, h2

\* m1 is a stdio server for t1, m2 a server that is recorded only.
MCTransport == [m \in Mount |-> IF m = m1 THEN "stdio" ELSE "sse"]
MCServes    == [m \in Mount |-> IF m = m1 THEN {t1} ELSE {}]

\* Chats only: nobody has a session.
Chats      == [c \in Call |-> NoSession]
OneHandle  == [c \in Call |-> h1]

\* c1 and c2 send on the same handle, c3 on a clone.
Sends      == [c \in Call |-> s1]
WithClone  == [c \in Call |-> IF c = c3 THEN h2 ELSE h1]

NoOverride == [c \in Call |-> {}]
\* c2's request names a tool of its own.
OwnTools   == [c \in Call |-> IF c = c2 THEN {t2} ELSE {}]

\* c3 may take no turn at all, c2 one, c1 two.
FewTurns   == [c \in Call |-> CASE c = c1 -> 2 [] c = c2 -> 1 [] OTHER -> 0]
OneTurn    == [c \in Call |-> 1]
TwoTurns   == [c \in Call |-> 2]

Tokens == {-1, 2, NoUsage}
Two    == {2}
One    == {1}
=============================================================================
