---------------------------- MODULE FilterService ----------------------------
(***************************************************************************)
(* What the pythonfilter daemon promises to the clients of its socket.     *)
(* While the service is up a client may connect; once it has asked it is   *)
(* answered once, unless it is dropped, and it is dropped only for asking  *)
(* nonsense, when the service closes its door before taking the connection *)
(* over, when the grace period of a shutdown is over, or when the process  *)
(* crashes.                                                                *)
(***************************************************************************)
CONSTANT Conns

VARIABLES
  service,  \* "down", "up", "draining" or "crashed"
  client,   \* each connection as its client sees it
  asked,    \* what each client has asked: "awaited", "whole" or "bad"
  late      \* the grace period of a shutdown is over

vars == <<service, client, asked, late>>

Waiting == {c \in Conns : client[c] = "connected"}

\* The clients in S, all waiting, see their socket closed unanswered.
DropAll(S) ==
  client' = [c \in Conns |-> IF c \in S THEN "dropped" ELSE client[c]]

Init ==
  /\ service = "down" /\ late = FALSE
  /\ client = [c \in Conns |-> "idle"]
  /\ asked = [c \in Conns |-> "awaited"]

Open ==
  /\ service = "down" /\ service' = "up"
  /\ UNCHANGED <<client, asked, late>>

Connect(c) ==
  /\ service = "up" /\ client[c] = "idle"
  /\ client' = [client EXCEPT ![c] = "connected"]
  /\ UNCHANGED <<service, asked, late>>

Ask(c) ==
  /\ client[c] = "connected" /\ asked[c] = "awaited"
  /\ \E what \in {"whole", "bad"} : asked' = [asked EXCEPT ![c] = what]
  /\ UNCHANGED <<service, client, late>>

HangUp(c) ==
  /\ client[c] = "connected"
  /\ client' = [client EXCEPT ![c] = "gone"]
  /\ UNCHANGED <<service, asked, late>>

Answer(c) ==
  /\ service \in {"up", "draining"}
  /\ client[c] = "connected" /\ asked[c] = "whole"
  /\ client' = [client EXCEPT ![c] = "answered"]
  /\ UNCHANGED <<service, asked, late>>

\* One who asked nonsense is not answered.
Refuse(c) ==
  /\ service \in {"up", "draining"}
  /\ client[c] = "connected" /\ asked[c] = "bad"
  /\ DropAll({c})
  /\ UNCHANGED <<service, asked, late>>

CloseDoor ==
  /\ service = "up" /\ service' = "draining"
  /\ \E S \in SUBSET Waiting : DropAll(S)
  /\ UNCHANGED <<asked, late>>

GraceOver ==
  /\ service = "draining" /\ late' = TRUE
  /\ UNCHANGED <<service, client, asked>>

Stop ==
  /\ service = "draining" /\ service' = "down"
  /\ Waiting = {} \/ late
  /\ DropAll(Waiting)
  /\ UNCHANGED <<asked, late>>

Crash ==
  /\ service' = "crashed"
  /\ DropAll(Waiting)
  /\ UNCHANGED <<asked, late>>

\* The program is started again.
Reset ==
  /\ service \in {"down", "crashed"}
  /\ service' = "down" /\ late' = FALSE
  /\ UNCHANGED <<client, asked>>

Next ==
  \/ Open \/ CloseDoor \/ GraceOver \/ Stop \/ Crash \/ Reset
  \/ \E c \in Conns : Connect(c) \/ Ask(c) \/ HangUp(c) \/ Answer(c) \/ Refuse(c)

Spec == Init /\ [][Next]_vars
=============================================================================
