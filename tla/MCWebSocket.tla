------------------------------ MODULE MCWebSocket ------------------------------
(* WebSocket with few frames: two towards the server, where frames may be     *)
(* held, one towards the client, and one injected frame.                      *)
EXTENDS WebSocket

MCSends == [d \in Pumps |-> IF d = "c2s" THEN 2 ELSE 1]

==============================================================================
