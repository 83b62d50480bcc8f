-------------------------------- MODULE Exchange --------------------------------
(***************************************************************************)
(* What the handlers of HTTP/1 (Http1) and HTTP/2 (Http2Stream) share: the *)
(* flow of an exchange and what the operator makes of it.                  *)
(***************************************************************************)

VARIABLES
    status,     \* capture.Status of the flow
    dropped     \* the operator dropped the request, the response or a part

Texts == {"original", "edited"}
Directions == {"request", "response"}

================================================================================
