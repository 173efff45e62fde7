------------------------- MODULE MCHttp2Connection -------------------------
(* TLC instance of Http2Connection: a request with a body and one without share a connection. *)
EXTENDS Http2Connection

MCBody == <<2, 0>>
MCMaxReply == <<<<2, 0>>, <<2, 0>>, <<0, 0>>>>
MCMaxFaults == <<2, 2, 1>>
=============================================================================
