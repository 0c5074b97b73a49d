--------------------------- MODULE MCWebSocketHub ---------------------------
(***************************************************************************)
(* Small instances of WebSocketHub.  The compiled handlers are those of    *)
(* the chat examples of docs/LANGUAGE_SPECIFICATION.md (9.1 and 9.2).      *)
(***************************************************************************)
EXTENDS WebSocketHub

None == <<>>
RoomConnect    == <<"join", "bcastRoom">>
RoomMessage    == <<"bcastRoom">>
RoomDisconnect == <<"bcastRoom", "leave">>
=============================================================================
