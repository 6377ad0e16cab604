------------------------------- MODULE MCPipe -------------------------------
(* Pipe with one string, of more bytes than the pipe has room for. *)
EXTENDS Pipe

MCByte == {"a", "b"}
MCStrings == {<<"a", "b", "b">>}
=============================================================================
