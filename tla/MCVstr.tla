-------------------------------- MODULE MCVstr --------------------------------
(* Strings of up to five bytes, three of which fit into the struct.         *)
EXTENDS Vstr

MCChars   == {"a", "b", NUL}
MCPieces  == UNION {[1 .. n -> MCChars] : n \in 0 .. 2} \cup {<<"a", "b", "a">>, <<"a", "a", "a", "b">>, <<"b", "b", "b", "b", "b", "b">>}
=============================================================================
