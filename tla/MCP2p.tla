-------------------------------- MODULE MCP2p --------------------------------
(***************************************************************************)
(* P2p for TLC: two-valued bytes, so that an address is 4 bits and a port  *)
(* 2; string buffers of at most two characters, of which a size of 5 asks  *)
(* for more; three milliseconds a second.                                  *)
(***************************************************************************)
EXTENDS P2p

MCTexts == {<<>>, <<"a", "b", "c">>}
MCSenders == {<<2, 1>>}
MCTimeouts == {-11, -3, -1, 0, 2, 3, 10, 11}
MCOthers ==
    {{"memory", "buffers"}, {"memory", "files"}, {"buffers", "files"}, {"modes"},
     {"addresses", "datagrams"}, {"addresses", "streams"}, {"datagrams", "sets"}}
=============================================================================
