------------------------------ MODULE MCServer ------------------------------
(***************************************************************************)
(* Values for the constant Responses of module Server.                     *)
(***************************************************************************)
EXTENDS Server

HandlersThatFit == [size : {"fits"}, keep : BOOLEAN]
LargeHandlers   == [size : {"fits", "oversize"}, keep : BOOLEAN]
AllHandlers     == Response
=============================================================================
