------------------------------- MODULE MCHid -------------------------------
(* The digit 6, a key that needs shift, a diagonal, and one key that types   *)
(* two characters, of which the first, ^, is the shifted 6.                  *)
EXTENDS Hid, TLC

MCKeyOrder == <<"6", "quote", "upright">>
MCCodes == ("6" :> <<35>>) @@ ("quote" :> <<52>>) @@ ("upright" :> <<82, 79>>)
MCTextOrder == <<"squ">>
MCText == "squ" :> <<[mods |-> {"shift"}, codes |-> {35}], [mods |-> {}, codes |-> {31}]>>
=============================================================================
