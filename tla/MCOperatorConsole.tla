-------------------------- MODULE MCOperatorConsole --------------------------
(* A checked instance of OperatorConsole: one task of a VIP that the search finds,
   and one without exposure that is due earlier. *)
EXTENDS OperatorConsole, TLC

Minutes == (1 :> 18) @@ (2 :> 12)
Amounts == (1 :> 284) @@ (2 :> -1)
Ranks == (1 :> 0) @@ (2 :> 2)
Inputs == {"", "maria", "maria "}
Trimmed == ("" :> "") @@ ("maria" :> "maria") @@ ("maria " :> "maria")
Found == ("" :> {1, 2}) @@ ("maria" :> {1}) @@ ("maria " :> {1})
==============================================================================
