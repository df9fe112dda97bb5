---------------------------- MODULE MCCliConfig ----------------------------
(***************************************************************************)
(* Three runs of the program; every kind of key, with a text it accepts    *)
(* and one it refuses or reads otherwise than written. "9..9" stands for   *)
(* more digits than a number can hold.                                     *)
(***************************************************************************)
EXTENDS CliConfig, Integers

MCDefaultConfig ==
  [programId |-> "", walletPath |-> "id.json", commitment |-> "confirmed", maxRetries |-> 3,
   confirmTimeout |-> 30, skipPreflight |-> FALSE]

MCAbsent == [text |-> "none"]
MCTorn == [text |-> "no JSON"]

\* What parseInt makes of a text.
NaN == -1000
MCTexts == [t \in {"5x", "-1", "0", "often", "9..9", "true", "yes", "finalized", "soon",
                    "k.json"} |->
              CASE t = "5x" -> 5 [] t = "-1" -> -1 [] t = "0" -> 0 [] t = "9..9" -> Infinite
                [] OTHER -> NaN]

MCSettings ==
  {<<"wallet", "k.json">>, <<"commitment", "finalized">>, <<"commitment", "soon">>,
   <<"maxRetries", "5x">>, <<"maxRetries", "-1">>, <<"maxRetries", "often">>,
   <<"maxRetries", "9..9">>,
   <<"confirmTimeout", "0">>, <<"skipPreflight", "true">>, <<"skipPreflight", "yes">>,
   <<"colour", "soon">>}
=============================================================================
