----------------------------- MODULE MCStealth -----------------------------
(***************************************************************************)
(* Two recipients and two ephemeral keys; the tags of the recipients       *)
(* collide for one of the keys.  One resolved address already makes a      *)
(* registry unreadable (in the code, more than 78).                        *)
(***************************************************************************)
EXTENDS StealthClient

MCKeys == {"view", "spend"} \X Owners
MCViewTagOf ==
  [s \in Ephemerals \X MCKeys |-> IF s[1] = "e1" \/ s[2] = <<"view", "o1">> THEN 0 ELSE 1]
MCRanges == {<<0, 0>>, <<2, 0>>, <<0, 1>>}
=============================================================================
