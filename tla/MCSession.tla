----------------------------- MODULE MCSession -----------------------------
(***************************************************************************)
(* Session for TLC: transactions of two services, of one and of none.      *)
(* "change" is the spelling of app.cc's comment, which add does not know.  *)
(***************************************************************************)
EXTENDS Session

CONSTANTS s1, s2

MCServer == {s1, s2}
MCTransType == {"buy", "view", "unknown"}
MCtransInfo ==
  [type \in MCTransType |->
     CASE type = "buy" -> {s1, s2} [] type = "view" -> {s1} [] type = "unknown" -> {}]
MCVerb == {"add", "delete", "change"}
============================================================================
