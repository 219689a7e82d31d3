------------------------------- MODULE MCHandles -------------------------------
(***************************************************************************)
(* Two grammars that disagree on an input, one newParser refuses, an input *)
(* the engine panics on, a slow one, and arguments goBytes refuses.        *)
(***************************************************************************)
EXTENDS HandlesProperties, TLC

MCGrammars == {"lists", "maps", "junk", "badptr"}
MCInputs == {"list", "crash", "long", "badptr"}
MCUnreadable == {"badptr"}
MCInstallable == {"lists", "maps"}

MCVerdict ==
    [run \in MCGrammars \X MCInputs |->
        CASE run = <<"lists", "list">> -> "value"
          [] run = <<"maps", "crash">> -> "panic"
          [] run = <<"lists", "crash">> -> "internal"
          [] run[2] = "long" -> "value"
          [] OTHER -> "error"]
================================================================================
