---------------------------- MODULE MCConverter -----------------------------
(***************************************************************************)
(* Logs of keys, of mouse movements, of both and of many objects.  "w1"    *)
(* and "w2" have the same last part, "w2" and "w3" the same last two; "s0" *)
(* is called like a string variable.                                       *)
(***************************************************************************)
EXTENDS Converter

MCTargets == {"w1", "w2", "w3", "s0", "drag"}
MCInternal == {"drag"}
MCKeywords ==
    [t \in MCTargets |->
        CASE t = "w1" -> <<"p", "w">>
          [] t \in {"w2", "w3"} -> <<"q", "w">>
          [] t = "s0" -> <<"string0">>
          [] t = "drag" -> <<"drag">>]

Typing ==
    {Key("pressKey", "w1", "text", FALSE, 1),
     Key("pressKey", "w1", "text", FALSE, 2),
     Key("pressKey", "w2", "text", FALSE, 1),
     Key("pressKey", "w1", "back", FALSE, 0),
     Key("pressKey", "w1", "text", TRUE, 1),
     Key("releaseKey", "w1", "text", FALSE, 1),
     Key("releaseKey", "w2", "none", FALSE, 0),
     Event("other", "w1")}
Pointing ==
    {Event("moveMouse", "w1"), Event("moveMouse", "w2"),
     Event("moveMouse", "drag"), Event("other", "w1"),
     Event("other", "drag"), Key("pressKey", "w1", "text", FALSE, 1)}
Naming ==
    {Event("other", "w1"), Event("other", "w2"), Event("other", "w3"),
     Event("other", "s0"), Key("pressKey", "w1", "text", FALSE, 1),
     Key("releaseKey", "w1", "text", FALSE, 1)}
Mixed ==
    {Event("moveMouse", "w1"), Key("pressKey", "w1", "text", FALSE, 1),
     Key("releaseKey", "w1", "text", FALSE, 1)}
MCAlphabets == {Typing, Pointing, Naming, Mixed}
MCStringNames == <<"string0", "string1", "string2", "string3">>

MCOptionSets ==
    {{}, {"SimplifyMouseMovements"}, {"SimplifyStrings"},
     {"ObjectVariables"}, {"SkipMouseMovements"},
     {"SkipMouseMovements", "SimplifyStrings"},
     {"SimplifyStrings", "StringVariables"},
     {"FilterQtInternals", "SimplifyMouseMovements", "SimplifyStrings",
      "ObjectVariables", "StringVariables"},
     Range(PostProcessors)}
=============================================================================
