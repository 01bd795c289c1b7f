-------------------------- MODULE MCWarningFooter --------------------------
(* A small instance of WarningFooter for TLC: two slots more than alerts of  *)
(* the longest bulletin, headings that repeat, pieces that two bulletins     *)
(* share, an alert without a text and one that has ended.                    *)
EXTENDS WarningFooter

MCTexts == {"wind", "snow", "x", "y", "z"}
MCWide == {"x", "wind"}
MCPeriod == [t \in MCTexts |-> IF t \in MCWide THEN 3 ELSE 2]

Alert(title, text) == [title |-> title, text |-> text, live |-> TRUE]
Ended(title, text) == [title |-> title, text |-> text, live |-> FALSE]
Wind == Alert("wind", <<"x", "y", "z">>)
Snow == Alert("snow", <<"x", "z">>)

MCForecasts ==
    {<<>>, <<Wind>>, <<Snow, Wind>>, <<Wind, Snow>>,
     <<Ended("snow", <<"z">>), Wind>>,
     <<Wind, Alert("wind", <<"y", "wind">>), Alert("snow", <<>>)>>,
     <<Alert("z", <<"z", "y">>), Alert("y", <<"x">>), Snow, Wind>>}
=============================================================================
