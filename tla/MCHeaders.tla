------------------------------ MODULE MCHeaders ------------------------------
EXTENDS Headers

\* Values of call headers: two that are valid, one empty, two with a separator.
MCValues == {<<"v">>, <<"w">>, <<>>, <<"v", ",", "w">>, <<"v", ":", "w">>}

\* One line without, and one whose value speaks of X-PH.
MCOtherLines == {<<"From", ":", " ", "alice">>, <<"To", ":", " ", "x-ph">>}

\* A name, none, a host with a port, a text with a comma in it and one at its end.
MCPushValues == {<<"a">>, <<>>, <<"host", ":", "5061">>, <<"a", ",", "b">>, <<"a", ",">>}

MCDomain == <<"phone.plivo.com">>

\* What HeadersArrive is proved under.
ASSUME MCOthers == OthersUnambiguous
==============================================================================
