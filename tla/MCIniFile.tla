------------------------------ MODULE MCIniFile ------------------------------
(* Files of two sections and two keys, written with and without blanks and   *)
(* comments, and lines with a delimiter too few or too many.                 *)
EXTENDS IniFile

Blank(text) == [kind |-> "blank", name |-> <<>>, value |-> <<>>, text |-> text]
Comment(text) == [kind |-> "comment", name |-> <<>>, value |-> <<>>, text |-> text]
Header(n, pad) ==
    [kind |-> "header", name |-> n, value |-> <<>>,
     text |-> <<"[">> \o pad \o n \o pad \o <<"]">> \o pad]
Item(k, v, pad, note) ==
    [kind |-> "entry", name |-> k, value |-> v,
     text |-> pad \o k \o pad \o <<"=">> \o pad \o v \o note]
Odd(text) == [kind |-> "odd", name |-> <<>>, value |-> <<>>, text |-> text]

Lines ==
    { Blank(<<" ">>),
      Comment(<<" ", ";", "port", "=", "tx">>),
      Header(<<"SIP">>, <<>>), Header(<<"UDP">>, <<" ">>),
      Item(<<"port">>, <<"5060">>, <<>>, <<>>),
      Item(<<"port">>, <<"15000">>, <<" ">>, <<" ", ";", "0", "=", "1">>),
      Item(<<"host">>, <<"my", " ", "host">>, <<" ">>, <<"#", "port">>),
      Item(<<"host">>, <<>>, <<>>, <<" ">>),
      Odd(<<"=", "=">>), Odd(<<"=", " ", "=", "tx">>),
      Odd(<<"[">>) }

Settings == <<  <<<<"SIP">>, <<"port">>>>, <<<<"SIP">>, <<"host">>>>, <<<<"UDP">>, <<"port">>>> >>
=============================================================================
