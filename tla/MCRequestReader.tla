-------------------------- MODULE MCRequestReader --------------------------
(* RequestReader for TLC: requests with and without query, body, fields.    *)
EXTENDS RequestReader

SomeSizes == [w \in {"GET", "PUT", "POST", "PATCH", "HTTP", "Host", "x"} |->
                CASE w = "x" -> 1 [] w \in {"GET", "PUT"} -> 3 [] w = "PATCH" -> 5 [] OTHER -> 4]

Args == {<<>>,
         <<[key |-> <<"x">>, value |-> <<"Host">>]>>,
         <<[key |-> <<"x", "1">>, value |-> <<"Host">>], [key |-> <<"Host">>, value |-> <<>>]>>,
         <<[key |-> <<"x">>, value |-> <<>>], [key |-> <<"Host">>, value |-> <<"dot", "eq">>]>>}

Field(n, v) == [name |-> n, value |-> v]
SomeFields == {<<>>,
               <<Field(<<"Host">>, <<"x", "colon", "1">>)>>,
               <<Field(<<"Host">>, <<"x", "sp", "x">>), Field(<<"x">>, <<>>)>>,
               <<Field(<<"Host">>, <<>>), Field(<<"Host">>, <<"1">>)>>}

\* with a query, with a body, and with neither
SomeRequests ==
    [method : {"GET", "POST", "PUT"}, path : {<<"slash", "x", "dot", "x">>},
     inquery : {TRUE}, args : Args, fields : SomeFields, eol : LineEnd,
     lead : {<<"lf">>}, sep : {"amp"}, end : {<<>>}]
    \cup
    [method : {"POST"}, path : {<<"slash">>}, inquery : {FALSE}, args : Args,
     fields : {<<>>, <<Field(<<"Host">>, <<"1">>)>>}, eol : LineEnd, lead : {<<>>},
     sep : {"amp", "lf"}, end : {<<>>} \cup LineEnd]
    \cup
    [method : {"GET", "PUT"}, path : {<<"slash">>}, inquery : {FALSE}, args : {<<>>},
     fields : SomeFields, eol : LineEnd, lead : {<<>>}, sep : {"amp"}, end : {<<>>}]

SomeNoise == {"sp", "cr", "lf", "nul", "slash", "dot", "PATCH", "2"}
=============================================================================
