------------------------------- MODULE MCMount -------------------------------
(***************************************************************************)
(* Mount for TLC: command lines in and out of order, scripts with outputs  *)
(* that are refused, missing or broken, and names of every kind.           *)
(***************************************************************************)
EXTENDS Mount

CONSTANTS w1, w2

MCCommandLines ==
  {<<"script", "directory">>, <<"script", "-s", "directory", "-f">>, <<"-f", "script", "directory">>,
   <<"script">>, <<"script", "directory", "other">>}

MCScripts ==
  {<<>>, <<"good">>, <<"good", "good">>, <<"good", "refused", "good">>,
   <<"good", "unset", "good">>, <<"good", "broken">>}

Node(i)  == [prefix |-> TRUE, stoi |-> "number", number |-> i, exact |-> TRUE]
Alias(i) == [prefix |-> TRUE, stoi |-> "number", number |-> i, exact |-> FALSE]
Odd(why) == [prefix |-> TRUE, stoi |-> why, number |-> 0, exact |-> FALSE]

\* node_0, node_1, node_1x, node_-1, node_x, node_99999999999 and another.
MCNames ==
  {Node(0), Node(1), Alias(1), Alias(-1), Odd("invalid"), Odd("range"),
   [prefix |-> FALSE, stoi |-> "invalid", number |-> 1, exact |-> FALSE]}
=============================================================================
