----------------------------- MODULE MCThreads ------------------------------
(* A response of every shape: plain text with reasoning, a tool call, and  *)
(* the output of the tool.                                                 *)
EXTENDS Threads

CONSTANTS c1, c2

MCContent == [i \in Ids |->
    CASE i % 3 = 1 -> [input |-> <<"user", "user">>,
                       output |-> <<"reasoning", "assistant">>]
      [] i % 3 = 2 -> [input |-> <<"user">>, output |-> <<"call">>]
      [] OTHER -> [input |-> <<"output">>, output |-> <<"assistant">>]]

\* Lists of more than three items stand for those of more than twelve.
MCShuffle == [n \in {4} |-> <<3, 1, 4, 2>>]
=============================================================================
