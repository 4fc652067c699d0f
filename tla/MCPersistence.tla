--------------------------- MODULE MCPersistence ---------------------------
(***************************************************************************)
(* Instances of the life of the server for TLC: two keys of one byte and   *)
(* two values of one byte, so that a line has four bytes.                  *)
(***************************************************************************)
EXTENDS Persistence, TLC

MCKey == {<<"a">>, <<"b">>}
MCVal == {<<"v">>, <<"w">>}
MCVal1 == {<<"v">>}
MCGarbage == {<<"NUL">>, <<"v">>, <<"SP">>}
MCGarbage1 == {<<"NUL">>}
MCByteRank == ("NUL" :> 0) @@ ("NL" :> 1) @@ ("SP" :> 2) @@ ("a" :> 3) @@ ("b" :> 4)
              @@ ("v" :> 5) @@ ("w" :> 6)

\* The properties promise nothing once a torn file is the data file: what the
\* server does with one is not followed.
Undamaged == ~ damaged

\* Of a process that has ended only the data file is left.
View == IF phase \in Ended THEN <<phase, file, saved, damaged>> ELSE vars
=============================================================================
