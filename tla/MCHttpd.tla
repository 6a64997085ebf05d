------------------------------ MODULE MCHttpd ------------------------------
EXTENDS Httpd

CONSTANTS r1, r2

Get  == [method |-> "GET", head |-> 3, length |-> 0, text |-> <<"x", "\n", "\n">>]
Get2 == [method |-> "GET", head |-> 5, length |-> 0,
         text |-> <<"x", "\n", "x", "\n", "\n">>]
Bad  == [Get EXCEPT !.method = "BAD"]

(* A POST of n, followed by one more token on the wire.                    *)
Letters == <<"a", "b", "c", "d", "e", "f", "g", "h", "i", "j">>
Post(n) == [method |-> "POST", head |-> 3, length |-> n,
            text |-> <<"x", "\n", "\n">> \o SubSeq(Letters, 1, n) \o <<"z">>]

Known(n, size) == [kind |-> "known", length |-> n, file |-> SubSeq(<<"1", "2", "3", "4", "5", "6", "7", "8", "9">>, 1, size)]
Chunked(size) == [Known(0, size) EXCEPT !.kind = "chunked"]

AllBodies == {NoBody, Known(2, 3), Known(7, 6), Chunked(3)}
OneBody   == {NoBody}
ChunkBody == {Chunked(3)}

(* One client after the other sends anything; the second nothing useful.   *)
AllWires == {[r \in Rqsts |-> IF r = r1 THEN t ELSE Bad] :
               t \in {Get2, Post(1), Post(9)}}
GetWires == [Rqsts -> {Get, Get2}]

Clean     == {<<>>}
StrayLine == {<<>>, <<"\n">>}
=============================================================================
