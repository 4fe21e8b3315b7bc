------------------------------ MODULE MCHttpServer ------------------------------
(***************************************************************************)
(* HttpServer for TLC: two requests out of a handful, a body that looks    *)
(* like line breaks, and each way for a request to be malformed.           *)
(***************************************************************************)
EXTENDS HttpServer

GetA == [kind |-> "proto", method |-> "GET", path |-> <<"a">>]
PutB == [kind |-> "proto", method |-> "PUT", path |-> <<"a", "b">>]
GetC == [kind |-> "proto", method |-> "GET", path |-> <<"c">>]
BadProto == [kind |-> "words"]
BadMethod == [kind |-> "proto", method |-> "BREW", path |-> <<"c">>]

Host == [kind |-> "header", name |-> "Host"]
NoColon == [kind |-> "text"]
ContentLengthIs(n) == [kind |-> "length", name |-> "Content-Length", value |-> n]
Data == [kind |-> "data"]

Request(proto, headers, body) == [proto |-> proto, headers |-> headers, body |-> body]

MCGood == {Request(GetA, <<>>, <<>>),
           Request(PutB, <<Host, ContentLengthIs(2)>>, <<Data, Data>>),
           Request(PutB, <<ContentLengthIs(2)>>, <<CR, LF>>),
           Request(GetC, <<Host>>, <<>>)}

MCBad == {Request(BadProto, <<>>, <<>>),
          Request(BadMethod, <<>>, <<>>),
          Request(GetA, <<NoColon>>, <<>>),
          Request(GetA, <<Host, Host>>, <<>>),
          Request(GetA, <<ContentLengthIs(NotANumber)>>, <<Data>>),
          Request(GetA, <<ContentLengthIs(-1)>>, <<>>)}

MCRequests == MCGood \cup MCBad

MCMappings == <<[methods |-> {"GET"}, mode |-> Start, filter |-> <<"a">>],
                [methods |-> {"GET"}, mode |-> Full, filter |-> <<"a">>],
                [methods |-> {"GET", "PUT"}, mode |-> Start, filter |-> <<"a">>],
                [methods |-> {"PUT"}, mode |-> Full, filter |-> <<"a", "b">>]>>

\* Segments of any length, none of them full.
MCBigChunk == 30
MCSmallChunk == 4
MCMaxRequests == 2

MCBetweenLines(token) == token \notin {CR, LF}
MCAnywhere(token) == TRUE
================================================================================
