----------------------------- MODULE MCGateway -----------------------------
(* A gateway with two funds, one of them in the table twice, whose batch    *)
(* takes two chunks of which the last is shorter, and a market of one       *)
(* symbol that comes, goes and moves.                                       *)
EXTENDS Gateway

MCUniverse == <<"a", "a", "b">>

MCQuotes == {[price |-> 1, bids |-> <<1, 2>>, asks |-> <<>>],
             [price |-> 2, bids |-> <<>>, asks |-> <<3>>]}
=============================================================================
