--------------------------- MODULE MCBitassetMarket ---------------------------
(* A bitasset with one feed producer, who is also its issuer.  The amounts are  *)
(* small and odd enough for rounding, dust, partial fills, margin calls, global *)
(* settlements of each kind and revivals of each kind.                          *)
EXTENDS BitassetMarket, TLC

CONSTANTS alice, issuer

MCCore == [a \in Accounts |-> 8]
MCOffers == {<<"usd", 3, 2>>, <<"usd", 1, 1>>, <<"core", 4, 4>>}
MCDeltas == {<<2, 2>>, <<4, 3>>, <<1, 0>>, <<-2, -2>>}
MCBids == {<<1, 2>>, <<1, 3>>, <<0, 0>>}
MCPrices == {<<2, 1>>, <<1, 1>>, Null}
MCSwanPrices == {<<2, 1>>}
MCProducerSets == {{}}
===============================================================================
