------------------------- MODULE MCPaymentAcceptance ------------------------
(* Instances of PaymentAcceptance for TLC. *)
EXTENDS PaymentAcceptance, TLC

CONSTANTS k1, k2, coffee, book

\* Two spellings of the first key, a second key and a blank header.
MCHeaders == {"k1", " k1 ", "k2", " "}
MCKey == ("k1" :> k1) @@ (" k1 " :> k1) @@ ("k2" :> k2) @@ (" " :> Invalid)

\* Two spellings of the same payment, another payment and an invalid body.
MCBodies == {"coffee in usd", "coffee in USD", "book", "amount 0"}
MCContent == ("coffee in usd" :> coffee) @@ ("coffee in USD" :> coffee)
             @@ ("book" :> book) @@ ("amount 0" :> Invalid)

=============================================================================
