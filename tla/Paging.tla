-------------------------------- MODULE Paging --------------------------------
(***************************************************************************)
(* What one response of a paged read may hold, for AWS Health (nextToken)  *)
(* and DynamoDB (LastEvaluatedKey) alike.  Both go through their keys in a *)
(* fixed order, a key being a number, its place in that order; a token is  *)
(* the key a response has come to, 0 asks for the first page.  A response  *)
(* with a token may hold fewer entries than asked for, even none.          *)
(***************************************************************************)
EXTENDS Naturals

Between(listed, token, next) == {k \in listed : token < k /\ k <= next}

\* What the response without a token holds.
Beyond(listed, token) == {k \in listed : token < k}
=============================================================================
