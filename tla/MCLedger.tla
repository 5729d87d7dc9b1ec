------------------------------ MODULE MCLedger ------------------------------
(***************************************************************************)
(* Small instances of FPLedger for TLC: two accounts, of which s is the    *)
(* super wallet of the genesis block, and transactions that compete for    *)
(* the same balance.                                                       *)
(***************************************************************************)
EXTENDS LedgerBank, TLC

CONSTANTS w1, w2, s, a, g

\* The tx of init_super_wallet: nobody pays, the super wallet gets 2.
MCGenesisTxs == <<[id |-> g, from |-> NoAddress, to |-> s, value |-> 2]>>

Pay(n, from, to, value) == [id |-> n, from |-> from, to |-> to, value |-> value]

\* A payment of all that s has; one of a negative amount at the other worker, which
\* takes from s although a "pays"; and one without a payer.
ThreePayments == {Pay(1, s, a, 2), Pay(2, a, s, -1), Pay(3, NoAddress, a, 1)}

\* Two payments that s cannot both afford.
TwoPayments == {Pay(1, s, a, 2), Pay(2, s, a, 1)}

\* Distinct ids, as the master gives them; the same id for everybody, as
\* standalone servers started with the default flag have.
OwnIds == [w \in Worker |-> w]
SameId == [w \in Worker |-> w1]

\* Clients send every transaction of one payer to one worker (session id is a
\* hash of the payer); miners forward with session id -1, so a payer's
\* transactions may reach two workers.
ByPayer == [x \in Address |-> IF x = s THEN {w1} ELSE {w2}]
ByPayerAndForwarded == [x \in Address |-> {w1, w2}]
=============================================================================
