----------------------------- MODULE LedgerBank -----------------------------
(***************************************************************************)
(* FPLedger implements Bank: as long as no command fails and every payer's *)
(* transactions reach one worker, the two INCRBY of a transfer and the     *)
(* INCRBYs of initBalance look like single atomic steps to whoever adds to *)
(* a balance the credits that are on their way; and a worker that dies     *)
(* costs at most the step it was in the middle of.                         *)
(***************************************************************************)
EXTENDS FPLedger

\* What the first block brings to account x.
Genesis0(x) == SumFunction([i \in DOMAIN GenesisTxs |-> Effect(GenesisTxs[i], x)])

\* The part of it that initBalance has not applied yet: all of it until some
\* worker has the block, then what is left of that worker's balanceMap.
Unapplied(x) ==
  IF lock[INITBALANCE] = NoId \/ \E w \in Worker : pc[w] = "walk" THEN Genesis0(x)
  ELSE SumFunction([w \in Worker |->
         IF \E p \in todo[w] : p.key = x
           THEN (CHOOSE p \in todo[w] : p.key = x).by ELSE 0])

\* Debited from some payer and not yet credited to account x.
Underway(x) ==
  SumFunction([w \in Worker |-> IF pc[w] = "credit" /\ cur[w].to = x THEN cur[w].value ELSE 0])

\* The refinement mapping: a transfer takes place at its debit.
bank == INSTANCE Bank WITH
  Opening <- [x \in Account |-> Genesis0(x)],
  funds   <- [x \in Account |-> balance[x] + Unapplied(x) + Underway(x)],
  applied <- {tx \in Transaction : Carried(tx)}

\* handleTransaction and initBalance of any number of interleaved workers implement
\* the bank: no transaction is carried out twice or half, or without cover unless its
\* payer was drained by a negative amount, the genesis funds appear once, and only the
\* death of a worker, and then only in the middle of a transfer or of initBalance,
\* leaves a debit without credit or accounts without funds.
ImplementsBank == bank!Spec
=============================================================================
