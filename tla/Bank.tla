-------------------------------- MODULE Bank --------------------------------
(***************************************************************************)
(* What handleTransaction promises, without workers, Redis commands or     *)
(* their interleaving: a bank in which a submitted transaction either is   *)
(* carried out, at once and only once and only when the payer's funds      *)
(* cover it, or moves no money at all.  Amounts are signed: only an        *)
(* account to which a negative amount was paid can owe money, and it may   *)
(* go on paying.  A crash may cost the one transaction that is being       *)
(* carried out, or the opening of the bank.                                *)
(***************************************************************************)
EXTENDS Integers

CONSTANTS
  Account,      \* who owns funds
  Transaction,  \* records with fields from, to and value
  Opening       \* account -> its funds according to the genesis block

VARIABLES
  funds,        \* account -> amount
  applied,      \* the transactions carried out or given up
  crashes       \* how often somebody has crashed

vars == <<funds, applied, crashes>>

Init ==
  /\ funds = Opening
  /\ applied = {}
  /\ crashes = 0

\* A negative amount was paid to account x, which nobody asked.
Drained(x) == \E tx \in applied : tx.value < 0 /\ tx.to = x

\* One transfer.  The payer's funds cover it, or may have been drained since it was
\* accepted.  What is paid to an address that is no account leaves the bank.
Transfer(tx) ==
  /\ tx \notin applied
  /\ tx.from \in Account
  /\ funds[tx.from] >= tx.value \/ Drained(tx.from)
  /\ funds' = [x \in Account |-> funds[x] - (IF x = tx.from THEN tx.value ELSE 0)
                                          + (IF x = tx.to THEN tx.value ELSE 0)]
  /\ applied' = applied \cup {tx}
  /\ UNCHANGED crashes

\* A transaction is given up and moves no money.
GiveUp(tx) ==
  /\ tx \notin applied
  /\ applied' = applied \cup {tx}
  /\ UNCHANGED funds

\* The payee of a transaction that was carried out does not get the money.
LoseCredit(tx) ==
  /\ tx \in applied /\ tx.to \in Account
  /\ funds' = [funds EXCEPT ![tx.to] = @ - tx.value]
  /\ UNCHANGED applied

\* Some accounts are opened without their funds.
LoseOpening ==
  /\ \E xs \in SUBSET Account :
       funds' = [x \in Account |-> IF x \in xs THEN funds[x] - Opening[x] ELSE funds[x]]
  /\ UNCHANGED applied

\* A crash costs at most one of these.
Crash ==
  /\ crashes' = crashes + 1
  /\ \/ \E tx \in Transaction : GiveUp(tx) \/ LoseCredit(tx)
     \/ LoseOpening

Next == Crash \/ \E tx \in Transaction : Transfer(tx)

Spec == Init /\ [][Next]_vars
=============================================================================
