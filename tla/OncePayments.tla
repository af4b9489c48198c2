---------------------------- MODULE OncePayments ----------------------------
(***************************************************************************)
(* What promo codes and token events promise: an offer pays an account at  *)
(* most once, at most as many accounts as it allows, and nothing else      *)
(* credits anybody.  Module TokenSources is shown to implement this.       *)
(***************************************************************************)
EXTENDS Integers, FiniteSetsExt

CONSTANTS
  Payees,      \* accounts
  Offers       \* records [kind, gen, amount, cap]

VARIABLES
  issued,      \* offers made so far
  paid,        \* pairs <<account, offer>>
  credit       \* tokens credited to each account

PaidTo(o) == {u \in Payees : <<u, o>> \in paid}

Worth(due) == MapThenSumSet(LAMBDA o : o.amount, due)

Issue(o) ==
  /\ o \notin issued
  /\ issued' = issued \cup {o}
  /\ UNCHANGED <<paid, credit>>

\* Pay a set of offers at once, each of them for the first time.
Pay(u, due) ==
  /\ due \subseteq issued
  /\ \A o \in due : u \notin PaidTo(o) /\ Cardinality(PaidTo(o)) < o.cap
  /\ paid' = paid \cup {<<u, o>> : o \in due}
  /\ credit' = [credit EXCEPT ![u] = @ + Worth(due)]
  /\ UNCHANGED issued

PaymentsInit ==
  /\ issued = {} /\ paid = {}
  /\ credit = [u \in Payees |-> 0]

PaymentsNext ==
  \/ \E o \in Offers : Issue(o)
  \/ \E u \in Payees, due \in SUBSET issued : Pay(u, due)

PaymentsSpec == PaymentsInit /\ [][PaymentsNext]_<<issued, paid, credit>>
=============================================================================
