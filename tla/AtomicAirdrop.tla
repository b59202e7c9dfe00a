---------------------------- MODULE AtomicAirdrop ----------------------------
(***************************************************************************)
(* What CommittedBatchAirdrop.sol promises to its reserve and to the       *)
(* recipients: a batch of the published list is sent as a whole or not at  *)
(* all, once, out of the reserve, and nothing else takes the reserve's     *)
(* tokens or another account's on the way.  There are no calls, bits,      *)
(* approvals or reverts here, and tokens change hands outside the airdrop. *)
(***************************************************************************)
EXTENDS Integers, Sequences, FiniteSets, Functions

CONSTANTS
  Account,
  Payer,   \* the account the batches are paid from
  List,    \* index -> [recipients, amounts]
  Start    \* the balances at the beginning

VARIABLES
  done,     \* the batches sent
  count,    \* how many
  spent,    \* what they added up to
  balance

vars == <<done, count, spent, balance>>

Total(i) == SumFunction(List[i].amounts)

\* What batch i brings account a.
Due(i, a) == SumFunctionOnSet(List[i].amounts, {k \in DOMAIN List[i].amounts : List[i].recipients[k] = a})

Init ==
  /\ done = {} /\ count = 0 /\ spent = 0
  /\ balance = Start

Send(i) ==
  /\ i \notin done
  /\ done' = done \cup {i}
  /\ count' = count + 1
  /\ spent' = spent + Total(i)
  /\ balance' = [a \in Account |-> balance[a] + Due(i, a) - IF a = Payer THEN Total(i) ELSE 0]
  /\ balance'[Payer] >= 0

\* A transfer by its owner.
Move(from, to, amount) ==
  /\ LET taken == [balance EXCEPT ![from] = @ - amount]
     IN  balance' = [taken EXCEPT ![to] = @ + amount]
  /\ UNCHANGED <<done, count, spent>>

Next ==
  \/ \E i \in DOMAIN List : Send(i)
  \/ \E from, to \in Account : \E amount \in 0 .. balance[from] : Move(from, to, amount)

Spec == Init /\ [][Next]_vars
=============================================================================
