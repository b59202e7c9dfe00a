--------------------------- MODULE VaultRunProofs ---------------------------
(***************************************************************************)
(* Proofs about deploying and funding the vaults (VaultRun).               *)
(*                                                                         *)
(* The accounts: a vault holds at least what its delegators are credited   *)
(* with, and what has left the Safe was credited.  Both compare a sum over *)
(* a finite set with a balance, so each step is a lemma about sums         *)
(* (FunctionSums): one summand changes, or a batch is spread over the      *)
(* delegators.  Nothing is assumed on how the tools are run.               *)
(*                                                                         *)
(* The funding: nobody is credited twice, what is reported as done is      *)
(* done, and a rebuild plans what is missing.  What a build reads must     *)
(* still be so when it writes its plan, and what it planned must still be  *)
(* due when the Safe executes it; FundingInv says so between any two       *)
(* steps.  This rests on two conditions, which the theorems state: a build *)
(* starts only when no other run has a deposit left to make (Sequential),  *)
(* and a delegator who withdraws leaves something in the vault (Rest > 0), *)
(* since what build looks at is the credit in the vault and not the        *)
(* history.                                                                *)
(***************************************************************************)
EXTENDS VaultRun, FunctionSums

-----------------------------------------------------------------------------
(***************************************************************************)
(* The vaults: whatever is called, a vault holds what it owes.             *)
(***************************************************************************)
VaultTypes ==
  /\ governor \in [Vault -> Account \cup {Zero}]
  /\ balanceOf \in [Vault -> [Holder -> Nat]]
  /\ tokens \in [Holder -> Nat]

\* The credits of a vault, by holder.
LEMMA CreditsAreASum ==
  ASSUME VaultTypes, NEW v \in Vault
  PROVE  /\ SumFunction(balanceOf[v]) = SumFunctionOnSet(balanceOf[v], Holder)
         /\ SumFunction(balanceOf[v]) \in Nat
         /\ \A a \in Holder : balanceOf[v][a] \in Nat
<1>1. balanceOf[v] \in [Holder -> Nat]
  BY Zenon DEF VaultTypes
<1>2. DOMAIN balanceOf[v] = Holder /\ \A a \in Holder : balanceOf[v][a] \in Nat
  BY Zenon, <1>1
<1>3. SumFunction(balanceOf[v]) = SumFunctionOnSet(balanceOf[v], Holder)
  BY Zenon, <1>2 DEF SumFunction
<1>4. SumFunctionOnSet(balanceOf[v], Holder) \in Nat
  BY Zenon, <1>2, SumIsNatural, VaultAssumption
<1> QED
  BY Zenon, <1>2, <1>3, <1>4

\* The same in the next state.
LEMMA NextCreditsAreASum ==
  ASSUME VaultTypes', NEW v \in Vault
  PROVE  /\ SumFunction(balanceOf'[v]) = SumFunctionOnSet(balanceOf'[v], Holder)
         /\ SumFunction(balanceOf'[v]) \in Nat
         /\ \A a \in Holder : balanceOf'[v][a] \in Nat
<1>1. balanceOf'[v] \in [Holder -> Nat]
  BY Zenon DEF VaultTypes
<1>2. DOMAIN balanceOf'[v] = Holder /\ \A a \in Holder : balanceOf'[v][a] \in Nat
  BY Zenon, <1>1
<1>3. SumFunction(balanceOf'[v]) = SumFunctionOnSet(balanceOf'[v], Holder)
  BY Zenon, <1>2 DEF SumFunction
<1>4. SumFunctionOnSet(balanceOf'[v], Holder) \in Nat
  BY Zenon, <1>2, SumIsNatural, VaultAssumption
<1> QED
  BY Zenon, <1>2, <1>3, <1>4

\* A change of one credit changes what the vault owes as much.
LEMMA OneCreditChanges ==
  ASSUME VaultTypes, VaultTypes', NEW v \in Vault, NEW a \in Holder,
         \A b \in Holder \ {a} : balanceOf'[v][b] = balanceOf[v][b]
  PROVE  SumFunction(balanceOf'[v]) = SumFunction(balanceOf[v]) + (balanceOf'[v][a] - balanceOf[v][a])
<1>1. \A b \in Holder : balanceOf[v][b] \in Int /\ balanceOf'[v][b] \in Int
  BY CreditsAreASum, NextCreditsAreASum
<1>2. SumFunctionOnSet(balanceOf'[v], Holder)
        = SumFunctionOnSet(balanceOf[v], Holder) + (balanceOf'[v][a] - balanceOf[v][a])
  <2>1. ASSUME NEW f, NEW g, \A b \in Holder : f[b] \in Int /\ g[b] \in Int,
               \A b \in Holder \ {a} : g[b] = f[b]
        PROVE  SumFunctionOnSet(g, Holder) = SumFunctionOnSet(f, Holder) + (g[a] - f[a])
    BY <2>1, SumChange, VaultAssumption
  <2> QED
    BY Zenon, <1>1, <2>1
<1> QED
  BY Zenon, <1>2, CreditsAreASum, NextCreditsAreASum

\* A step that gives one vault at least what it adds to its credits, and takes
\* nothing from the others, leaves every vault with what it owes.
LEMMA SolventStep ==
  ASSUME VaultTypes, VaultTypes', Solvent, NEW v \in Vault,
         \A w \in Vault \ {v} : balanceOf'[w] = balanceOf[w] /\ tokens'[w] >= tokens[w],
         SumFunction(balanceOf'[v]) - SumFunction(balanceOf[v]) <= tokens'[v] - tokens[v]
  PROVE  Solvent'
<1>1. \A w \in Vault : tokens[w] \in Nat /\ tokens'[w] \in Nat
  BY Zenon DEF VaultTypes, Holder
<1>2. \A w \in Vault : SumFunction(balanceOf[w]) \in Nat /\ SumFunction(balanceOf'[w]) \in Nat
  BY Zenon, CreditsAreASum, NextCreditsAreASum
<1>3. \A w \in Vault : SumFunction(balanceOf[w]) <= tokens[w]
  BY Zenon DEF Solvent
<1>4. \A w \in Vault \ {v} : SumFunction(balanceOf'[w]) <= tokens'[w]
  BY <1>1, <1>2, <1>3
<1>5. SumFunction(balanceOf'[v]) <= tokens'[v]
  BY <1>1, <1>2, <1>3
<1> QED
  BY Zenon, <1>4, <1>5 DEF Solvent

\* A step that leaves credits and tokens alone.
LEMMA SolventUnchanged ==
  ASSUME VaultTypes, Solvent, UNCHANGED <<balanceOf, tokens>>, governor' \in [Vault -> Account \cup {Zero}]
  PROVE  VaultTypes' /\ Solvent'
BY Zenon DEF VaultTypes, Solvent

\* withdraw takes from the vault what it takes from the caller's credit, or
\* nothing when the vault is the receiver.
LEMMA WithdrawSolvent ==
  ASSUME VaultTypes, Solvent, NEW caller \in Account, NEW v \in Vault, NEW amount \in Nat,
         NEW to \in Account \cup {v}, withdraw(caller, v, amount, to)
  PROVE  /\ VaultTypes' /\ Solvent'
         /\ \A a \in Account \ {to} : tokens'[a] = tokens[a]
<1>1. /\ amount <= balanceOf[v][caller] /\ amount <= tokens[v]
      /\ balanceOf' = [balanceOf EXCEPT ![v] = [balanceOf[v] EXCEPT ![caller] = @ - amount]]
      /\ tokens' = IF to = v THEN tokens ELSE [tokens EXCEPT ![v] = @ - amount, ![to] = @ + amount]
      /\ governor' = governor
  BY Zenon DEF withdraw, Given
<1>2. caller \in Holder /\ v \in Holder /\ to \in Holder /\ v \notin Account
  BY Zenon, VaultAssumption DEF Holder
<1>3. balanceOf[v][caller] \in Nat /\ tokens[v] \in Nat /\ tokens[to] \in Nat
  BY Zenon, <1>2 DEF VaultTypes
<1>4. balanceOf' \in [Vault -> [Holder -> Nat]]
  <2>1. [balanceOf[v] EXCEPT ![caller] = @ - amount] \in [Holder -> Nat]
    BY <1>1, <1>2, <1>3 DEF VaultTypes
  <2> QED
    BY Zenon, <1>1, <2>1 DEF VaultTypes
<1>5. tokens' \in [Holder -> Nat]
  BY <1>1, <1>2, <1>3 DEF VaultTypes
<1>6. VaultTypes'
  BY Zenon, <1>1, <1>4, <1>5 DEF VaultTypes
<1>7. /\ \A b \in Holder \ {caller} : balanceOf'[v][b] = balanceOf[v][b]
      /\ balanceOf'[v][caller] = balanceOf[v][caller] - amount
      /\ \A w \in Vault \ {v} : balanceOf'[w] = balanceOf[w]
  BY Zenon, <1>1, <1>2 DEF VaultTypes
<1>8. /\ \A w \in Vault \ {v} : tokens'[w] >= tokens[w]
      /\ tokens'[v] >= tokens[v] - amount
      /\ \A a \in Account \ {to} : tokens'[a] = tokens[a]
  <2>1. \A w \in Holder : tokens[w] \in Nat
    BY Zenon DEF VaultTypes
  <2>2. CASE to = v
    BY <1>1, <1>3, <2>1, <2>2 DEF Holder
  <2>3. CASE to # v
    <3>1. \A w \in Holder : tokens'[w] = IF w = to THEN tokens[w] + amount
                                          ELSE IF w = v THEN tokens[w] - amount ELSE tokens[w]
      BY Zenon, <1>1, <1>2, <2>3 DEF VaultTypes
    <3> QED
      BY <1>2, <2>1, <2>3, <3>1 DEF Holder
  <2> QED
    BY Zenon, <2>2, <2>3
<1>9. SumFunction(balanceOf'[v]) = SumFunction(balanceOf[v]) + (balanceOf'[v][caller] - balanceOf[v][caller])
  BY Zenon, <1>2, <1>6, <1>7, OneCreditChanges
<1>10. SumFunction(balanceOf'[v]) - SumFunction(balanceOf[v]) <= tokens'[v] - tokens[v]
  <2>1. SumFunction(balanceOf[v]) \in Nat /\ tokens'[v] \in Nat
    BY Zenon, <1>2, <1>5, CreditsAreASum
  <2> QED
    BY <1>3, <1>7, <1>8, <1>9, <2>1
<1>11. Solvent'
  BY Zenon, <1>6, <1>7, <1>8, <1>10, SolventStep
<1> QED
  BY Zenon, <1>6, <1>8, <1>11

\* A transferFrom by the vault, and the credits it gives for it.
LEMMA TakenSolvent ==
  ASSUME VaultTypes, Solvent, NEW caller \in Account, NEW v \in Vault, NEW amount \in Nat,
         Taken(caller, v, amount), governor' = governor, balanceOf' \in [Vault -> [Holder -> Nat]],
         \A w \in Vault \ {v} : balanceOf'[w] = balanceOf[w],
         SumFunction(balanceOf'[v]) = SumFunction(balanceOf[v]) + amount
  PROVE  VaultTypes' /\ Solvent'
<1>1. /\ amount <= tokens[caller]
      /\ tokens' = [tokens EXCEPT ![caller] = @ - amount, ![v] = @ + amount]
  BY Zenon DEF Taken
<1>2. caller \in Holder /\ v \in Holder /\ caller \notin Vault
  BY Zenon, VaultAssumption DEF Holder
<1>3. tokens[caller] \in Nat /\ tokens[v] \in Nat
  BY Zenon, <1>2 DEF VaultTypes
<1>4. tokens' \in [Holder -> Nat] /\ tokens'[v] = tokens[v] + amount
  BY <1>1, <1>2, <1>3 DEF VaultTypes
<1>5. \A w \in Vault \ {v} : tokens'[w] >= tokens[w]
  BY <1>1, <1>2 DEF VaultTypes, Holder
<1>6. VaultTypes'
  BY Zenon, <1>4 DEF VaultTypes
<1>7. SumFunction(balanceOf[v]) \in Nat
  BY Zenon, CreditsAreASum
<1>8. SumFunction(balanceOf'[v]) - SumFunction(balanceOf[v]) <= tokens'[v] - tokens[v]
  BY <1>3, <1>4, <1>7
<1> QED
  BY Zenon, <1>5, <1>6, <1>8, SolventStep

\* deposit credits what it takes.
LEMMA DepositSolvent ==
  ASSUME VaultTypes, Solvent, NEW caller \in Account, NEW v \in Vault, NEW amount \in Nat,
         NEW delegator \in Account \cup {Zero}, deposit(caller, v, amount, delegator)
  PROVE  VaultTypes' /\ Solvent'
<1>1. /\ Taken(caller, v, amount) /\ governor' = governor
      /\ balanceOf' = [balanceOf EXCEPT ![v] = [balanceOf[v] EXCEPT ![delegator] = @ + amount]]
  BY Zenon DEF deposit
<1>2. delegator \in Holder
  BY Zenon DEF deposit, Holder
<1>3. balanceOf[v] \in [Holder -> Nat] /\ balanceOf[v][delegator] \in Nat
  BY Zenon, <1>2 DEF VaultTypes
<1>4. balanceOf' \in [Vault -> [Holder -> Nat]]
  <2>1. [balanceOf[v] EXCEPT ![delegator] = @ + amount] \in [Holder -> Nat]
    BY <1>2, <1>3
  <2> QED
    BY Zenon, <1>1, <2>1 DEF VaultTypes
<1>5. /\ \A b \in Holder \ {delegator} : balanceOf'[v][b] = balanceOf[v][b]
      /\ balanceOf'[v][delegator] = balanceOf[v][delegator] + amount
      /\ \A w \in Vault \ {v} : balanceOf'[w] = balanceOf[w]
  BY Zenon, <1>1, <1>2, <1>3 DEF VaultTypes
<1>6. SumFunction(balanceOf'[v]) = SumFunction(balanceOf[v]) + amount
  <2>1. balanceOf'[v] \in [Holder -> Nat] /\ \A b \in Holder : balanceOf[v][b] \in Int /\ balanceOf'[v][b] \in Int
    BY <1>3, <1>4
  <2>2. SumFunctionOnSet(balanceOf'[v], Holder)
          = SumFunctionOnSet(balanceOf[v], Holder) + (balanceOf'[v][delegator] - balanceOf[v][delegator])
    BY <1>2, <1>5, <2>1, SumChange, VaultAssumption
  <2>3. DOMAIN balanceOf[v] = Holder /\ DOMAIN balanceOf'[v] = Holder
    BY Zenon, <1>3, <2>1
  <2>4. SumFunctionOnSet(balanceOf'[v], Holder) = SumFunctionOnSet(balanceOf[v], Holder) + amount
    BY <1>3, <1>5, <2>2
  <2> QED
    BY Zenon, <2>3, <2>4 DEF SumFunction
<1> QED
  BY Zenon, <1>1, <1>4, <1>5, <1>6, TakenSolvent

\* depositBatch credits what it takes, in as many parts as there are.
LEMMA DepositBatchSolvent ==
  ASSUME VaultTypes, Solvent, NEW caller \in Account, NEW v \in Vault,
         NEW amounts \in Seq(Nat), NEW delegators \in Seq(Account \cup {Zero}),
         depositBatch(caller, v, amounts, delegators)
  PROVE  VaultTypes' /\ Solvent'
<1>1. /\ Len(delegators) = Len(amounts) /\ \A i \in DOMAIN delegators : delegators[i] # Zero
      /\ Taken(caller, v, SumFunction(amounts)) /\ governor' = governor
      /\ balanceOf' = [balanceOf EXCEPT ![v] = Credited(v, amounts, delegators)]
  BY Zenon DEF depositBatch
<1> DEFINE I == DOMAIN amounts
           part == GroupSums(amounts, delegators, I, Holder)
<1>2. IsFiniteSet(I) /\ I = 1 .. Len(amounts) /\ I = DOMAIN delegators
  BY <1>1, FS_Interval
<1>3. \A i \in I : amounts[i] \in Nat /\ amounts[i] \in Int /\ delegators[i] \in Holder
  BY <1>1, <1>2 DEF Holder
<1>4. SumFunction(amounts) = SumFunctionOnSet(amounts, I) /\ SumFunction(amounts) \in Nat
  <2>1. SumFunctionOnSet(amounts, I) \in Nat
    BY Zenon, <1>2, <1>3, SumIsNatural
  <2> QED
    BY Zenon, <2>1 DEF SumFunction
<1>5. ASSUME NEW a \in Holder
      PROVE  part[a] \in Nat
  <2> DEFINE J == {i \in I : delegators[i] = a}
  <2>1. J \in SUBSET I
    BY Zenon
  <2> HIDE DEF J, I
  <2>2. IsFiniteSet(J)
    BY Zenon, <1>2, <2>1, FS_Subset
  <2>3. SumFunctionOnSet(amounts, J) \in Nat
    BY Zenon, <1>3, <2>1, <2>2, SumIsNatural
  <2> QED
    BY Zenon, <2>3 DEF J, GroupSums
<1>6. SumFunctionOnSet(part, Holder) = SumFunctionOnSet(amounts, I)
  <2>1. IsFiniteSet(Holder)
    BY Zenon, VaultAssumption
  <2>2. IsFiniteSet(I) /\ (\A i \in I : delegators[i] \in Holder) /\ \A i \in I : amounts[i] \in Int
    BY Zenon, <1>2, <1>3
  <2> HIDE DEF I
  <2> QED
    BY <2>1, <2>2, SumGrouped
<1>7. balanceOf'[v] = [a \in Holder |-> balanceOf[v][a] + part[a]]
  BY Zenon, <1>1 DEF Credited, VaultTypes, GroupSums
<1> HIDE DEF part, I
<1>8. balanceOf[v] \in [Holder -> Nat] /\ \A a \in Holder : balanceOf[v][a] \in Nat
  BY Zenon DEF VaultTypes
<1>9. balanceOf'[v] \in [Holder -> Nat]
  BY <1>5, <1>7, <1>8
<1>10. balanceOf' \in [Vault -> [Holder -> Nat]] /\ \A w \in Vault \ {v} : balanceOf'[w] = balanceOf[w]
  BY Zenon, <1>1, <1>9 DEF VaultTypes
<1>11. SumFunction(balanceOf'[v]) = SumFunction(balanceOf[v]) + SumFunction(amounts)
  <2>1. \A a \in Holder : /\ balanceOf[v][a] \in Int /\ part[a] \in Int
                          /\ balanceOf'[v][a] = balanceOf[v][a] + part[a]
    BY <1>5, <1>7, <1>8
  <2>2. SumFunctionOnSet(balanceOf'[v], Holder)
          = SumFunctionOnSet(balanceOf[v], Holder) + SumFunctionOnSet(part, Holder)
    BY Zenon, <2>1, SumAdd, VaultAssumption
  <2>3. DOMAIN balanceOf[v] = Holder /\ DOMAIN balanceOf'[v] = Holder
    BY Zenon, <1>8, <1>9
  <2>4. SumFunction(balanceOf'[v]) = SumFunctionOnSet(balanceOf'[v], Holder)
    BY Zenon, <2>3 DEF SumFunction
  <2>5. SumFunction(balanceOf[v]) = SumFunctionOnSet(balanceOf[v], Holder)
    BY Zenon, <2>3 DEF SumFunction
  <2> QED
    BY Zenon, <1>4, <1>6, <2>2, <2>4, <2>5
<1> QED
  BY Zenon, <1>1, <1>4, <1>10, <1>11, TakenSolvent

\* A donation only adds to what the vault holds.
LEMMA DonateSolvent ==
  ASSUME VaultTypes, Solvent, NEW caller \in Account, NEW v \in Vault, NEW amount \in Nat,
         Donate(caller, v, amount)
  PROVE  VaultTypes' /\ Solvent'
<1>1. /\ amount <= tokens[caller] /\ caller # v
      /\ tokens' = [tokens EXCEPT ![caller] = @ - amount, ![v] = @ + amount]
      /\ governor' = governor /\ balanceOf' = balanceOf
  BY Zenon, VaultAssumption DEF Donate, Given, contract
<1>2. caller \in Holder /\ v \in Holder /\ caller \notin Vault
  BY Zenon, VaultAssumption DEF Holder
<1>3. tokens[caller] \in Nat /\ tokens[v] \in Nat
  BY Zenon, <1>2 DEF VaultTypes
<1>4. tokens' \in [Holder -> Nat] /\ tokens'[v] = tokens[v] + amount
  BY <1>1, <1>2, <1>3 DEF VaultTypes
<1>5. \A w \in Vault \ {v} : tokens'[w] >= tokens[w]
  BY <1>1, <1>2 DEF VaultTypes, Holder
<1>6. VaultTypes'
  BY Zenon, <1>1, <1>4 DEF VaultTypes
<1>7. SumFunction(balanceOf'[v]) - SumFunction(balanceOf[v]) <= tokens'[v] - tokens[v]
  <2>1. SumFunction(balanceOf[v]) \in Nat
    BY Zenon, CreditsAreASum
  <2> QED
    BY <1>1, <1>3, <1>4, <2>1
<1> QED
  BY Zenon, <1>1, <1>5, <1>6, <1>7, SolventStep

\* Whatever anybody calls.
LEMMA CallSolvent ==
  ASSUME VaultTypes, Solvent, NEW caller \in Account, NEW v \in Vault, Call(caller, v)
  PROVE  VaultTypes' /\ Solvent'
<1>1. \A x \in Amounts : x \in Nat
  BY VaultAssumption
<1>2. ASSUME NEW a \in Account \cup {Zero}, transferGovernor(caller, v, a)
      PROVE  VaultTypes' /\ Solvent'
  BY Zenon, <1>2, SolventUnchanged DEF transferGovernor, token, VaultTypes
<1>3. ASSUME NEW f \in Fees, setFeeBps(caller, v, f)
      PROVE  VaultTypes' /\ Solvent'
  BY Zenon, <1>3, SolventUnchanged DEF setFeeBps, token, VaultTypes
<1>4. ASSUME NEW x \in Amounts, approve(caller, v, x)
      PROVE  VaultTypes' /\ Solvent'
  BY Zenon, <1>4, SolventUnchanged DEF approve, contract, VaultTypes
<1>5. ASSUME NEW amounts \in Pairs(Amounts), NEW delegators \in Pairs(Account \cup {Zero}),
             depositBatch(caller, v, amounts, delegators)
      PROVE  VaultTypes' /\ Solvent'
  <2>1. ASSUME NEW S, NEW s \in Pairs(S)
        PROVE  s \in Seq(S)
    <3>1. PICK n \in 0 .. 2 : s \in [1 .. n -> S]
      BY Zenon DEF Pairs
    <3> QED
      BY <3>1
  <2>2. amounts \in Seq(Nat) /\ delegators \in Seq(Account \cup {Zero})
    BY <1>1, <2>1
  <2> QED
    BY Zenon, <1>5, <2>2, DepositBatchSolvent
<1>6. ASSUME NEW x \in Amounts, NEW a \in Account \cup {Zero}, deposit(caller, v, x, a)
      PROVE  VaultTypes' /\ Solvent'
  BY Zenon, <1>1, <1>6, DepositSolvent
<1>7. ASSUME NEW x \in Amounts, NEW a \in Account \cup {v}, withdraw(caller, v, x, a)
      PROVE  VaultTypes' /\ Solvent'
  BY Zenon, <1>1, <1>7, WithdrawSolvent
<1>8. ASSUME NEW x \in Amounts, Donate(caller, v, x)
      PROVE  VaultTypes' /\ Solvent'
  BY Zenon, <1>1, <1>8, DonateSolvent
<1> QED
  BY Zenon, <1>2, <1>3, <1>4, <1>5, <1>6, <1>7, <1>8 DEF Call

-----------------------------------------------------------------------------
(***************************************************************************)
(* The run: every token that left the Safe was credited.                   *)
(***************************************************************************)
\* The transactions there can be.
Transaction == Run \X ({"deploy"} \cup {Part[p] : p \in Pair})

RunTypes ==
  /\ step \in [Run -> {"none", "read", "built"}]
  /\ online \in [Run -> BOOLEAN]
  /\ fresh \in [Run -> SUBSET Vault]
  /\ plan \in [Run -> SUBSET Pair]
  /\ phase \in [Run -> {"all", "deploy", "fund"}]
  /\ report \in [Run -> {"none", "ok", "differs"}]
  /\ proposed \subseteq Transaction
  /\ queue \in Seq(Transaction)
  /\ credited \in [Pair -> Nat]
  /\ careful \in BOOLEAN /\ open \in BOOLEAN

\* What the Safe has spent in the funding, it has deposited.
SpentIsCredited == ~open => Holdings[Safe] - tokens[Safe] = SumFunction(credited)

AccountInv == VaultTypes /\ RunTypes /\ Solvent /\ SpentIsCredited

\* The deposit list is finite, its amounts are positive, and the Safe is not on it.
LEMMA ListFacts ==
  /\ IsFiniteSet(Pair) /\ \A p \in Pair : List[p] \in Nat \ {0} /\ List[p] \in Int
  /\ \A p \in Pair : /\ p[1] \in Vault /\ p[2] \in Account \ {Safe}
                     /\ p = <<p[1], p[2]>> /\ p[1] \in Holder /\ p[2] \in Holder
  /\ Safe \in Account /\ Safe \in Holder /\ Safe \notin Vault
<1>1. IsFiniteSet(Vault) /\ IsFiniteSet(Account \ {Safe})
  BY Zenon, VaultAssumption, FS_Subset DEF Holder
<1>2. IsFiniteSet(Vault \X (Account \ {Safe}))
  BY Zenon, <1>1, FS_Product
<1>3. IsFiniteSet(Pair)
  BY Zenon, <1>2, RunAssumption, FS_Subset
<1>4. \A p \in Pair : List[p] \in Nat \ {0} /\ List[p] \in Int
  BY RunAssumption, VaultAssumption
<1>5. \A p \in Pair : /\ p[1] \in Vault /\ p[2] \in Account \ {Safe}
                      /\ p = <<p[1], p[2]>> /\ p[1] \in Holder /\ p[2] \in Holder
  BY RunAssumption DEF Holder
<1>6. Safe \in Account /\ Safe \in Holder /\ Safe \notin Vault
  BY Zenon, RunAssumption, VaultAssumption DEF Holder
<1> QED
  BY Zenon, <1>3, <1>4, <1>5, <1>6

\* The total of some deposits is a natural, and of more of them no less.
LEMMA TotalFacts ==
  ASSUME NEW S \in SUBSET Pair
  PROVE  /\ IsFiniteSet(S) /\ Total(S) \in Nat
         /\ \A T \in SUBSET S : Total(T) <= Total(S)
<1>1. IsFiniteSet(S)
  BY Zenon, ListFacts, FS_Subset
<1>2. \A p \in S : List[p] \in Nat
  BY Zenon, ListFacts
<1>3. Total(S) \in Nat
  BY Zenon, <1>1, <1>2, SumIsNatural DEF Total
<1>4. \A T \in SUBSET S : Total(T) <= Total(S)
  BY Zenon, <1>1, <1>2, SumSubset DEF Total
<1> QED
  BY Zenon, <1>1, <1>3, <1>4

\* What the Safe has deposited in all.
LEMMA CreditedIsASum ==
  ASSUME NEW c \in [Pair -> Nat]
  PROVE  SumFunction(c) = SumFunctionOnSet(c, Pair) /\ SumFunction(c) \in Nat
<1>1. SumFunctionOnSet(c, Pair) \in Nat
  BY Zenon, ListFacts, SumIsNatural
<1> QED
  BY Zenon, <1>1 DEF SumFunction

\* A sum over the holders grows by what some of them get.
LEMMA HolderSums ==
  ASSUME NEW f, NEW T \in SUBSET Holder, NEW h, NEW b,
         \A a \in Holder : f[a] \in Int, \A a \in T : h[a] \in Int,
         \A a \in Holder : b[a] = f[a] + (IF a \in T THEN h[a] ELSE 0)
  PROVE  SumFunctionOnSet(b, Holder) = SumFunctionOnSet(f, Holder) + SumFunctionOnSet(h, T)
<1>1. IsFiniteSet(Holder)
  BY Zenon, VaultAssumption
<1> QED
  BY <1>1, SumSpread

\* What a funding transaction does to the credits of one vault.
LEMMA FundCredits ==
  ASSUME VaultTypes, NEW live \in SUBSET Pair, NEW v \in Vault, NEW b,
         b = [a \in Holder |-> balanceOf[v][a] + IF <<v, a>> \in live THEN List[<<v, a>>] ELSE 0]
  PROVE  /\ b \in [Holder -> Nat]
         /\ SumFunction(b) = SumFunction(balanceOf[v]) + Total(Of(live, v))
<1> DEFINE T == {a \in Holder : <<v, a>> \in live}
           e == [a \in T |-> <<v, a>>]
           h == [a \in T |-> List[<<v, a>>]]
<1>1. \A a \in Holder : balanceOf[v][a] \in Nat
  BY Zenon DEF VaultTypes
<1>2. \A a \in T : List[<<v, a>>] \in Nat
  BY Zenon, ListFacts
<1>3. b \in [Holder -> Nat]
  BY <1>1, <1>2
<1>4. IsFiniteSet(Holder) /\ T \in SUBSET Holder
  BY Zenon, VaultAssumption
<1>5. IsFiniteSet(T)
  BY Zenon, <1>4, FS_Subset
<1>6. SumFunctionOnSet(b, Holder) = SumFunctionOnSet(balanceOf[v], Holder) + SumFunctionOnSet(h, T)
  <2>1. /\ \A a \in Holder : balanceOf[v][a] \in Int
        /\ \A a \in T : h[a] \in Int
        /\ \A a \in Holder : b[a] = balanceOf[v][a] + (IF a \in T THEN h[a] ELSE 0)
    BY <1>1, <1>2
  <2> HIDE DEF T, h
  <2> QED
    BY Zenon, <1>4, <2>1, HolderSums
<1>7. {e[a] : a \in T} = Of(live, v)
  <2>1. ASSUME NEW p \in Of(live, v)
        PROVE  p[2] \in T /\ p = <<v, p[2]>>
    BY Zenon, ListFacts DEF Of
  <2>2. Of(live, v) \subseteq {e[a] : a \in T}
    BY Zenon, <2>1
  <2>3. \A a \in T : <<v, a>>[1] = v /\ <<v, a>> \in live /\ e[a] = <<v, a>>
    BY Zenon
  <2>4. \A a \in T : e[a] \in Of(live, v)
    BY Zenon, <2>3 DEF Of
  <2> QED
    BY Zenon, <2>2, <2>4
<1>8. SumFunctionOnSet(h, T) = SumFunctionOnSet(List, {e[a] : a \in T})
  <2>1. /\ \A x, y \in T : e[x] = e[y] => x = y
        /\ \A a \in T : h[a] = List[e[a]] /\ h[a] \in Int
    BY <1>2
  <2> HIDE DEF T, h, e
  <2> QED
    BY <1>5, <2>1, SumReindexed
<1>9. SumFunction(b) = SumFunctionOnSet(b, Holder)
  BY Zenon, <1>3 DEF SumFunction
<1>10. SumFunction(balanceOf[v]) = SumFunctionOnSet(balanceOf[v], Holder)
  BY Zenon, CreditsAreASum
<1> HIDE DEF h, T, e
<1> QED
  BY Zenon, <1>3, <1>6, <1>7, <1>8, <1>9, <1>10 DEF Total

\* A funding transaction: the Safe pays what is credited, to the vaults that exist.
LEMMA FundOutcome ==
  ASSUME VaultTypes, Solvent, credited \in [Pair -> Nat], NEW S \in SUBSET Pair, Fund(S)
  PROVE  /\ VaultTypes' /\ Solvent' /\ credited' \in [Pair -> Nat]
         /\ tokens[Safe] - tokens'[Safe] = SumFunction(credited') - SumFunction(credited)
<1> DEFINE live == {p \in S : Deployed(p[1])}
<1>1. live \in SUBSET Pair
  BY Zenon
<1>2. /\ Total(live) <= tokens[Safe]
      /\ tokens' = [a \in Holder |-> IF a = Safe THEN tokens[a] - Total(live)
                                     ELSE tokens[a] + IF a \in Vault THEN Total(Of(live, a)) ELSE 0]
      /\ balanceOf' = [v \in Vault |-> [a \in Holder |->
                         balanceOf[v][a] + IF <<v, a>> \in live THEN List[<<v, a>>] ELSE 0]]
      /\ credited' = [p \in Pair |-> credited[p] + IF p \in live THEN List[p] ELSE 0]
      /\ governor' = governor
  BY Zenon DEF Fund
<1> HIDE DEF live
<1>3. Total(live) \in Nat /\ \A v \in Vault : Total(Of(live, v)) \in Nat
  BY Zenon, <1>1, TotalFacts DEF Of
<1>4. tokens' \in [Holder -> Nat]
  BY <1>2, <1>3 DEF VaultTypes
<1>5. \A v \in Vault : /\ balanceOf'[v] \in [Holder -> Nat]
                       /\ SumFunction(balanceOf'[v]) = SumFunction(balanceOf[v]) + Total(Of(live, v))
  BY Zenon, <1>1, <1>2, FundCredits
<1>6. VaultTypes'
  <2>1. balanceOf' \in [Vault -> [Holder -> Nat]]
    BY Zenon, <1>2, <1>5
  <2> QED
    BY Zenon, <1>2, <1>4, <2>1 DEF VaultTypes
<1>7. Solvent'
  <2>1. ASSUME NEW v \in Vault
        PROVE  SumFunction(balanceOf'[v]) <= tokens'[v]
    <3>1. tokens'[v] = tokens[v] + Total(Of(live, v))
      BY Zenon, <1>2, ListFacts DEF Holder
    <3>2. SumFunction(balanceOf[v]) \in Nat /\ tokens[v] \in Nat /\ SumFunction(balanceOf[v]) <= tokens[v]
      BY Zenon, CreditsAreASum DEF Solvent, VaultTypes, Holder
    <3> QED
      BY <1>3, <1>5, <3>1, <3>2
  <2> QED
    BY Zenon, <2>1 DEF Solvent
<1>8. credited' \in [Pair -> Nat]
  BY <1>1, <1>2, ListFacts
<1>9. SumFunction(credited') = SumFunction(credited) + Total(live)
  <2>1. /\ \A p \in Pair : credited[p] \in Int
        /\ \A p \in live : List[p] \in Int
        /\ \A p \in Pair : credited'[p] = credited[p] + (IF p \in live THEN List[p] ELSE 0)
    BY <1>1, <1>2, ListFacts
  <2>2. SumFunctionOnSet(credited', Pair) = SumFunctionOnSet(credited, Pair) + SumFunctionOnSet(List, live)
    <3>1. IsFiniteSet(Pair) /\ live \in SUBSET Pair
      BY Zenon, <1>1, ListFacts
    <3> HIDE DEF live
    <3> QED
      BY <2>1, <3>1, SumSpread
  <2>3. SumFunction(credited') = SumFunctionOnSet(credited', Pair)
    BY Zenon, <1>8 DEF SumFunction
  <2>4. SumFunction(credited) = SumFunctionOnSet(credited, Pair)
    BY Zenon DEF SumFunction
  <2> QED
    BY Zenon, <2>2, <2>3, <2>4 DEF Total
<1>10. SumFunction(credited) \in Nat
  BY Zenon, CreditedIsASum
<1>11. tokens[Safe] - tokens'[Safe] = Total(live)
  BY <1>2, <1>3, ListFacts DEF VaultTypes
<1> QED
  BY <1>3, <1>6, <1>7, <1>8, <1>9, <1>10, <1>11

-----------------------------------------------------------------------------
(* The steps of vault_batch.py and of the Safe keep the types. *)

\* The vaults of some deposits are vaults; a build plans deposits of the list.
LEMMA PlansAreDeposits ==
  /\ \A S \in SUBSET Pair : VaultsOf(S) \subseteq Vault
  /\ \A r, skip : Included(r, skip) \subseteq Pair
BY Zenon, ListFacts DEF VaultsOf, Included

\* The vaults of the first state hold nothing and owe nothing.
LEMMA InitAccount == Init => AccountInv
<1> SUFFICES ASSUME Init
             PROVE  AccountInv
  BY Zenon
<1>1. VaultTypes
  BY VaultAssumption DEF Init, VaultInit, VaultTypes, Holder
<1>2. RunTypes
  <2>1. /\ step \in [Run -> {"none", "read", "built"}] /\ online \in [Run -> BOOLEAN]
        /\ fresh \in [Run -> SUBSET Vault] /\ plan \in [Run -> SUBSET Pair]
        /\ phase \in [Run -> {"all", "deploy", "fund"}] /\ report \in [Run -> {"none", "ok", "differs"}]
    BY Zenon DEF Init
  <2>2. proposed \subseteq Transaction /\ queue \in Seq(Transaction) /\ credited \in [Pair -> Nat]
    BY DEF Init
  <2>3. careful \in BOOLEAN /\ open \in BOOLEAN
    BY Zenon DEF Init
  <2> QED
    BY Zenon, <2>1, <2>2, <2>3 DEF RunTypes
<1>3. Solvent
  <2>1. ASSUME NEW v \in Vault
        PROVE  SumFunction(balanceOf[v]) <= tokens[v]
    <3>1. \A a \in Holder : balanceOf[v][a] = 0
      BY Zenon DEF Init, VaultInit
    <3>2. SumFunctionOnSet(balanceOf[v], Holder) = 0
      BY Zenon, <3>1, SumOfZeros, VaultAssumption
    <3>3. SumFunction(balanceOf[v]) = 0
      BY Zenon, <1>1, <3>2, CreditsAreASum
    <3>4. tokens[v] \in Nat
      BY Zenon, <1>1 DEF VaultTypes, Holder
    <3> QED
      BY <3>3, <3>4
  <2> QED
    BY Zenon, <2>1 DEF Solvent
<1>4. SpentIsCredited
  <2>1. \A p \in Pair : credited[p] = 0
    BY Zenon DEF Init
  <2>2. SumFunctionOnSet(credited, Pair) = 0
    BY Zenon, <2>1, SumOfZeros, ListFacts
  <2>3. SumFunction(credited) = 0
    BY Zenon, <2>2 DEF SumFunction, Init
  <2>4. tokens[Safe] = Holdings[Safe] /\ Holdings[Safe] \in Nat
    BY ListFacts, VaultAssumption DEF Init, VaultInit
  <2> QED
    BY <2>3, <2>4 DEF SpentIsCredited
<1> QED
  BY Zenon, <1>1, <1>2, <1>3, <1>4 DEF AccountInv

\* Steps that neither move tokens nor credit anybody.
LEMMA AccountUnchanged ==
  ASSUME AccountInv, RunTypes', UNCHANGED <<balanceOf, tokens, credited, open>>,
         governor' \in [Vault -> Account \cup {Zero}]
  PROVE  AccountInv'
<1>1. VaultTypes' /\ Solvent'
  BY Zenon, SolventUnchanged DEF AccountInv
<1>2. SpentIsCredited'
  BY Zenon DEF AccountInv, SpentIsCredited
<1> QED
  BY Zenon, <1>1, <1>2 DEF AccountInv

\* The steps of a build, of the review and of the queue keep the types.
LEMMA PlanningTypes ==
  ASSUME RunTypes, UNCHANGED open, NEW r \in Run,
         \/ \E rpc \in Rpc : ReadVaults(r, rpc)
         \/ \E ph \in {"all", "deploy", "fund"}, skip \in BOOLEAN, allow \in Allow : WritePlan(r, ph, skip, allow)
         \/ \E t \in Transactions(r) : Propose(r, t)
         \/ Reconcile(r)
         \/ Finish(r)
  PROVE  RunTypes' /\ UNCHANGED <<vaults, credited>>
<1> USE DEF builds, safe
<1>1. ASSUME NEW rpc \in Rpc, ReadVaults(r, rpc)
      PROVE  RunTypes' /\ UNCHANGED <<vaults, credited>>
  <2>1. VaultsOf(Pair) \subseteq Vault
    BY Zenon, PlansAreDeposits
  <2>2. rpc \in BOOLEAN
    BY Zenon, RunAssumption
  <2> QED
    BY Zenon, <1>1, <2>1, <2>2 DEF ReadVaults, RunTypes
<1>2. ASSUME NEW ph \in {"all", "deploy", "fund"}, NEW skip \in BOOLEAN, NEW allow \in Allow,
             WritePlan(r, ph, skip, allow)
      PROVE  RunTypes' /\ UNCHANGED <<vaults, credited>>
  <2>1. Included(r, skip) \subseteq Pair
    BY Zenon, PlansAreDeposits
  <2> QED
    BY Zenon, <1>2, <2>1 DEF WritePlan, RunTypes
<1>3. ASSUME NEW t \in Transactions(r), Propose(r, t)
      PROVE  RunTypes' /\ UNCHANGED <<vaults, credited>>
  <2>1. t \in Transaction
    BY DEF Transactions, Transaction, RunTypes
  <2> QED
    BY <1>3, <2>1 DEF Propose, RunTypes
<1>4. ASSUME Reconcile(r)
      PROVE  RunTypes' /\ UNCHANGED <<vaults, credited>>
  BY Zenon, <1>4 DEF Reconcile, RunTypes
<1>5. ASSUME Finish(r)
      PROVE  RunTypes' /\ UNCHANGED <<vaults, credited>>
  BY Zenon, <1>5 DEF Finish, RunTypes
<1> QED
  BY Zenon, <1>1, <1>2, <1>3, <1>4, <1>5

\* So do the review and the rejection of a transaction.
LEMMA QueueTypes ==
  ASSUME RunTypes, UNCHANGED open, Show \/ Drop
  PROVE  RunTypes' /\ UNCHANGED <<vaults, credited>>
<1>1. CASE Show
  BY Zenon, <1>1 DEF builds, Show, RunTypes
<1>2. CASE Drop
  <2>1. queue' \in Seq(Transaction)
    BY <1>2 DEF Drop, RunTypes
  <2> QED
    BY Zenon, <1>2, <2>1 DEF builds, Drop, RunTypes
<1> QED
  BY Zenon, <1>1, <1>2

\* The governor of the vaults the Safe deploys is an account.
LEMMA GovernorIsAnAccount == Governor \in Account /\ Governor # Zero
BY Zenon, RunAssumption, VaultAssumption DEF Governor, Holder

\* The first transaction of the queue, and the deposits it makes.
LEMMA HeadOfQueue ==
  ASSUME RunTypes, queue # <<>>
  PROVE  /\ Head(queue) \in Transaction /\ Tail(queue) \in Seq(Transaction)
         /\ Head(queue)[1] \in Run /\ Funds(Head(queue)) \in SUBSET Pair
<1>1. Head(queue) \in Transaction /\ Tail(queue) \in Seq(Transaction)
  BY DEF RunTypes
<1>2. Head(queue)[1] \in Run
  BY Zenon, <1>1 DEF Transaction
<1> QED
  BY Zenon, <1>1, <1>2 DEF Funds, RunTypes

\* A deployment creates code, and leaves all else alone.
LEMMA CreateTypes ==
  ASSUME VaultTypes, NEW S, Create(S)
  PROVE  governor' \in [Vault -> Account \cup {Zero}] /\ UNCHANGED <<balanceOf, tokens, credited>>
BY Zenon, GovernorIsAnAccount DEF Create, VaultTypes, token

\* The owners' step.
LEMMA ExecuteAccount ==
  ASSUME AccountInv, UNCHANGED open, Execute
  PROVE  AccountInv'
<1> DEFINE t == Head(queue)
<1>1. /\ t \in Transaction /\ Tail(queue) \in Seq(Transaction)
      /\ t[1] \in Run /\ Funds(t) \in SUBSET Pair
  BY Zenon, HeadOfQueue DEF Execute, AccountInv
<1>2. /\ IF t[2] = "deploy" THEN Create(Creates(t)) ELSE Fund(Funds(t))
      /\ queue' = Tail(queue) /\ UNCHANGED <<proposed, builds, report, careful>>
  BY Zenon DEF Execute
<1> HIDE DEF t
<1>3. CASE t[2] = "deploy"
  <2>1. governor' \in [Vault -> Account \cup {Zero}] /\ UNCHANGED <<balanceOf, tokens, credited>>
    BY Zenon, <1>2, <1>3, CreateTypes DEF AccountInv
  <2>2. RunTypes'
    BY Zenon, <1>1, <1>2, <2>1 DEF AccountInv, RunTypes, builds
  <2> QED
    BY Zenon, <2>1, <2>2, AccountUnchanged
<1>4. CASE t[2] # "deploy"
  <2>1. /\ VaultTypes' /\ Solvent' /\ credited' \in [Pair -> Nat]
        /\ tokens[Safe] - tokens'[Safe] = SumFunction(credited') - SumFunction(credited)
    <3>1. Fund(Funds(t))
      BY Zenon, <1>2, <1>4
    <3>2. VaultTypes /\ Solvent /\ credited \in [Pair -> Nat]
      BY Zenon DEF AccountInv, RunTypes
    <3> QED
      BY Zenon, <1>1, <3>1, <3>2, FundOutcome
  <2>2. RunTypes'
    BY Zenon, <1>1, <1>2, <2>1 DEF AccountInv, RunTypes, builds
  <2>3. SpentIsCredited'
    <3>1. SumFunction(credited) \in Nat /\ SumFunction(credited') \in Nat
      BY Zenon, <2>1, CreditedIsASum DEF AccountInv, RunTypes
    <3>2. tokens[Safe] \in Nat /\ tokens'[Safe] \in Nat /\ Holdings[Safe] \in Nat
      BY <2>1, ListFacts, VaultAssumption DEF AccountInv, VaultTypes
    <3> QED
      BY <2>1, <3>1, <3>2 DEF AccountInv, SpentIsCredited
  <2> QED
    BY Zenon, <2>1, <2>2, <2>3 DEF AccountInv
<1> QED
  BY Zenon, <1>3, <1>4

\* A delegator's withdrawal, which is not the Safe's.
LEMMA WithdrawAccount ==
  ASSUME AccountInv, UNCHANGED open, NEW p \in Pair, NEW amount \in 1 .. MaxUint, Withdraw(p, amount)
  PROVE  AccountInv'
<1>1. p[1] \in Vault /\ p[2] \in Account /\ p[2] # Safe /\ amount \in Nat
  BY ListFacts, VaultAssumption
<1>2. withdraw(p[2], p[1], amount, p[2]) /\ UNCHANGED <<builds, safe, credited, report, careful>>
  BY Zenon DEF Withdraw
<1>3. VaultTypes' /\ Solvent' /\ \A a \in Account \ {p[2]} : tokens'[a] = tokens[a]
  BY <1>1, <1>2, WithdrawSolvent DEF AccountInv
<1>4. RunTypes'
  BY Zenon, <1>2 DEF AccountInv, RunTypes, builds, safe
<1>5. SpentIsCredited'
  BY Zenon, <1>1, <1>2, <1>3, ListFacts DEF AccountInv, SpentIsCredited
<1> QED
  BY Zenon, <1>3, <1>4, <1>5 DEF AccountInv

\* Every step.
LEMMA NextAccount ==
  ASSUME AccountInv, [Next]_vars
  PROVE  AccountInv'
<1>1. CASE UNCHANGED vars
  BY Zenon, <1>1 DEF vars, vaults, contract, token, builds, safe, AccountInv, VaultTypes, RunTypes, Solvent, SpentIsCredited
<1>2. ASSUME UNCHANGED open, RunTypes', UNCHANGED <<vaults, credited>>
      PROVE  AccountInv'
  BY Zenon, <1>2, AccountUnchanged DEF vaults, contract, token, AccountInv, VaultTypes
<1>3. ASSUME Funding, UNCHANGED open
      PROVE  AccountInv'
  <2>0. \A r \in Run, v \in Vault : DeployByKey(r, v) => DeployByOthers(v)
    BY Zenon DEF DeployByKey, DeployByOthers
  <2>1. ASSUME NEW v \in Vault, DeployByOthers(v)
        PROVE  AccountInv'
    <3>1. governor' \in [Vault -> Account \cup {Zero}] /\ UNCHANGED <<balanceOf, tokens, credited>>
      BY Zenon, <2>1, GovernorIsAnAccount DEF DeployByOthers, Construct, token, AccountInv, VaultTypes
    <3>2. RunTypes'
      BY Zenon, <1>3, <2>1 DEF DeployByOthers, builds, safe, AccountInv, RunTypes
    <3> QED
      BY Zenon, <1>3, <3>1, <3>2, AccountUnchanged
  <2>2. RunTypes
    BY Zenon DEF AccountInv
  <2> QED
    BY Zenon, <1>2, <1>3, <2>0, <2>1, <2>2, PlanningTypes, QueueTypes, ExecuteAccount, WithdrawAccount DEF Funding
<1>4. ASSUME Open
      PROVE  AccountInv'
  <2>1. RunTypes'
    BY Zenon, <1>4 DEF Open, builds, AccountInv, RunTypes
  <2>2. VaultTypes' /\ Solvent'
    BY Zenon, <1>4, SolventUnchanged DEF Open, vaults, contract, token, AccountInv, VaultTypes
  <2>3. SpentIsCredited'
    BY Zenon, <1>4 DEF Open, SpentIsCredited
  <2> QED
    BY Zenon, <2>1, <2>2, <2>3 DEF AccountInv
<1>5. ASSUME Use
      PROVE  AccountInv'
  <2>1. VaultTypes' /\ Solvent'
    BY Zenon, <1>5, CallSolvent DEF Use, AccountInv
  <2>2. RunTypes'
    BY Zenon, <1>5 DEF Use, builds, safe, AccountInv, RunTypes
  <2>3. SpentIsCredited'
    BY Zenon, <1>5 DEF Use, SpentIsCredited
  <2> QED
    BY Zenon, <2>1, <2>2, <2>3 DEF AccountInv
<1> QED
  BY Zenon, <1>1, <1>3, <1>4, <1>5 DEF Next

\* The accounts are in order in every state.
THEOREM AccountsInvariant == Spec => []AccountInv
<1>1. Init => AccountInv
  BY Zenon, InitAccount
<1>2. AccountInv /\ [Next]_vars => AccountInv'
  BY Zenon, NextAccount
<1> QED
  BY <1>1, <1>2, PTL DEF Spec

\* Every token that left the Safe in the funding was credited to a delegator of
\* the list, and a vault always holds what it owes (ReserveAccounted).
THEOREM ReserveIsAccounted == Spec => []ReserveAccounted
<1>1. AccountInv => ReserveAccounted
  BY Zenon DEF AccountInv, SpentIsCredited, ReserveAccounted
<1> QED
  BY <1>1, AccountsInvariant, PTL

-----------------------------------------------------------------------------

\* The run is being built, or may still make deposits.
Active(r) == step[r] = "read" \/ (step[r] = "built" /\ phase[r] # "deploy")

\* One run at a time, of which a plan and a report exist only once it is built;
\* a transaction is queued once, and only after it was proposed.
RunsInOrder ==
  /\ \A q, r \in Run : Active(q) /\ Active(r) => q = r
  /\ \A r \in Run : step[r] # "built" => plan[r] = {} /\ report[r] = "none"
  /\ Range(queue) \subseteq proposed
  /\ \A i, j \in DOMAIN queue : queue[i] = queue[j] => i = j
  /\ open => /\ \A r \in Run : step[r] = "none"
             /\ \A p \in Pair : credited[p] = 0

\* A credit comes from the Safe's deposits, and shows that there was one.
CreditsShow ==
  ~open => \A p \in Pair :
    /\ Credit(p) <= credited[p]
    /\ Credit(p) = 0 => credited[p] = 0
    /\ credited[p] # 0 => Deployed(p[1])

\* What a build has read of the vaults is still so for those without code.
ReadIsCurrent ==
  ~open => \A r \in Run : step[r] = "read" /\ online[r] => \A p \in Pair :
    /\ p[1] \in fresh[r] => credited[p] = 0
    /\ p[1] \notin fresh[r] => Deployed(p[1])

\* Each deposit was made once or not at all, and not at all while the
\* transaction that makes it is queued or not yet proposed.
Once ==
  careful => \A p \in Pair :
    /\ credited[p] \in {0, List[p]}
    /\ \A r \in Run :
         /\ p \in plan[r] /\ phase[r] # "deploy"
         /\ <<r, Part[p]>> \in Range(queue) \/ <<r, Part[p]>> \notin proposed
         => credited[p] = 0

FundingInv == RunsInOrder /\ CreditsShow /\ ReadIsCurrent /\ Once /\ ReconcileOkMeansDone

\* What leaving the first element out of a sequence without repetitions does.
LEMMA TailFacts ==
  ASSUME NEW S, NEW q \in Seq(S), q # <<>>, \A i, j \in DOMAIN q : q[i] = q[j] => i = j
  PROVE  /\ Head(q) \in Range(q) /\ Range(Tail(q)) = Range(q) \ {Head(q)}
         /\ \A i, j \in DOMAIN Tail(q) : Tail(q)[i] = Tail(q)[j] => i = j
<1>1. /\ DOMAIN q = 1 .. Len(q) /\ Len(q) \in Nat /\ Len(q) >= 1 /\ Head(q) = q[1]
      /\ DOMAIN Tail(q) = 1 .. Len(q) - 1 /\ \A i \in DOMAIN Tail(q) : Tail(q)[i] = q[i + 1]
  OBVIOUS
<1>2. Head(q) \in Range(q)
  BY <1>1 DEF Range
<1>3. Range(Tail(q)) \subseteq Range(q) \ {Head(q)}
  <2>1. ASSUME NEW i \in DOMAIN Tail(q)
        PROVE  Tail(q)[i] \in Range(q) /\ Tail(q)[i] # Head(q)
    <3>1. i + 1 \in DOMAIN q /\ 1 \in DOMAIN q /\ i + 1 # 1
      BY <1>1
    <3> QED
      BY Zenon, <1>1, <3>1 DEF Range
  <2> QED
    BY Zenon, <2>1 DEF Range
<1>4. Range(q) \ {Head(q)} \subseteq Range(Tail(q))
  <2>1. ASSUME NEW i \in DOMAIN q, q[i] # Head(q)
        PROVE  q[i] \in Range(Tail(q))
    <3>1. i - 1 \in DOMAIN Tail(q) /\ (i - 1) + 1 = i
      BY <1>1, <2>1
    <3>2. Tail(q)[i - 1] = q[i]
      BY Zenon, <1>1, <3>1
    <3> QED
      BY Zenon, <3>1, <3>2 DEF Range
  <2> QED
    BY Zenon, <2>1 DEF Range
<1>5. ASSUME NEW i \in DOMAIN Tail(q), NEW j \in DOMAIN Tail(q), Tail(q)[i] = Tail(q)[j]
      PROVE  i = j
  <2>1. i + 1 \in DOMAIN q /\ j + 1 \in DOMAIN q /\ q[i + 1] = q[j + 1] /\ i \in Nat /\ j \in Nat
    BY <1>1, <1>5
  <2>2. i + 1 = j + 1
    BY Zenon, <2>1
  <2> QED
    BY <2>1, <2>2
<1> QED
  BY Zenon, <1>2, <1>3, <1>4, <1>5

\* What appending a new element does.
LEMMA AppendFacts ==
  ASSUME NEW S, NEW q \in Seq(S), NEW t \in S, t \notin Range(q),
         \A i, j \in DOMAIN q : q[i] = q[j] => i = j
  PROVE  /\ Range(Append(q, t)) = Range(q) \cup {t}
         /\ \A i, j \in DOMAIN Append(q, t) : Append(q, t)[i] = Append(q, t)[j] => i = j
<1>1. /\ DOMAIN q = 1 .. Len(q) /\ Len(q) \in Nat /\ DOMAIN Append(q, t) = 1 .. Len(q) + 1
      /\ \A i \in DOMAIN q : Append(q, t)[i] = q[i]
      /\ Append(q, t)[Len(q) + 1] = t
  OBVIOUS
<1>2. \A i \in DOMAIN Append(q, t) : i \in DOMAIN q \/ i = Len(q) + 1
  BY <1>1
<1>3. DOMAIN q \subseteq DOMAIN Append(q, t) /\ Len(q) + 1 \in DOMAIN Append(q, t)
  BY <1>1
<1>4. \A i \in DOMAIN q : q[i] # t
  BY Zenon DEF Range
<1>5. Range(Append(q, t)) \subseteq Range(q) \cup {t}
  BY ZenonT(40), <1>1, <1>2 DEF Range
<1>6. Range(q) \cup {t} \subseteq Range(Append(q, t))
  BY Zenon, <1>1, <1>3 DEF Range
<1>7. ASSUME NEW i \in DOMAIN Append(q, t), NEW j \in DOMAIN Append(q, t),
             Append(q, t)[i] = Append(q, t)[j]
      PROVE  i = j
  BY Zenon, <1>1, <1>2, <1>4, <1>7
<1> QED
  BY Zenon, <1>5, <1>6, <1>7

\* A run with a deposit to make is the one being worked on.
LEMMA FundingIsActive ==
  ASSUME RunTypes, RunsInOrder, NEW r \in Run, NEW p \in plan[r], phase[r] # "deploy"
  PROVE  Active(r) /\ step[r] = "built"
BY Zenon DEF RunTypes, RunsInOrder, Active

\* Nothing was deposited yet of what a careful build plans.
LEMMA PlanIsOwed ==
  ASSUME RunTypes, CreditsShow, ReadIsCurrent, ~open, NEW r \in Run, step[r] = "read", online[r],
         NEW skip, ~Stops(r, skip, FALSE), NEW p \in Included(r, skip)
  PROVE  credited[p] = 0
<1>1. p \in Pair /\ p \notin Exact(r, skip)
  BY Zenon DEF Included
<1>2. p \notin Held(r)
  BY Zenon, <1>1 DEF Stops
<1>3. CASE p[1] \in fresh[r]
  BY Zenon, <1>1, <1>3 DEF ReadIsCurrent
<1>4. CASE p[1] \notin fresh[r]
  <2>1. Credit(p) = 0
    BY Zenon, <1>1, <1>2, <1>4 DEF Held
  <2> QED
    BY Zenon, <1>1, <2>1 DEF CreditsShow
<1> QED
  BY Zenon, <1>3, <1>4

\* A build starts: no other run has a deposit left to make.
LEMMA ReadVaultsFunding ==
  ASSUME Sequential, RunTypes, FundingInv, ~open, UNCHANGED open,
         NEW r \in Run, NEW rpc \in BOOLEAN, ReadVaults(r, rpc)
  PROVE  FundingInv'
<1>1. /\ step[r] = "none"
      /\ \A q \in Run \ {r} : step[q] = "none" \/ (step[q] = "built" /\ phase[q] = "deploy")
      /\ step' = [step EXCEPT ![r] = "read"] /\ online' = [online EXCEPT ![r] = rpc]
      /\ fresh' = [fresh EXCEPT ![r] = IF rpc THEN {v \in VaultsOf(Pair) : ~Deployed(v)} ELSE VaultsOf(Pair)]
      /\ UNCHANGED <<plan, phase, proposed, queue, credited, careful, report, governor, balanceOf, tokens>>
  BY Zenon DEF ReadVaults, vaults, contract, token, safe
<1>2. RunsInOrder'
  <2>1. \A q \in Run : q # r => ~Active(q)'
    BY Zenon, <1>1 DEF RunTypes, Active
  <2>2. \A q \in Run : step'[q] # "built" => plan'[q] = {} /\ report'[q] = "none"
    BY Zenon, <1>1 DEF FundingInv, RunsInOrder, RunTypes
  <2> QED
    BY Zenon, <1>1, <2>1, <2>2 DEF FundingInv, RunsInOrder, Range
<1>3. CreditsShow'
  BY Zenon, <1>1 DEF FundingInv, CreditsShow, Credit, Deployed
<1>4. ReadIsCurrent'
  <2> SUFFICES ASSUME NEW q \in Run, (step[q])' = "read", (online[q])', NEW p \in Pair
               PROVE  /\ p[1] \in (fresh[q])' => (credited[p])' = 0
                      /\ p[1] \notin (fresh[q])' => Deployed(p[1])'
    BY Zenon DEF ReadIsCurrent
  <2>1. CASE q # r
    BY Zenon, <1>1, <2>1 DEF RunTypes
  <2>2. CASE q = r
    <3>1. rpc
      BY Zenon, <1>1, <2>2 DEF RunTypes
    <3>2. fresh'[q] = {v \in VaultsOf(Pair) : ~Deployed(v)}
      BY Zenon, <1>1, <2>2, <3>1 DEF RunTypes
    <3>3. p[1] \in VaultsOf(Pair)
      BY Zenon DEF VaultsOf
    <3>4. ~Deployed(p[1]) => credited[p] = 0
      BY Zenon DEF FundingInv, CreditsShow
    <3> QED
      BY Zenon, <1>1, <3>2, <3>3, <3>4 DEF Deployed
  <2> QED
    BY Zenon, <2>1, <2>2
<1>5. Once'
  BY ZenonT(40), <1>1 DEF FundingInv, Once, Range
<1>6. ReconcileOkMeansDone'
  BY Zenon, <1>1 DEF FundingInv, ReconcileOkMeansDone
<1> QED
  BY Zenon, <1>2, <1>3, <1>4, <1>5, <1>6 DEF FundingInv

\* A build writes its plan or stops.
LEMMA WritePlanFunding ==
  ASSUME RunTypes, FundingInv, ~open, UNCHANGED open, NEW r \in Run,
         NEW ph \in {"all", "deploy", "fund"}, NEW skip \in BOOLEAN, NEW allow \in BOOLEAN,
         WritePlan(r, ph, skip, allow)
  PROVE  FundingInv'
<1>1. /\ step[r] = "read"
      /\ UNCHANGED <<proposed, queue, credited, report, governor, balanceOf, tokens>>
      /\ \A q \in Run \ {r} : /\ step'[q] = step[q] /\ plan'[q] = plan[q] /\ phase'[q] = phase[q]
                              /\ fresh'[q] = fresh[q] /\ online'[q] = online[q]
  BY Zenon DEF WritePlan, RunTypes, vaults, contract, token, safe
<1>2. \/ /\ step'[r] = "none" /\ plan'[r] = {} /\ (careful' => careful)
      \/ /\ step'[r] = "built" /\ plan'[r] = Included(r, skip) /\ fresh'[r] = fresh[r]
         /\ careful' => careful /\ online[r] /\ ~Stops(r, skip, FALSE)
  BY Zenon DEF WritePlan, RunTypes, Stops
<1>3. plan[r] = {} /\ report[r] = "none"
  BY Zenon, <1>1 DEF FundingInv, RunsInOrder
<1>4. RunsInOrder'
  <2>1. \A q \in Run : Active(q)' => Active(q)
    BY Zenon, <1>1 DEF Active
  <2>2. \A q \in Run : step'[q] # "built" => plan'[q] = {} /\ report'[q] = "none"
    BY Zenon, <1>1, <1>2, <1>3 DEF FundingInv, RunsInOrder
  <2> QED
    BY SMTT(30), <1>1, <2>1, <2>2 DEF FundingInv, RunsInOrder, Range
<1>5. CreditsShow'
  BY Zenon, <1>1 DEF FundingInv, CreditsShow, Credit, Deployed
<1>6. ReadIsCurrent'
  BY Zenon, <1>1, <1>2 DEF FundingInv, ReadIsCurrent, Deployed
<1>7. Once'
  <2> SUFFICES ASSUME careful', NEW p \in Pair
               PROVE  /\ credited[p] \in {0, List[p]}
                      /\ \A q \in Run :
                           /\ p \in plan'[q] /\ phase'[q] # "deploy"
                           /\ <<q, Part[p]>> \in Range(queue) \/ <<q, Part[p]>> \notin proposed
                           => credited[p] = 0
    BY <1>1 DEF Once, Range
  <2>1. careful
    BY Zenon, <1>2
  <2>2. p \in plan'[r] => credited[p] = 0
    BY Zenon, <1>1, <1>2, PlanIsOwed DEF FundingInv
  <2> QED
    BY Zenon, <1>1, <2>1, <2>2 DEF FundingInv, Once
<1>8. ReconcileOkMeansDone'
  BY Zenon, <1>1, <1>2, <1>3 DEF FundingInv, ReconcileOkMeansDone
<1> QED
  BY Zenon, <1>4, <1>5, <1>6, <1>7, <1>8 DEF FundingInv

\* A transaction is proposed.
LEMMA ProposeFunding ==
  ASSUME RunTypes, FundingInv, ~open, UNCHANGED open, NEW r \in Run, NEW t \in Transactions(r), Propose(r, t)
  PROVE  FundingInv'
<1>1. /\ t \notin proposed /\ proposed' = proposed \cup {t} /\ queue' = Append(queue, t)
      /\ UNCHANGED <<step, online, fresh, plan, phase, credited, report, careful, governor, balanceOf, tokens>>
  BY Zenon DEF Propose, vaults, contract, token, builds
<1>2. t \in Transaction
  BY DEF Transactions, Transaction, RunTypes
<1>3. /\ Range(queue)' = Range(queue) \cup {t}
      /\ \A i, j \in DOMAIN queue' : queue'[i] = queue'[j] => i = j
  <2>1. t \notin Range(queue) /\ \A i, j \in DOMAIN queue : queue[i] = queue[j] => i = j
    BY Zenon, <1>1 DEF FundingInv, RunsInOrder
  <2>2. queue \in Seq(Transaction)
    BY Zenon DEF RunTypes
  <2> QED
    BY <1>1, <1>2, <2>1, <2>2, AppendFacts
<1>4. RunsInOrder'
  BY Zenon, <1>1, <1>3 DEF FundingInv, RunsInOrder, Active
<1>5. Once'
  <2> SUFFICES ASSUME careful, NEW p \in Pair
               PROVE  /\ credited[p] \in {0, List[p]}
                      /\ \A q \in Run :
                           /\ p \in plan[q] /\ phase[q] # "deploy"
                           /\ <<q, Part[p]>> \in Range(queue)' \/ <<q, Part[p]>> \notin proposed'
                           => credited[p] = 0
    BY Zenon, <1>1 DEF Once
  <2> QED
    BY Zenon, <1>1, <1>3 DEF FundingInv, Once
<1>6. CreditsShow' /\ ReadIsCurrent'
  BY Zenon, <1>1 DEF FundingInv, CreditsShow, ReadIsCurrent, Credit, Deployed
<1>7. ReconcileOkMeansDone'
  BY Zenon, <1>1 DEF FundingInv, ReconcileOkMeansDone
<1> QED
  BY Zenon, <1>4, <1>5, <1>6, <1>7 DEF FundingInv

\* A run is finished or given up.
LEMMA FinishFunding ==
  ASSUME RunTypes, FundingInv, ~open, UNCHANGED open, NEW r \in Run, Finish(r)
  PROVE  FundingInv'
<1>1. /\ ~InQueue(r)
      /\ step'[r] = "none" /\ plan'[r] = {} /\ report'[r] = "none"
      /\ \A q \in Run \ {r} : /\ step'[q] = step[q] /\ plan'[q] = plan[q] /\ phase'[q] = phase[q]
                              /\ fresh'[q] = fresh[q] /\ online'[q] = online[q] /\ report'[q] = report[q]
      /\ proposed' = {t \in proposed : t[1] # r}
      /\ UNCHANGED <<queue, credited, careful, governor, balanceOf, tokens>>
  BY Zenon DEF Finish, RunTypes, vaults, contract, token
<1>2. RunsInOrder'
  <2>1. \A q \in Run : Active(q)' => Active(q)
    BY Zenon, <1>1 DEF Active
  <2>2. \A q \in Run : step'[q] # "built" => plan'[q] = {} /\ report'[q] = "none"
    BY Zenon, <1>1 DEF FundingInv, RunsInOrder
  <2>3. Range(queue)' \subseteq proposed'
    BY <1>1 DEF FundingInv, RunsInOrder, InQueue, Range
  <2> QED
    BY Zenon, <1>1, <2>1, <2>2, <2>3 DEF FundingInv, RunsInOrder
<1>3. Once'
  <2>1. ASSUME careful, NEW p \in Pair, NEW q \in Run, p \in plan'[q], phase'[q] # "deploy",
               <<q, Part[p]>> \in Range(queue) \/ <<q, Part[p]>> \notin proposed'
        PROVE  credited[p] = 0
    <3>1. q # r
      BY Zenon, <1>1, <2>1
    <3>2. <<q, Part[p]>>[1] # r
      BY Zenon, <3>1
    <3>3. <<q, Part[p]>> \in Range(queue) \/ <<q, Part[p]>> \notin proposed
      BY Zenon, <1>1, <2>1, <3>2
    <3> QED
      BY Zenon, <1>1, <2>1, <3>1, <3>3 DEF FundingInv, Once
  <2> QED
    BY <1>1, <2>1 DEF FundingInv, Once, Range
<1>4. CreditsShow' /\ ReadIsCurrent'
  BY Zenon, <1>1 DEF FundingInv, CreditsShow, ReadIsCurrent, Credit, Deployed
<1>5. ReconcileOkMeansDone'
  BY Zenon, <1>1 DEF FundingInv, ReconcileOkMeansDone
<1> QED
  BY Zenon, <1>2, <1>3, <1>4, <1>5 DEF FundingInv

\* A report is in order only for a run whose deposits were made.
LEMMA ReconcileFunding ==
  ASSUME RunTypes, VaultTypes, FundingInv, ~open, UNCHANGED open, NEW r \in Run, Reconcile(r)
  PROVE  FundingInv'
<1>1. /\ step[r] = "built" /\ report' = [report EXCEPT ![r] = IF Reconciled(r) THEN "ok" ELSE "differs"]
      /\ UNCHANGED <<step, online, fresh, plan, phase, proposed, queue, credited, careful, governor, balanceOf, tokens>>
  BY Zenon DEF Reconcile, vaults, contract, token, builds, safe
<1>2. RunsInOrder'
  BY SMTT(30), <1>1 DEF FundingInv, RunsInOrder, RunTypes, Active, Range
<1>3. CreditsShow' /\ ReadIsCurrent'
  BY Zenon, <1>1 DEF FundingInv, CreditsShow, ReadIsCurrent, Credit, Deployed
<1>4. Once'
  BY Zenon, <1>1 DEF FundingInv, Once, Range
<1>5. ReconcileOkMeansDone'
  <2> SUFFICES ASSUME careful, NEW q \in Run, report'[q] = "ok", NEW p \in plan[q]
               PROVE  credited[p] = List[p]
    BY Zenon, <1>1 DEF ReconcileOkMeansDone
  <2>1. CASE q # r
    BY Zenon, <1>1, <2>1 DEF RunTypes, FundingInv, ReconcileOkMeansDone
  <2>2. CASE q = r
    <3>1. Reconciled(r) /\ p \in Pair
      BY Zenon, <1>1, <2>2 DEF RunTypes
    <3>2. p[1] \in VaultsOf(plan[r]) /\ p \in Of(plan[r], p[1])
      BY Zenon, <2>2 DEF VaultsOf, Of
    <3>3. Credit(p) = List[p]
      BY Zenon, <3>1, <3>2 DEF Reconciled
    <3>4. Credit(p) <= credited[p] /\ credited[p] \in {0, List[p]}
      BY Zenon, <3>1 DEF FundingInv, CreditsShow, Once
    <3> QED
      BY <3>1, <3>3, <3>4, ListFacts
  <2> QED
    BY Zenon, <2>1, <2>2
<1> QED
  BY Zenon, <1>2, <1>3, <1>4, <1>5 DEF FundingInv

\* Steps that credit nobody: vaults are deployed, or the queue gets shorter.
LEMMA QuietFunding ==
  ASSUME RunTypes, FundingInv, ~open,
         UNCHANGED <<step, online, fresh, plan, phase, proposed, credited, report, careful, open, balanceOf>>,
         Range(queue)' \subseteq Range(queue),
         \A i, j \in DOMAIN queue' : queue'[i] = queue'[j] => i = j,
         \A v \in Vault : Deployed(v) => Deployed(v)'
  PROVE  FundingInv'
<1>1. \A p \in Pair : p[1] \in Vault
  BY Zenon, ListFacts
<1>2. RunsInOrder'
  BY Zenon DEF FundingInv, RunsInOrder, Active
<1>3. CreditsShow' /\ ReadIsCurrent'
  <2>1. \A p \in Pair : Deployed(p[1]) => Deployed(p[1])'
    BY Zenon, <1>1 DEF Deployed
  <2>2. CreditsShow'
    BY Zenon, <2>1 DEF FundingInv, CreditsShow, Credit
  <2>3. ReadIsCurrent'
    BY Zenon, <2>1 DEF FundingInv, ReadIsCurrent
  <2> QED
    BY Zenon, <2>2, <2>3
<1>4. Once'
  BY Zenon DEF FundingInv, Once
<1>5. ReconcileOkMeansDone'
  BY Zenon DEF FundingInv, ReconcileOkMeansDone
<1> QED
  BY Zenon, <1>2, <1>3, <1>4, <1>5 DEF FundingInv

\* The queue after its first transaction was executed or rejected.
LEMMA QueueAdvances ==
  ASSUME RunTypes, FundingInv, queue # <<>>, queue' = Tail(queue)
  PROVE  /\ Head(queue) \in Range(queue) /\ Head(queue) \in proposed
         /\ Range(queue)' = Range(queue) \ {Head(queue)}
         /\ \A i, j \in DOMAIN queue' : queue'[i] = queue'[j] => i = j
<1>1. queue \in Seq(Transaction) /\ \A i, j \in DOMAIN queue : queue[i] = queue[j] => i = j
  BY Zenon DEF RunTypes, FundingInv, RunsInOrder
<1>2. /\ Head(queue) \in Range(queue) /\ Range(Tail(queue)) = Range(queue) \ {Head(queue)}
      /\ \A i, j \in DOMAIN Tail(queue) : Tail(queue)[i] = Tail(queue)[j] => i = j
  BY Zenon, <1>1, TailFacts
<1>3. Head(queue) \in proposed
  BY Zenon, <1>2 DEF FundingInv, RunsInOrder
<1> QED
  BY Zenon, <1>2, <1>3 DEF Range

\* The review, a rejection, and a deployment that is not the Safe's.
LEMMA OtherFunding ==
  ASSUME RunTypes, VaultTypes, FundingInv, ~open, UNCHANGED open,
         Show \/ Drop \/ \E v \in Vault : DeployByOthers(v)
  PROVE  FundingInv'
<1> USE DEF builds, safe, vaults, contract, token
<1>1. CASE Show
  <2>1. /\ UNCHANGED <<step, online, fresh, plan, phase, proposed, credited, report, careful, open, balanceOf>>
        /\ Range(queue)' \subseteq Range(queue)
        /\ \A i, j \in DOMAIN queue' : queue'[i] = queue'[j] => i = j
        /\ \A v \in Vault : Deployed(v)' <=> Deployed(v)
    BY Zenon, <1>1 DEF Show, FundingInv, RunsInOrder, Range, Deployed
  <2> QED
    BY Zenon, <2>1, QuietFunding
<1>2. CASE Drop
  <2>1. /\ UNCHANGED <<step, online, fresh, plan, phase, proposed, credited, report, careful, open, balanceOf>>
        /\ \A v \in Vault : Deployed(v)' <=> Deployed(v)
    BY Zenon, <1>2 DEF Drop, Deployed
  <2>2. /\ Range(queue)' \subseteq Range(queue)
        /\ \A i, j \in DOMAIN queue' : queue'[i] = queue'[j] => i = j
    BY Zenon, <1>2, QueueAdvances DEF Drop
  <2> QED
    BY Zenon, <2>1, <2>2, QuietFunding
<1>3. ASSUME NEW v \in Vault, DeployByOthers(v)
      PROVE  FundingInv'
  <2>1. /\ UNCHANGED <<step, online, fresh, plan, phase, proposed, credited, report, careful, open, balanceOf>>
        /\ Range(queue)' \subseteq Range(queue)
        /\ \A i, j \in DOMAIN queue' : queue'[i] = queue'[j] => i = j
    BY Zenon, <1>3 DEF DeployByOthers, Construct, FundingInv, RunsInOrder, Range
  <2>2. \A u \in Vault : Deployed(u)' <=> Deployed(u) \/ u = v
    BY Zenon, <1>3, GovernorIsAnAccount DEF DeployByOthers, Construct, Deployed, VaultTypes
  <2> QED
    BY Zenon, <2>1, <2>2, QuietFunding
<1> QED
  BY Zenon, <1>1, <1>2, <1>3

\* A funding transaction is executed: none of its deposits was made before.
LEMMA FundFunding ==
  ASSUME RunTypes, VaultTypes, FundingInv, ~open, UNCHANGED open, queue # <<>>, queue' = Tail(queue),
         UNCHANGED <<proposed, builds, report, careful>>,
         NEW t \in Transaction, t = Head(queue), t[2] # "deploy", Fund(Funds(t))
  PROVE  FundingInv'
<1> DEFINE live == {p \in Funds(t) : Deployed(p[1])}
           more(p) == IF p \in live THEN List[p] ELSE 0
<1>1. /\ balanceOf' = [v \in Vault |-> [a \in Holder |->
                         balanceOf[v][a] + IF <<v, a>> \in live THEN List[<<v, a>>] ELSE 0]]
      /\ credited' = [p \in Pair |-> credited[p] + more(p)]
      /\ governor' = governor
      /\ UNCHANGED <<step, online, fresh, plan, phase, proposed, report, careful, open>>
  BY Zenon DEF Fund, builds
<1>2. t[1] \in Run /\ t = <<t[1], t[2]>>
  BY DEF Transaction
<1>3. \A p \in live : /\ p \in plan[t[1]] /\ phase[t[1]] # "deploy" /\ Part[p] = t[2] /\ Deployed(p[1])
                      /\ t = <<t[1], Part[p]>> /\ p \in Pair
  BY Zenon, <1>2 DEF Funds, RunTypes
<1>4. /\ t \in Range(queue) /\ t \in proposed /\ Range(queue)' = Range(queue) \ {t}
      /\ \A i, j \in DOMAIN queue' : queue'[i] = queue'[j] => i = j
  BY Zenon, QueueAdvances
<1>5. live # {} => Active(t[1]) /\ step[t[1]] = "built"
  BY Zenon, <1>2, <1>3, FundingIsActive DEF FundingInv
<1> HIDE DEF live
<1>6. careful => \A p \in live : credited[p] = 0
  BY ZenonT(40), <1>2, <1>3, <1>4 DEF FundingInv, Once
<1>7. \A p \in Pair : /\ more(p) \in Nat /\ credited[p] \in Nat /\ Credit(p) \in Nat
                      /\ Credit(p)' = Credit(p) + more(p) /\ credited'[p] = credited[p] + more(p)
  <2> SUFFICES ASSUME NEW p \in Pair
               PROVE  /\ more(p) \in Nat /\ credited[p] \in Nat /\ Credit(p) \in Nat
                      /\ Credit(p)' = Credit(p) + more(p) /\ credited'[p] = credited[p] + more(p)
    BY Zenon
  <2>1. p[1] \in Vault /\ p[2] \in Holder /\ p = <<p[1], p[2]>>
    BY Zenon, ListFacts
  <2>2. more(p) \in Nat
    BY Zenon, ListFacts
  <2>3. credited[p] \in Nat /\ Credit(p) \in Nat
    BY Zenon, <2>1 DEF RunTypes, VaultTypes, Credit
  <2>4. balanceOf'[p[1]][p[2]] = balanceOf[p[1]][p[2]] + (IF <<p[1], p[2]>> \in live THEN List[<<p[1], p[2]>>] ELSE 0)
    BY Zenon, <1>1, <2>1
  <2> QED
    BY Zenon, <1>1, <2>1, <2>2, <2>3, <2>4 DEF Credit
<1>8. RunsInOrder'
  <2>1. \A q \in Run : Active(q)' <=> Active(q)
    BY Zenon, <1>1 DEF Active
  <2>2. \A q \in Run : step'[q] # "built" => plan'[q] = {} /\ report'[q] = "none"
    BY Zenon, <1>1 DEF FundingInv, RunsInOrder
  <2>3. (\A q, r \in Run : Active(q) /\ Active(r) => q = r) /\ Range(queue)' \subseteq proposed'
    BY Zenon, <1>1, <1>4 DEF FundingInv, RunsInOrder
  <2>4. ~open'
    BY <1>1
  <2>5. \A i, j \in DOMAIN queue' : queue'[i] = queue'[j] => i = j
    BY Zenon, <1>4
  <2>6. \A q, r \in Run : Active(q)' /\ Active(r)' => q = r
    BY Zenon, <2>1, <2>3
  <2> QED
    BY Zenon, <2>2, <2>3, <2>4, <2>5, <2>6 DEF RunsInOrder
<1>9. CreditsShow'
  <2>1. ASSUME NEW p \in Pair
        PROVE  /\ Credit(p)' <= credited'[p]
               /\ Credit(p)' = 0 => credited'[p] = 0
               /\ credited'[p] # 0 => Deployed(p[1])
    <3>1. /\ Credit(p) <= credited[p] /\ (Credit(p) = 0 => credited[p] = 0)
          /\ credited[p] # 0 => Deployed(p[1])
      BY Zenon DEF FundingInv, CreditsShow
    <3>2. more(p) # 0 => Deployed(p[1])
      BY Zenon, <1>3
    <3> HIDE DEF more
    <3> QED
      BY <1>7, <3>1, <3>2
  <2> QED
    BY Zenon, <1>1, <2>1 DEF CreditsShow, Deployed
<1>10. ReadIsCurrent'
  <2>1. ASSUME NEW r \in Run, step[r] = "read"
        PROVE  live = {}
    <3>1. Active(r)
      BY Zenon, <2>1 DEF Active
    <3> QED
      BY Zenon, <1>2, <1>5, <2>1, <3>1 DEF FundingInv, RunsInOrder
  <2>2. live = {} => \A p \in Pair : credited'[p] = credited[p]
    BY <1>7
  <2> QED
    BY Zenon, <1>1, <2>1, <2>2 DEF FundingInv, ReadIsCurrent, Deployed
<1>11. Once'
  <2> SUFFICES ASSUME careful, NEW p \in Pair
               PROVE  /\ credited'[p] \in {0, List[p]}
                      /\ \A r \in Run :
                           /\ p \in plan[r] /\ phase[r] # "deploy"
                           /\ <<r, Part[p]>> \in Range(queue)' \/ <<r, Part[p]>> \notin proposed
                           => credited'[p] = 0
    BY <1>1 DEF Once
  <2>1. CASE p \notin live
    <3>1. credited'[p] = credited[p]
      <4>1. more(p) = 0
        BY Zenon, <2>1
      <4> HIDE DEF more
      <4> QED
        BY <1>7, <4>1
    <3> QED
      BY Zenon, <1>4, <3>1 DEF FundingInv, Once
  <2>2. CASE p \in live
    <3>1. credited'[p] = List[p]
      BY <1>6, <1>7, <2>2
    <3>2. ASSUME NEW r \in Run, p \in plan[r], phase[r] # "deploy",
                 <<r, Part[p]>> \in Range(queue)' \/ <<r, Part[p]>> \notin proposed
          PROVE  FALSE
      <4>1. Active(r) /\ Active(t[1])
        BY Zenon, <1>2, <1>3, <2>2, <3>2, FundingIsActive DEF FundingInv
      <4>2. r = t[1]
        BY Zenon, <1>2, <4>1 DEF FundingInv, RunsInOrder
      <4>3. <<r, Part[p]>> = t
        BY Zenon, <1>3, <2>2, <4>2
      <4> QED
        BY Zenon, <1>4, <3>2, <4>3
    <3> QED
      BY Zenon, <3>1, <3>2
  <2> QED
    BY Zenon, <2>1, <2>2
<1>12. ReconcileOkMeansDone'
  <2> SUFFICES ASSUME careful, NEW r \in Run, report[r] = "ok", NEW p \in plan[r]
               PROVE  credited'[p] = List[p]
    <3>1. UNCHANGED <<plan, report, careful>>
      BY Zenon, <1>1
    <3> QED
      BY <3>1 DEF ReconcileOkMeansDone
  <2>1. p \in Pair /\ credited[p] = List[p]
    BY Zenon DEF RunTypes, FundingInv, ReconcileOkMeansDone
  <2>2. p \notin live
    BY Zenon, <1>6, <2>1, ListFacts
  <2> QED
    BY <1>7, <2>1, <2>2
<1> QED
  BY Zenon, <1>8, <1>9, <1>10, <1>11, <1>12 DEF FundingInv

\* The owners' step.
LEMMA ExecuteFunding ==
  ASSUME RunTypes, VaultTypes, FundingInv, ~open, UNCHANGED open, Execute
  PROVE  FundingInv'
<1>1. queue # <<>>
  BY Zenon DEF Execute
<1>2. PICK t \in Transaction : t = Head(queue)
  BY Zenon, <1>1, HeadOfQueue
<1>3. /\ IF t[2] = "deploy" THEN Create(Creates(t)) ELSE Fund(Funds(t))
      /\ queue' = Tail(queue) /\ UNCHANGED <<proposed, builds, report, careful>>
  BY Zenon, <1>2 DEF Execute
<1>4. CASE t[2] = "deploy"
  <2>1. t[1] \in Run /\ Creates(t) = Deploys(t[1]) /\ Create(Creates(t))
    BY Zenon, <1>3, <1>4 DEF Transaction, Creates
  <2>2. UNCHANGED <<step, online, fresh, plan, phase, proposed, credited, report, careful, open, balanceOf>>
    BY Zenon, <1>3, <2>1 DEF Create, builds
  <2>3. \A v \in Vault : Deployed(v)' <=> Deployed(v) \/ v \in Deploys(t[1])
    BY Zenon, <2>1, GovernorIsAnAccount DEF Create, Deployed, VaultTypes
  <2>4. /\ Range(queue)' \subseteq Range(queue)
        /\ \A i, j \in DOMAIN queue' : queue'[i] = queue'[j] => i = j
    BY Zenon, <1>1, <1>3, QueueAdvances
  <2> QED
    BY Zenon, <2>1, <2>2, <2>3, <2>4, QuietFunding
<1>5. CASE t[2] # "deploy"
  BY Zenon, <1>1, <1>2, <1>3, <1>5, FundFunding
<1> QED
  BY Zenon, <1>4, <1>5

\* A delegator withdraws, and leaves something.
LEMMA WithdrawFunding ==
  ASSUME Rest > 0, RunTypes, VaultTypes, FundingInv, ~open, UNCHANGED open,
         NEW p \in Pair, NEW amount \in 1 .. MaxUint, Withdraw(p, amount)
  PROVE  FundingInv'
<1>1. /\ Credit(p) - amount >= Rest
      /\ balanceOf' = [balanceOf EXCEPT ![p[1]][p[2]] = @ - amount]
      /\ UNCHANGED <<step, online, fresh, plan, phase, proposed, queue, credited, report, careful, governor>>
  BY Zenon DEF Withdraw, withdraw, builds, safe
<1>2. amount \in Nat /\ Rest \in Nat
  BY VaultAssumption, RunAssumption
<1>3. CreditsShow'
  <2>1. ASSUME NEW q \in Pair
        PROVE  Credit(q)' <= credited[q] /\ (Credit(q)' = 0 => credited[q] = 0)
    <3>1. /\ p[1] \in Vault /\ p[2] \in Holder /\ q[1] \in Vault /\ q[2] \in Holder
          /\ p = <<p[1], p[2]>> /\ q = <<q[1], q[2]>>
      BY Zenon, ListFacts
    <3>2. Credit(q) \in Nat /\ Credit(p) \in Nat /\ credited[q] \in Nat
      BY ZenonT(40), <3>1 DEF Credit, VaultTypes, RunTypes
    <3>3. Credit(q) <= credited[q] /\ (Credit(q) = 0 => credited[q] = 0)
      BY Zenon DEF FundingInv, CreditsShow
    <3>4. CASE q = p
      <4>1. Credit(q)' = Credit(p) - amount
        BY Zenon, <1>1, <3>1, <3>4 DEF Credit, VaultTypes
      <4> QED
        BY <1>1, <1>2, <3>2, <3>3, <3>4, <4>1
    <3>5. CASE q # p
      <4>1. q[1] # p[1] \/ q[2] # p[2]
        BY Zenon, <3>1, <3>5
      <4>2. Credit(q)' = Credit(q)
        BY Zenon, <1>1, <3>1, <4>1 DEF Credit, VaultTypes
      <4> QED
        BY Zenon, <3>3, <4>2
    <3> QED
      BY Zenon, <3>4, <3>5
  <2> QED
    BY Zenon, <1>1, <2>1 DEF FundingInv, CreditsShow, Deployed
<1>4. RunsInOrder' /\ ReadIsCurrent' /\ Once'
  BY SMTT(30), <1>1 DEF FundingInv, RunsInOrder, ReadIsCurrent, Once, Range, Deployed, Active
<1>5. ReconcileOkMeansDone'
  BY Zenon, <1>1 DEF FundingInv, ReconcileOkMeansDone
<1> QED
  BY Zenon, <1>3, <1>4, <1>5 DEF FundingInv

\* In the first state nothing was built, proposed or credited.
LEMMA InitFunding ==
  ASSUME Init
  PROVE  FundingInv
<1>1. RunsInOrder
  <2>1. \A r \in Run : ~Active(r) /\ plan[r] = {} /\ report[r] = "none"
    BY Zenon DEF Init, Active
  <2>2. Range(queue) = {} /\ DOMAIN queue = {}
    BY DEF Init, Range
  <2>3. ~open
    BY Zenon DEF Init
  <2> QED
    BY Zenon, <2>1, <2>2, <2>3 DEF RunsInOrder
<1>2. CreditsShow
  <2>1. \A p \in Pair : Credit(p) = 0 /\ credited[p] = 0
    BY Zenon, ListFacts DEF Init, VaultInit, Credit
  <2> QED
    BY <2>1 DEF CreditsShow
<1>3. ReadIsCurrent
  BY Zenon DEF Init, ReadIsCurrent
<1>4. Once
  BY Zenon DEF Init, Once
<1>5. ReconcileOkMeansDone
  BY Zenon DEF Init, ReconcileOkMeansDone
<1> QED
  BY Zenon, <1>1, <1>2, <1>3, <1>4, <1>5 DEF FundingInv

\* The funding ends: no run is left, and the history starts anew.
LEMMA OpenFunding ==
  ASSUME RunTypes, FundingInv, ~open, Open
  PROVE  FundingInv'
<1>1. /\ \A r \in Run : step[r] = "none"
      /\ open' /\ \A p \in Pair : credited'[p] = 0
      /\ UNCHANGED <<step, plan, phase, report, proposed, queue>>
  BY Zenon DEF Open, builds
<1>2. \A r \in Run : plan[r] = {} /\ report[r] = "none"
  BY Zenon, <1>1 DEF FundingInv, RunsInOrder
<1>3. RunsInOrder'
  <2>1. \A r \in Run : ~ Active(r)'
    BY Zenon, <1>1 DEF Active
  <2>2. Range(queue') = Range(queue)
    BY Zenon, <1>1
  <2> QED
    BY Zenon, <1>1, <1>2, <2>1, <2>2 DEF FundingInv, RunsInOrder
<1>4. CreditsShow' /\ ReadIsCurrent'
  BY Zenon, <1>1 DEF CreditsShow, ReadIsCurrent
<1>5. Once'
  BY Zenon, <1>1 DEF Once
<1>6. ReconcileOkMeansDone'
  BY Zenon, <1>1, <1>2 DEF ReconcileOkMeansDone
<1> QED
  BY Zenon, <1>3, <1>4, <1>5, <1>6 DEF FundingInv

\* The vaults are used: the runs are not touched.
LEMMA UseFunding ==
  ASSUME RunTypes, FundingInv, Use
  PROVE  FundingInv'
<1>1. open' /\ UNCHANGED <<step, plan, phase, report, proposed, queue, credited, careful, open>>
  BY Zenon DEF Use, builds, safe
<1>2. RunsInOrder' /\ Once' /\ ReconcileOkMeansDone'
  <2>1. Range(queue)' = Range(queue) /\ \A r \in Run : Active(r)' <=> Active(r)
    BY Zenon, <1>1 DEF Active, Range
  <2>2. RunsInOrder'
    BY Zenon, <1>1, <2>1 DEF FundingInv, RunsInOrder
  <2>3. Once' /\ ReconcileOkMeansDone'
    BY Zenon, <1>1, <2>1 DEF FundingInv, Once, ReconcileOkMeansDone
  <2> QED
    BY Zenon, <2>2, <2>3
<1>3. CreditsShow' /\ ReadIsCurrent'
  BY Zenon, <1>1 DEF CreditsShow, ReadIsCurrent
<1> QED
  BY Zenon, <1>2, <1>3 DEF FundingInv

\* Every step.
LEMMA NextFunding ==
  ASSUME Sequential, Rest > 0, AccountInv, FundingInv, [Next]_vars
  PROVE  FundingInv'
<1>0. RunTypes /\ VaultTypes
  BY Zenon DEF AccountInv
<1>1. CASE UNCHANGED vars
  <2>1. UNCHANGED <<step, online, fresh, plan, phase, proposed, queue, credited, report, careful, open,
                    governor, balanceOf>>
    BY Zenon, <1>1 DEF vars, vaults, contract, builds, safe
  <2>2. RunsInOrder' /\ CreditsShow' /\ ReadIsCurrent'
    <3>1. Range(queue)' = Range(queue) /\ \A r \in Run : Active(r)' <=> Active(r)
      BY Zenon, <2>1 DEF Active, Range
    <3>2. RunsInOrder'
      BY Zenon, <2>1, <3>1 DEF FundingInv, RunsInOrder
    <3>3. CreditsShow' /\ ReadIsCurrent'
      BY Zenon, <2>1 DEF FundingInv, CreditsShow, ReadIsCurrent, Credit, Deployed
    <3> QED
      BY Zenon, <3>2, <3>3
  <2>3. Once' /\ ReconcileOkMeansDone'
    BY Zenon, <2>1 DEF FundingInv, Once, ReconcileOkMeansDone, Range
  <2> QED
    BY Zenon, <2>2, <2>3 DEF FundingInv
<1>2. ASSUME ~open, Funding, UNCHANGED open
      PROVE  FundingInv'
  <2>1. Rpc \subseteq BOOLEAN /\ Allow \subseteq BOOLEAN
    BY Zenon, RunAssumption
  <2>2. ASSUME NEW r \in Run, NEW rpc \in Rpc, ReadVaults(r, rpc)
        PROVE  FundingInv'
    BY Zenon, <1>0, <1>2, <2>1, <2>2, ReadVaultsFunding
  <2>3. ASSUME NEW r \in Run, NEW ph \in {"all", "deploy", "fund"}, NEW skip \in BOOLEAN, NEW allow \in Allow,
               WritePlan(r, ph, skip, allow)
        PROVE  FundingInv'
    BY Zenon, <1>0, <1>2, <2>1, <2>3, WritePlanFunding
  <2>4. ASSUME NEW r \in Run, NEW t \in Transactions(r), Propose(r, t)
        PROVE  FundingInv'
    BY Zenon, <1>0, <1>2, <2>4, ProposeFunding
  <2>5. ASSUME NEW r \in Run, Reconcile(r) \/ Finish(r)
        PROVE  FundingInv'
    BY Zenon, <1>0, <1>2, <2>5, ReconcileFunding, FinishFunding
  <2>6. ASSUME NEW p \in Pair, NEW amount \in 1 .. MaxUint, Withdraw(p, amount)
        PROVE  FundingInv'
    BY Zenon, <1>0, <1>2, <2>6, WithdrawFunding
  <2>7. CASE Execute
    BY Zenon, <1>0, <1>2, <2>7, ExecuteFunding
  <2>8. CASE Show \/ Drop \/ \E v \in Vault : DeployByOthers(v)
    BY Zenon, <1>0, <1>2, <2>8, OtherFunding
  <2>9. \A r \in Run, v \in Vault : DeployByKey(r, v) => DeployByOthers(v)
    BY Zenon DEF DeployByKey, DeployByOthers
  <2> QED
    BY Zenon, <1>2, <2>2, <2>3, <2>4, <2>5, <2>6, <2>7, <2>8, <2>9 DEF Funding
<1>3. CASE ~open /\ Open
  BY Zenon, <1>0, <1>3, OpenFunding
<1>4. CASE Use
  BY Zenon, <1>0, <1>4, UseFunding
<1> QED
  BY Zenon, <1>1, <1>2, <1>3, <1>4 DEF Next

\* The funding is in order in every state, when runs are made one after the other
\* and a delegator who withdraws leaves something.
THEOREM FundingInvariant ==
  ASSUME Sequential, Rest > 0
  PROVE  Spec => []FundingInv
<1>1. Init => FundingInv
  BY Zenon, InitFunding
<1>2. FundingInv /\ AccountInv /\ [Next]_vars => FundingInv'
  BY Zenon, NextFunding
<1> QED
  BY <1>1, <1>2, AccountsInvariant, PTL DEF Spec

\* Then the Safe credits nobody more than the deposit list says, however builds
\* are repeated after transactions were executed, dropped or overtaken
\* (NeverCreditedTwice).
THEOREM NobodyIsCreditedTwice ==
  ASSUME Sequential, Rest > 0
  PROVE  Spec => []NeverCreditedTwice
<1>1. FundingInv /\ AccountInv => NeverCreditedTwice
  <2>1. ASSUME FundingInv, careful, NEW p \in Pair
        PROVE  credited[p] <= List[p]
    BY <2>1, ListFacts DEF FundingInv, Once
  <2> QED
    BY Zenon, <2>1 DEF NeverCreditedTwice
<1> QED
  BY <1>1, FundingInvariant, AccountsInvariant, PTL

\* Then a run that reconcile reports in order was funded once (ReconcileOkMeansDone).
THEOREM ReconciledRunsAreDone ==
  ASSUME Sequential, Rest > 0
  PROVE  Spec => []ReconcileOkMeansDone
<1>1. FundingInv => ReconcileOkMeansDone
  BY Zenon DEF FundingInv
<1> QED
  BY <1>1, FundingInvariant, PTL

\* What a build with --skip-funded finds to do.
LEMMA RebuildFacts ==
  ASSUME RunTypes, FundingInv, NEW r \in Run, step[r] = "read", online[r], careful,
         \A p \in Pair : Credit(p) = credited[p]
  PROVE  /\ ~Stops(r, TRUE, FALSE)
         /\ Included(r, TRUE) =
              {p \in Pair : credited[p] = 0 /\ (p[1] \in fresh[r] => Total(Of(Pair, p[1])) >= MinVault)}
         /\ \A p, q \in Pair : p[1] = q[1] /\ credited[p] = 0 /\ credited[q] > 0 => p \in Included(r, TRUE)
<1> DEFINE rest == Pair \ Exact(r, TRUE)
<1>1. ~open
  BY Zenon DEF FundingInv, RunsInOrder
<1>2. \A p \in Pair : /\ credited[p] \in {0, List[p]}
                      /\ p[1] \in fresh[r] => credited[p] = 0
                      /\ p[1] \notin fresh[r] => Deployed(p[1])
  BY Zenon, <1>1 DEF FundingInv, Once, ReadIsCurrent
<1>3. Held(r) = {p \in Pair : credited[p] # 0}
  BY Zenon, <1>2 DEF Held
<1>4. Exact(r, TRUE) = Held(r)
  BY Zenon, <1>2, <1>3 DEF Exact
<1>5. ~Stops(r, TRUE, FALSE)
  BY Zenon, <1>4 DEF Stops
<1>6. rest = {p \in Pair : credited[p] = 0}
  BY Zenon, <1>3, <1>4
<1>7. Included(r, TRUE) = {p \in rest : p[1] \notin Excluded(r, rest)}
  BY Zenon DEF Included
<1> HIDE DEF rest
<1>8. ASSUME NEW p \in rest
      PROVE  p[1] \notin Excluded(r, rest) <=> (p[1] \in fresh[r] => Total(Of(Pair, p[1])) >= MinVault)
  <2>0. p \in Pair /\ p[1] \in VaultsOf(Pair) /\ p[1] \in VaultsOf(rest)
    BY Zenon, <1>6 DEF VaultsOf
  <2>1. CASE p[1] \in fresh[r]
    <3>1. Of(rest, p[1]) = Of(Pair, p[1])
      BY Zenon, <1>2, <1>6, <2>1 DEF Of
    <3>2. Of(Pair, p[1]) \in SUBSET Pair
      BY Zenon DEF Of
    <3>3. Total(Of(Pair, p[1])) \in Nat /\ MinVault \in Nat
      BY Zenon, <3>2, TotalFacts, RunAssumption
    <3> QED
      BY <2>0, <2>1, <3>1, <3>3 DEF Excluded
  <2>2. CASE p[1] \notin fresh[r]
    BY Zenon, <2>2 DEF Excluded
  <2> QED
    BY Zenon, <2>1, <2>2
<1>9. ASSUME NEW p \in Pair, NEW q \in Pair, p[1] = q[1], credited[p] = 0, credited[q] > 0
      PROVE  p \in Included(r, TRUE)
  <2>1. credited[q] # 0
    BY <1>9
  <2>2. p[1] \notin fresh[r] /\ p \in rest
    BY Zenon, <1>2, <1>6, <1>9, <2>1
  <2> QED
    BY Zenon, <1>7, <1>8, <2>2
<1> QED
  BY Zenon, <1>5, <1>6, <1>7, <1>8, <1>9

\* Then a build with --skip-funded takes the funding on, plans exactly the
\* deposits still to be made in the vaults that exist or reach the minimum, and
\* completes every vault that was begun (RebuildCompletes).
THEOREM RebuildsComplete ==
  ASSUME Sequential, Rest > 0
  PROVE  Spec => []RebuildCompletes
<1>1. FundingInv /\ AccountInv => RebuildCompletes
  BY Zenon, RebuildFacts DEF AccountInv, RebuildCompletes
<1> QED
  BY <1>1, FundingInvariant, AccountsInvariant, PTL
=============================================================================
