-------------------------- MODULE GovernorDelegator --------------------------
(***************************************************************************)
(* The validator vaults (vault/contract/GovernorDelegator.sol): one per    *)
(* validator, holding the ONE its delegators are credited with.  The token *)
(* is external: a transfer moves an amount the payer has, and transferFrom *)
(* also uses up the payer's approval.  Amounts are uint256, checked.       *)
(***************************************************************************)
EXTENDS Integers, Sequences, FiniteSets, Functions

CONSTANTS
  Vault,     \* the addresses of the vaults
  Account,   \* the other addresses that hold tokens, and call
  Zero,      \* the zero address
  MaxUint,   \* the largest uint256
  Fees,      \* the values of a uint16 that are tried as a fee
  MaxFee,    \* 10 000 basis points
  Amounts,   \* the values of a uint256 that are tried as an amount
  Holdings   \* account -> the tokens it holds at the start

Holder == Account \cup Vault

ASSUME VaultAssumption ==
  /\ MaxUint \in Nat /\ MaxFee \in Nat /\ Fees \subseteq Nat /\ Amounts \subseteq 0 .. MaxUint
  /\ IsFiniteSet(Holder) /\ Zero \notin Holder /\ Account \cap Vault = {}
  /\ Holdings \in [Account -> 0 .. MaxUint]

VARIABLES
  governor,   \* vault -> its governor; Zero while there is no contract at its address
  feeBps,     \* vault -> its fee record
  balanceOf,  \* vault -> delegator -> its credit
  tokens,     \* holder -> the tokens it holds
  allowance   \* account -> vault -> what the vault may take from it

contract == <<governor, feeBps, balanceOf>>

token == <<tokens, allowance>>

vaults == <<contract, token>>

VaultInit ==
  /\ governor = [v \in Vault |-> Zero]
  /\ feeBps = [v \in Vault |-> 0]
  /\ balanceOf = [v \in Vault |-> [a \in Holder |-> 0]]
  /\ tokens = [a \in Holder |-> IF a \in Account THEN Holdings[a] ELSE 0]
  /\ allowance = [a \in Account |-> [v \in Vault |-> 0]]

Deployed(v) == governor[v] # Zero

\* The constructor, through the CREATE2 deployer: an address is created once.
Construct(v, initialGovernor) ==
  /\ ~Deployed(v)
  /\ initialGovernor # Zero
  /\ governor' = [governor EXCEPT ![v] = initialGovernor]
  /\ UNCHANGED <<feeBps, balanceOf, token>>

transferGovernor(caller, v, next) ==
  /\ Deployed(v)
  /\ caller = governor[v]
  /\ next # Zero
  /\ governor' = [governor EXCEPT ![v] = next]
  /\ UNCHANGED <<feeBps, balanceOf, token>>

setFeeBps(caller, v, value) ==
  /\ Deployed(v)
  /\ caller = governor[v]
  /\ value <= MaxFee
  /\ feeBps' = [feeBps EXCEPT ![v] = value]
  /\ UNCHANGED <<governor, balanceOf, token>>

\* transferFrom(owner, v, amount) called by v.
Taken(owner, v, amount) ==
  /\ amount <= tokens[owner]
  /\ amount <= allowance[owner][v]
  /\ tokens' = [tokens EXCEPT ![owner] = @ - amount, ![v] = @ + amount]
  /\ allowance' = [allowance EXCEPT ![owner][v] = @ - amount]

\* transfer(to, amount) called by owner.
Given(owner, to, amount) ==
  /\ amount <= tokens[owner]
  /\ tokens' = IF to = owner THEN tokens
               ELSE [tokens EXCEPT ![owner] = @ - amount, ![to] = @ + amount]
  /\ UNCHANGED allowance

deposit(caller, v, amount, delegator) ==
  /\ Deployed(v)
  /\ delegator # Zero
  /\ Taken(caller, v, amount)
  /\ balanceOf' = [balanceOf EXCEPT ![v][delegator] = @ + amount]
  /\ UNCHANGED <<governor, feeBps>>

Credited(v, amounts, delegators) ==
  [a \in Holder |-> balanceOf[v][a] +
                      SumFunctionOnSet(amounts, {i \in DOMAIN amounts : delegators[i] = a})]

\* Mistaken variant of depositBatch: the total wraps around.
depositBatchWrapping(caller, v, amounts, delegators) ==
  /\ Deployed(v)
  /\ Len(delegators) = Len(amounts)
  /\ \A i \in DOMAIN delegators : delegators[i] # Zero
  /\ Taken(caller, v, SumFunction(amounts) % (MaxUint + 1))
  /\ balanceOf' = [balanceOf EXCEPT ![v] = Credited(v, amounts, delegators)]
  /\ UNCHANGED <<governor, feeBps>>

depositBatch(caller, v, amounts, delegators) ==
  /\ Deployed(v)
  /\ Len(delegators) = Len(amounts)
  /\ \A i \in DOMAIN delegators : delegators[i] # Zero
  /\ SumFunction(amounts) <= MaxUint
  /\ Taken(caller, v, SumFunction(amounts))
  /\ balanceOf' = [balanceOf EXCEPT ![v] = Credited(v, amounts, delegators)]
  /\ UNCHANGED <<governor, feeBps>>

withdraw(caller, v, amount, to) ==
  /\ Deployed(v)
  /\ amount <= balanceOf[v][caller]
  /\ Given(v, to, amount)
  /\ balanceOf' = [balanceOf EXCEPT ![v][caller] = @ - amount]
  /\ UNCHANGED <<governor, feeBps>>

approve(caller, v, amount) ==
  /\ allowance' = [allowance EXCEPT ![caller][v] = amount]
  /\ UNCHANGED <<tokens, contract>>

\* Tokens sent to a vault without a deposit.
Donate(caller, to, amount) == Given(caller, to, amount) /\ UNCHANGED contract

-----------------------------------------------------------------------------
(* Any call to a vault. *)

Pairs(S) == UNION {[1 .. n -> S] : n \in 0 .. 2}

Call(caller, v) ==
  \/ \E a \in Account \cup {Zero} : transferGovernor(caller, v, a)
  \/ \E f \in Fees : setFeeBps(caller, v, f)
  \/ \E x \in Amounts :
       \/ \E a \in Account \cup {Zero} : deposit(caller, v, x, a)
       \/ \E a \in Account \cup {v} : withdraw(caller, v, x, a)
       \/ approve(caller, v, x)
       \/ Donate(caller, v, x)
  \/ \E amounts \in Pairs(Amounts), delegators \in Pairs(Account \cup {Zero}) :
       depositBatch(caller, v, amounts, delegators)

-----------------------------------------------------------------------------
(* Properties. *)

VaultTypeOK ==
  /\ governor \in [Vault -> Account \cup {Zero}]
  /\ feeBps \in [Vault -> 0 .. MaxFee]
  /\ balanceOf \in [Vault -> [Holder -> 0 .. MaxUint]]
  /\ tokens \in [Holder -> 0 .. MaxUint]
  /\ allowance \in [Account -> [Vault -> 0 .. MaxUint]]

\* A vault holds at least what its delegators are credited with, so that each can withdraw all of
\* its credit: whatever batches were deposited, totals that overflow included, whoever withdrew to
\* whom, and whatever the governor did.
Solvent == \A v \in Vault : SumFunction(balanceOf[v]) <= tokens[v]
=============================================================================
