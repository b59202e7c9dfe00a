---------------------------- MODULE BridgeClaims ----------------------------
(***************************************************************************)
(* The contract bridge-claims/src/BridgeClaims.sol: a fixed list of rows,  *)
(* each paid once, on anyone's call, out of a funder's balance and under   *)
(* the funder's approval.  A row of the native coin is pulled as the       *)
(* wrapped coin, unwrapped and sent, and the account that receives it runs *)
(* its own code in the middle of the payment: it may call the contract     *)
(* again, and it may refuse the coin, which undoes everything it did.      *)
(*                                                                         *)
(* A world is the part of the chain the contract reads and writes.  stack  *)
(* holds the calls into the contract that have not returned; each keeps    *)
(* the world to go back to if it reverts (start) and, while the account of *)
(* a native row is running, the world to go back to if that account        *)
(* refuses the coin (saved).                                               *)
(***************************************************************************)
EXTENDS Integers, Sequences, Functions

CONSTANTS
    claimCount,     \* rows of the list, numbered from 0
    List,           \* row -> [account, token, amount], the rows under `root`
    Token,          \* the ERC-20 assets, the wrapped coin among them
    NATIVE,         \* the token address 0: the chain's own coin
    wrappedNative,  \* the wrapped coin, or NATIVE where the chain has none
    Funds,          \* token -> what the funder holds at the start
    Approval,       \* token -> what the approval batch approves
    Submitted,      \* bound: the submitted rows tried, a subset of Claim
    MaxDepth,       \* bound: calls into the contract nested in one another
    MaxBatch,       \* bound: rows of one claimMany
    MaxMistake      \* bound: units of an asset sent to the contract by mistake

Row == 0..claimCount - 1
Asset == Token \cup {NATIVE}

\* A submitted row: its index (claimCount stands for every index past the
\* list), and whether its data and proof hash to the root.
Claim == [index : 0..claimCount, proof : {"valid", "other"}]

ASSUME ListAssumption ==
    /\ claimCount \in Nat \ {0}
    /\ \A i \in Row : List[i].token \in Asset /\ List[i].amount \in Nat \ {0}
ASSUME AssetAssumption ==
    /\ NATIVE \notin Token
    /\ wrappedNative \in Asset
    /\ Funds \in [Token -> Nat]
    /\ Approval \in [Token -> Nat]
ASSUME BoundAssumption ==
    /\ Submitted \subseteq Claim
    /\ MaxDepth \in Nat /\ MaxBatch \in Nat /\ MaxMistake \in Nat

VARIABLES
    world,  \* what a read of the chain returns now
    stack,  \* the open calls into the contract, outermost first
    pc      \* "caller": someone else's code runs; "contract": the top call runs

vars == <<world, stack, pc>>

(***************************************************************************)
(* paid counts the payments of a row to its account; here is what the      *)
(* contract itself holds; lost and swept are totals of an asset sent to    *)
(* the contract by mistake and moved by sweep.                             *)
(***************************************************************************)
World ==
    [claimed : SUBSET Row, paid : [Row -> Nat], funds : [Asset -> Nat],
     allow : [Token -> Nat], here : [Asset -> Nat], lost : [Asset -> Nat],
     swept : [Asset -> Nat]]

NoRow == claimCount

Frame ==
    [kind : {"claim", "claimMany"}, todo : Seq(Claim), start : World,
     saved : World, row : 0..claimCount]

Top == stack[Len(stack)]
Popped == SubSeq(stack, 1, Len(stack) - 1)

\* Frame f with another saved world and row.
With(f, saved, row) ==
    [kind |-> f.kind, todo |-> f.todo, start |-> f.start, saved |-> saved, row |-> row]

Init ==
    /\ world = [claimed |-> {}, paid |-> [i \in Row |-> 0],
                funds |-> [a \in Asset |-> IF a = NATIVE THEN 0 ELSE Funds[a]],
                allow |-> [t \in Token |-> 0], here |-> [a \in Asset |-> 0],
                lost |-> [a \in Asset |-> 0], swept |-> [a \in Asset |-> 0]]
    /\ stack = <<>>
    /\ pc = "caller"

-----------------------------------------------------------------------------
(***************************************************************************)
(* Pieces of a payment, as functions of the world.                         *)
(***************************************************************************)
\* The token a row is pulled in.
PullAsset(i) == IF List[i].token = NATIVE THEN wrappedNative ELSE List[i].token

MarkedClaimed(x, i) == [x EXCEPT !.claimed = @ \cup {i}]

\* What the rows pulled in token t add up to.
TotalOf(t, rows) ==
    SumFunctionOnSet([i \in Row |-> List[i].amount], {i \in rows : PullAsset(i) = t})

\* available(token): the smaller of the approval and the funder's balance.
Available(x, t) ==
    IF t = NATIVE THEN 0
    ELSE IF x.allow[t] < x.funds[t] THEN x.allow[t] ELSE x.funds[t]

\* transferFrom(funder, ..): the funder's side of it.
Pulled(x, i) ==
    [x EXCEPT !.funds[PullAsset(i)] = @ - List[i].amount,
              !.allow[PullAsset(i)] = @ - List[i].amount]

\* _safeTransferFrom straight to the account.
PaidFromFunder(x, i) == [Pulled(x, i) EXCEPT !.paid[i] = @ + 1]

\* The wrapped coin pulled into the contract and unwrapped there.
Unwrapped(x, i) == [Pulled(x, i) EXCEPT !.here[NATIVE] = @ + List[i].amount]

\* The contract's own units of asset a leave for the row's account.
PaidFromHere(x, i, a) ==
    [x EXCEPT !.here[a] = @ - List[i].amount, !.paid[i] = @ + 1]

\* deposit{value: amount}() back into the wrapped coin.
Rewrapped(x, i) ==
    [x EXCEPT !.here[NATIVE] = @ - List[i].amount,
              !.here[wrappedNative] = @ + List[i].amount]

-----------------------------------------------------------------------------
(***************************************************************************)
(* Calls into the contract.                                                *)
(***************************************************************************)
Batch == UNION {[1..n -> Submitted] : n \in 0..MaxBatch}

Enter(kind, claims) ==
    /\ pc = "caller"
    /\ Len(stack) < MaxDepth
    /\ stack' = Append(stack, [kind |-> kind, todo |-> claims, start |-> world,
                               saved |-> world, row |-> NoRow])
    /\ pc' = "contract"
    /\ UNCHANGED world

claim == \E c \in Submitted : Enter("claim", <<c>>)

claimMany == \E claims \in Batch : Enter("claimMany", claims)

\* A relayer submits the whole list.
WholeList == [k \in 1..claimCount |-> [index |-> k - 1, proof |-> "valid"]]
Relay == stack = <<>> /\ Enter("claimMany", WholeList)

\* The top call is at a row; c is that row.
AtRow(c) ==
    /\ pc = "contract"
    /\ Top.todo # <<>>
    /\ c = Head(Top.todo)

NextRow == [Top EXCEPT !.todo = Tail(@)]

\* Bug: a paid row is not passed over.
SkipsNone(c) == FALSE

\* claimMany passes over a row that is already paid, whatever data came with it.
Skips(c) == Top.kind = "claimMany" /\ c.index \in world.claimed

SkipPaid ==
    \E c \in Claim :
        /\ AtRow(c)
        /\ Skips(c)
        /\ stack' = Append(Popped, NextRow)
        /\ UNCHANGED <<world, pc>>

\* Bug: the check of the paid bit is left out.
PassesUnmarked(c) == c.index \in Row /\ c.proof = "valid"

\* The checks of _claim before the bit is written.
Passes(c) ==
    /\ c.index \in Row
    /\ c.index \notin world.claimed
    /\ c.proof = "valid"

\* Every check holds and the token can make the transfer.
CanPay(c) ==
    /\ Passes(c)
    /\ List[c.index].amount <= Available(world, PullAsset(c.index))

\* _claim of an ERC-20 row.
PayToken ==
    \E c \in Claim :
        /\ AtRow(c)
        /\ CanPay(c)
        /\ List[c.index].token # NATIVE
        /\ world' = PaidFromFunder(MarkedClaimed(world, c.index), c.index)
        /\ stack' = Append(Popped, NextRow)
        /\ UNCHANGED pc

\* _claim of a native row up to the call that hands the coin, and control,
\* to the account.
SendNative ==
    \E c \in Claim :
        /\ AtRow(c)
        /\ CanPay(c)
        /\ List[c.index].token = NATIVE
        /\ LET before == Unwrapped(MarkedClaimed(world, c.index), c.index) IN
             /\ world' = PaidFromHere(before, c.index, NATIVE)
             /\ stack' = Append(Popped, With(NextRow, before, c.index))
        /\ pc' = "caller"

\* A failed check or transfer reverts the whole call, rows it had paid included.
\* A token may refuse any transfer, and the gas may end anywhere.
Revert ==
    /\ \E c \in Claim :
         /\ AtRow(c)
         /\ ~Skips(c)
    /\ world' = Top.start
    /\ stack' = Popped
    /\ pc' = "caller"

\* Every row is behind the call: it returns to its caller.
Finish ==
    /\ pc = "contract"
    /\ Top.todo = <<>>
    /\ stack' = Popped
    /\ pc' = "caller"
    /\ UNCHANGED world

-----------------------------------------------------------------------------
(***************************************************************************)
(* The account of a native row, in the middle of its payment.  Between     *)
(* SendNative and one of these it may make any call of this module.        *)
(***************************************************************************)
Resumed == With(Top, Top.start, NoRow)

\* It keeps the coin.
Accept ==
    /\ pc = "caller"
    /\ stack # <<>>
    /\ stack' = Append(Popped, Resumed)
    /\ pc' = "contract"
    /\ UNCHANGED world

\* Bug: the wrapped coin is kept in the contract.
WrappedAndKept(x, i) == [Rewrapped(x, i) EXCEPT !.paid[i] = @ + 1]

\* Bug: the fallback pulls the amount from the funder once more.
WrappedFromFunder(x, i) == PaidFromFunder(x, i)

\* The fallback: wrap the coin again and send the wrapped coin.
PaidWrapped(x, i) == PaidFromHere(Rewrapped(x, i), i, wrappedNative)

\* It refuses the coin: all that happened since the send is undone, and the
\* contract pays in the wrapped coin instead.
Refuse ==
    /\ pc = "caller"
    /\ stack # <<>>
    /\ world' = PaidWrapped(Top.saved, Top.row)
    /\ stack' = Append(Popped, Resumed)
    /\ pc' = "contract"

-----------------------------------------------------------------------------
(***************************************************************************)
(* Everything else, by anyone and at any time someone else's code runs.    *)
(***************************************************************************)
\* sweep(token): the contract's whole balance to the funder.
sweep(a) ==
    /\ pc = "caller"
    /\ world' = [world EXCEPT !.here[a] = 0, !.funds[a] = @ + world.here[a],
                              !.swept[a] = @ + world.here[a]]
    /\ UNCHANGED <<stack, pc>>

\* One unit of an asset reaches the contract: a plain transfer of a token, or
\* coin forced on it past receive().
Mistake(a) ==
    /\ pc = "caller"
    /\ world.lost[a] < MaxMistake
    /\ world' = [world EXCEPT !.here[a] = @ + 1, !.lost[a] = @ + 1]
    /\ UNCHANGED <<stack, pc>>

\* The approval batch.
Approve(t) ==
    /\ pc = "caller"
    /\ world' = [world EXCEPT !.allow[t] = Approval[t]]
    /\ UNCHANGED <<stack, pc>>

\* The revoke batch.
Revoke(t) ==
    /\ pc = "caller"
    /\ world' = [world EXCEPT !.allow[t] = 0]
    /\ UNCHANGED <<stack, pc>>

Contract == SkipPaid \/ PayToken \/ SendNative \/ Revert \/ Finish

Next ==
    \/ claim \/ claimMany \/ Relay
    \/ Contract
    \/ Accept \/ Refuse
    \/ \E a \in Asset : sweep(a) \/ Mistake(a)
    \/ \E t \in Token : Approve(t) \/ Revoke(t)

Spec == Init /\ [][Next]_vars

-----------------------------------------------------------------------------
(***************************************************************************)
(* Properties.                                                             *)
(***************************************************************************)
\* The state has its type; a call whose account runs is at a row of the list.
TypeOK ==
    /\ world \in World
    /\ pc \in {"caller", "contract"}
    /\ pc = "contract" => stack # <<>>
    /\ \A k \in DOMAIN stack :
         /\ stack[k].start \in World /\ stack[k].saved \in World
         /\ stack[k].row \in 0..claimCount
         /\ (k < Len(stack) \/ pc = "caller") <=> stack[k].row \in Row

\* In a world, the rows paid are the rows marked, each paid exactly once.
Settled(x) == \A i \in Row : x.paid[i] = IF i \in x.claimed THEN 1 ELSE 0

\* "Each row pays once", at every moment another party's code can look or
\* call: however payments nest, skip, revert or fall back to the wrapped
\* coin, a row has been paid to its account exactly once if its bit is set
\* and never if it is not.
PaysEachRowOnce == Settled(world)

\* "The contract holds no tokens between transactions", nor while an account
\* runs in the middle of a payment: what it holds is what was sent to it by
\* mistake and not yet swept, so a sweep from inside a payment moves none of
\* the payment's money.
HoldsOnlyMistakes == \A a \in Asset : world.here[a] + world.swept[a] = world.lost[a]

\* Whatever the order of calls, what has left the funder in each token is
\* what the marked rows of that token add up to, less what sweeps returned.
FunderPaysTheMarkedRows ==
    /\ \A t \in Token :
         Funds[t] + world.swept[t] - world.funds[t] = TotalOf(t, world.claimed)
    /\ world.funds[NATIVE] = world.swept[NATIVE]
=============================================================================
