------------------------- MODULE BridgeClaimsProofs -------------------------
(***************************************************************************)
(* Proofs about BridgeClaims for every list, every depth of nested calls   *)
(* and every batch: a row is paid exactly once when its bit is set, the    *)
(* contract holds nothing but mistakes, and what left the funder in a      *)
(* token is the sum of the marked rows of that token.                      *)
(*                                                                         *)
(* None is inductive alone.  A refusal goes back to the world saved     *)
(* before the send, where the row is marked and not paid and its coin is   *)
(* in the contract, and a revert goes back to the world at the start of    *)
(* the call; so the invariant speaks of every world on the stack.          *)
(***************************************************************************)
EXTENDS BridgeClaims, FunctionSums, SequenceTheorems

\* In world x what left the funder, less what sweeps returned, is what the
\* marked rows add up to.
Accounted(x) ==
    /\ \A t \in Token : Funds[t] + x.swept[t] - x.funds[t] = TotalOf(t, x.claimed)
    /\ x.funds[NATIVE] = x.swept[NATIVE]

\* In world x every row but r is paid once if marked and never if not, r is
\* marked and unpaid, and the contract holds r's coin besides the mistakes.
InFlight(x, r) ==
    /\ r \in x.claimed
    /\ List[r].token = NATIVE
    /\ wrappedNative # NATIVE
    /\ \A i \in Row : x.paid[i] = IF i \in x.claimed /\ i # r THEN 1 ELSE 0
    /\ \A a \in Asset : x.here[a] + x.swept[a]
                        = x.lost[a] + (IF a = NATIVE THEN List[r].amount ELSE 0)
    /\ x.here[NATIVE] >= List[r].amount
    /\ Accounted(x)

\* In world x the rows are settled, the contract holds only mistakes, and the
\* funder's side agrees with the bits.
AtRest(x) ==
    /\ Settled(x)
    /\ \A a \in Asset : x.here[a] + x.swept[a] = x.lost[a]
    /\ Accounted(x)

\* What holds of one call on the stack; the account of a native row runs in
\* it exactly if a is "yes".
FrameOK(f, a) ==
    /\ f \in Frame
    /\ AtRest(f.start)
    /\ a = "yes" => f.row \in Row /\ InFlight(f.saved, f.row)
    /\ a = "no" => f.row = NoRow

Waits(k) == IF k < Len(stack) \/ pc = "caller" THEN "yes" ELSE "no"

\* The inductive invariant.
IInv ==
    /\ world \in World
    /\ AtRest(world)
    /\ pc \in {"caller", "contract"}
    /\ pc = "contract" => stack # <<>>
    /\ stack \in Seq(Frame)
    /\ \A k \in 1..Len(stack) : FrameOK(stack[k], Waits(k))

-----------------------------------------------------------------------------
(***************************************************************************)
(* Payments as functions of the world.                                     *)
(***************************************************************************)
\* A row that can be paid is pulled in a token of which the funder has, and
\* has approved, at least the row's amount.
LEMMA Coverage ==
    ASSUME NEW x \in World, NEW i \in Row,
           List[i].amount <= Available(x, PullAsset(i))
    PROVE  /\ PullAsset(i) \in Token
           /\ List[i].amount \in Nat \ {0}
           /\ List[i].amount <= x.allow[PullAsset(i)]
           /\ List[i].amount <= x.funds[PullAsset(i)]
<1>1. List[i].amount \in Nat \ {0} /\ PullAsset(i) \in Asset
    BY Zenon, ListAssumption, AssetAssumption DEF PullAsset, Asset
<1>2. PullAsset(i) # NATIVE
    BY <1>1 DEF Available
<1>3. PullAsset(i) \in Token
    BY Zenon, <1>1, <1>2 DEF Asset
<1>4. x.allow[PullAsset(i)] \in Nat /\ x.funds[PullAsset(i)] \in Nat
    BY Zenon, <1>3 DEF World, Asset
<1> QED
    BY <1>1, <1>2, <1>3, <1>4 DEF Available

\* Marking and pulling a row changes its bit and the funder's side only.
LEMMA PullEffect ==
    ASSUME NEW x \in World, NEW i \in Row,
           List[i].amount <= Available(x, PullAsset(i))
    PROVE  LET y == Pulled(MarkedClaimed(x, i), i) IN
             /\ y \in World
             /\ y.claimed = x.claimed \cup {i}
             /\ y.paid = x.paid /\ y.here = x.here
             /\ y.lost = x.lost /\ y.swept = x.swept
             /\ y.funds = [x.funds EXCEPT ![PullAsset(i)] = @ - List[i].amount]
<1> DEFINE m == MarkedClaimed(x, i)
<1> DEFINE t == PullAsset(i)
<1>1. m \in World /\ m.claimed = x.claimed \cup {i} /\ m.paid = x.paid /\ m.here = x.here
      /\ m.lost = x.lost /\ m.swept = x.swept /\ m.funds = x.funds /\ m.allow = x.allow
    BY Zenon DEF MarkedClaimed, World
<1>2. t \in Token /\ List[i].amount \in Nat
      /\ List[i].amount <= m.allow[t] /\ List[i].amount <= m.funds[t]
    BY Zenon, Coverage, <1>1
<1>3. [m.funds EXCEPT ![t] = @ - List[i].amount] \in [Asset -> Nat]
    BY <1>1, <1>2 DEF World, Asset
<1>4. [m.allow EXCEPT ![t] = @ - List[i].amount] \in [Token -> Nat]
    BY <1>1, <1>2 DEF World
<1> HIDE DEF m, t
<1>5. Pulled(m, i) = [m EXCEPT !.funds = [m.funds EXCEPT ![t] = @ - List[i].amount],
                               !.allow = [m.allow EXCEPT ![t] = @ - List[i].amount]]
    BY Zenon, <1>1 DEF Pulled, World, t
<1>6. Pulled(m, i) \in World /\ Pulled(m, i).claimed = m.claimed /\ Pulled(m, i).paid = m.paid
      /\ Pulled(m, i).here = m.here /\ Pulled(m, i).lost = m.lost /\ Pulled(m, i).swept = m.swept
      /\ Pulled(m, i).funds = [m.funds EXCEPT ![t] = @ - List[i].amount]
    BY Zenon, <1>1, <1>3, <1>4, <1>5 DEF World
<1> QED
    BY Zenon, <1>1, <1>6 DEF m, t

\* Marking row i adds its amount to the total of the token it is pulled in.
LEMMA TotalWithRow ==
    ASSUME NEW rows \in SUBSET Row, NEW i \in Row, i \notin rows, NEW t
    PROVE  TotalOf(t, rows \cup {i})
             = TotalOf(t, rows) + (IF PullAsset(i) = t THEN List[i].amount ELSE 0)
<1> DEFINE f == [k \in Row |-> List[k].amount]
<1> DEFINE S == {k \in rows : PullAsset(k) = t}
<1> DEFINE T == {k \in rows \cup {i} : PullAsset(k) = t}
<1>1. \A k \in Row : f[k] \in Int
    BY ListAssumption
<1>2. IsFiniteSet(S) /\ IsFiniteSet(T)
    <2>1. 0 \in Int /\ claimCount - 1 \in Int
        BY ListAssumption
    <2>2. IsFiniteSet(Row)
        BY Zenon, <2>1, FS_Interval DEF Row
    <2>3. S \subseteq Row /\ T \subseteq Row
        BY Zenon
    <2> QED
        BY Zenon, <2>2, <2>3, FS_Subset
<1>3. TotalOf(t, rows) = SumFunctionOnSet(f, S) /\ TotalOf(t, rows \cup {i}) = SumFunctionOnSet(f, T)
    BY Zenon DEF TotalOf
<1>4. SumFunctionOnSet(f, S) \in Int
    BY Zenon, <1>1, <1>2, SumIsInteger
<1>5. CASE PullAsset(i) = t
    <2>1. i \in T /\ T \ {i} = S /\ \A k \in T : f[k] \in Int
        BY Zenon, <1>1, <1>5
    <2> HIDE DEF f, S, T
    <2>2. SumFunctionOnSet(f, T) = f[i] + SumFunctionOnSet(f, S)
        BY Zenon, <1>2, <2>1, SumPick
    <2>3. f[i] = List[i].amount
        BY Zenon DEF f
    <2> QED
        BY <1>1, <1>3, <1>4, <1>5, <2>2, <2>3
<1>6. CASE PullAsset(i) # t
    <2>1. T = S
        BY Zenon, <1>6
    <2> HIDE DEF f, S, T
    <2> QED
        BY <1>3, <1>4, <1>6, <2>1
<1> QED
    BY Zenon, <1>5, <1>6

\* So a world in which row i was marked and pulled is accounted for.
LEMMA PullAccounted ==
    ASSUME NEW x \in World, Accounted(x), NEW i \in Row, i \notin x.claimed,
           List[i].amount <= Available(x, PullAsset(i)),
           NEW y, y.claimed = x.claimed \cup {i}, y.swept = x.swept,
           y.funds = [x.funds EXCEPT ![PullAsset(i)] = @ - List[i].amount]
    PROVE  Accounted(y)
<1>1. x.funds \in [Asset -> Nat] /\ x.swept \in [Asset -> Nat] /\ x.claimed \in SUBSET Row
    BY Zenon DEF World
<1>2. PullAsset(i) \in Token /\ List[i].amount \in Nat
    BY Zenon, Coverage
<1>3. y.funds[NATIVE] = y.swept[NATIVE]
    <2>1. PullAsset(i) # NATIVE /\ NATIVE \in Asset
        BY Zenon, <1>2, AssetAssumption DEF Asset
    <2> QED
        BY Zenon, <1>1, <2>1 DEF Accounted
<1>4. ASSUME NEW t \in Token
      PROVE  Funds[t] + y.swept[t] - y.funds[t] = TotalOf(t, y.claimed)
    <2> DEFINE n == IF PullAsset(i) = t THEN List[i].amount ELSE 0
    <2>1. TotalOf(t, y.claimed) = TotalOf(t, x.claimed) + n
        <3>1. PICK rows \in SUBSET Row : rows = x.claimed
            BY Zenon, <1>1
        <3>2. TotalOf(t, rows \cup {i}) = TotalOf(t, rows) + n
            BY Zenon, <3>1, TotalWithRow
        <3>3. y.claimed = rows \cup {i}
            BY Zenon, <3>1
        <3> QED
            BY Zenon, <3>1, <3>2, <3>3
    <2>2. y.funds[t] = x.funds[t] - n
        <3>1. t \in Asset /\ x.funds[t] \in Nat
            BY Zenon, <1>1 DEF Asset
        <3> QED
            BY <1>1, <3>1
    <2>3. Funds[t] \in Nat /\ x.funds[t] \in Nat /\ x.swept[t] \in Nat /\ n \in Nat
        BY <1>1, <1>2, AssetAssumption DEF Asset
    <2>4. Funds[t] + x.swept[t] - x.funds[t] = TotalOf(t, x.claimed)
        BY Zenon DEF Accounted
    <2> HIDE DEF n
    <2> QED
        BY <2>1, <2>2, <2>3, <2>4
<1> QED
    BY Zenon, <1>3, <1>4 DEF Accounted

\* _claim of a token row takes a world at rest to one at rest.
LEMMA TokenRow ==
    ASSUME NEW x \in World, AtRest(x), NEW i \in Row, i \notin x.claimed,
           List[i].amount <= Available(x, PullAsset(i))
    PROVE  LET y == PaidFromFunder(MarkedClaimed(x, i), i) IN y \in World /\ AtRest(y)
<1> DEFINE p == Pulled(MarkedClaimed(x, i), i)
<1> DEFINE y == [p EXCEPT !.paid = [p.paid EXCEPT ![i] = @ + 1]]
<1>1. /\ p \in World
      /\ p.claimed = x.claimed \cup {i}
      /\ p.paid = x.paid /\ p.here = x.here
      /\ p.lost = x.lost /\ p.swept = x.swept
      /\ p.funds = [x.funds EXCEPT ![PullAsset(i)] = @ - List[i].amount]
    BY Zenon, PullEffect
<1> HIDE DEF p
<1>2. PaidFromFunder(MarkedClaimed(x, i), i) = y
    BY Zenon, <1>1 DEF PaidFromFunder, p, World
<1>3. /\ y \in World
      /\ y.claimed = x.claimed \cup {i} /\ y.paid = [x.paid EXCEPT ![i] = @ + 1]
      /\ y.here = x.here /\ y.lost = x.lost /\ y.swept = x.swept /\ y.funds = p.funds
    BY <1>1 DEF World
<1>4. x.paid \in [Row -> Nat]
    BY Zenon DEF World
<1> HIDE DEF y
<1>5. Settled(y)
    BY <1>3, <1>4 DEF AtRest, Settled
<1>6. \A a \in Asset : y.here[a] + y.swept[a] = y.lost[a]
    BY Zenon, <1>3 DEF AtRest
<1>7. Accounted(y)
    BY Zenon, <1>1, <1>3, PullAccounted DEF AtRest
<1> QED
    BY Zenon, <1>2, <1>3, <1>5, <1>6, <1>7 DEF AtRest

\* Up to the send, _claim of a native row leads to a world with that row in
\* flight.
LEMMA NativeRow ==
    ASSUME NEW x \in World, AtRest(x), NEW i \in Row, i \notin x.claimed,
           List[i].token = NATIVE,
           List[i].amount <= Available(x, PullAsset(i))
    PROVE  LET y == Unwrapped(MarkedClaimed(x, i), i) IN y \in World /\ InFlight(y, i)
<1> DEFINE p == Pulled(MarkedClaimed(x, i), i)
<1> DEFINE y == [p EXCEPT !.here = [p.here EXCEPT ![NATIVE] = @ + List[i].amount]]
<1>1. /\ p \in World
      /\ p.claimed = x.claimed \cup {i}
      /\ p.paid = x.paid /\ p.here = x.here
      /\ p.lost = x.lost /\ p.swept = x.swept
      /\ p.funds = [x.funds EXCEPT ![PullAsset(i)] = @ - List[i].amount]
    BY Zenon, PullEffect
<1>2. List[i].amount \in Nat /\ wrappedNative # NATIVE /\ NATIVE \in Asset
    BY Zenon, Coverage, AssetAssumption DEF PullAsset, Asset
<1> HIDE DEF p
<1>3. Unwrapped(MarkedClaimed(x, i), i) = y
    BY Zenon, <1>1 DEF Unwrapped, p, World
<1>4. /\ y \in World
      /\ y.claimed = x.claimed \cup {i} /\ y.paid = x.paid
      /\ y.here = [x.here EXCEPT ![NATIVE] = @ + List[i].amount]
      /\ y.lost = x.lost /\ y.swept = x.swept /\ y.funds = p.funds
    BY <1>1, <1>2 DEF World
<1>5. x.paid \in [Row -> Nat] /\ x.here \in [Asset -> Nat] /\ x.lost \in [Asset -> Nat]
      /\ x.swept \in [Asset -> Nat]
    BY Zenon DEF World
<1> HIDE DEF y
<1>6. \A k \in Row : y.paid[k] = IF k \in y.claimed /\ k # i THEN 1 ELSE 0
    BY <1>4, <1>5 DEF AtRest, Settled
<1>7. \A a \in Asset : y.here[a] + y.swept[a]
                       = y.lost[a] + (IF a = NATIVE THEN List[i].amount ELSE 0)
    BY <1>2, <1>4, <1>5 DEF AtRest
<1>8. y.here[NATIVE] >= List[i].amount
    BY <1>2, <1>4, <1>5
<1>9. Accounted(y)
    BY ZenonT(40), <1>1, <1>4, PullAccounted DEF AtRest
<1> QED
    BY Zenon, <1>2, <1>3, <1>4, <1>6, <1>7, <1>8, <1>9 DEF InFlight

\* Paying the row in flight from the coin the contract holds ends at rest.
LEMMA Delivered ==
    ASSUME NEW x \in World, NEW r \in Row, InFlight(x, r)
    PROVE  LET y == PaidFromHere(x, r, NATIVE) IN y \in World /\ AtRest(y)
<1> DEFINE h == [x.here EXCEPT ![NATIVE] = @ - List[r].amount]
<1> DEFINE p == [x.paid EXCEPT ![r] = @ + 1]
<1> DEFINE y == PaidFromHere(x, r, NATIVE)
<1>1. List[r].amount \in Nat /\ NATIVE \in Asset
    BY Zenon, ListAssumption DEF Asset
<1>2. x.paid \in [Row -> Nat] /\ x.here \in [Asset -> Nat] /\ x.lost \in [Asset -> Nat]
      /\ x.swept \in [Asset -> Nat] /\ x.claimed \subseteq Row
    BY Zenon DEF World
<1>3. h \in [Asset -> Nat] /\ p \in [Row -> Nat]
    BY <1>1, <1>2 DEF InFlight
<1>4. y = [x EXCEPT !.here = h, !.paid = p]
    BY Zenon DEF PaidFromHere, World
<1>5. y \in World /\ y.here = h /\ y.paid = p /\ y.claimed = x.claimed /\ y.lost = x.lost
      /\ y.swept = x.swept /\ y.funds = x.funds
    BY Zenon, <1>3, <1>4 DEF World
<1> HIDE DEF y
<1>6. Settled(y)
    BY <1>2, <1>5 DEF Settled, InFlight
<1>7. \A a \in Asset : y.here[a] + y.swept[a] = y.lost[a]
    <2>1. SUFFICES ASSUME NEW a \in Asset PROVE h[a] + x.swept[a] = x.lost[a]
        BY Zenon, <1>5
    <2>2. x.here[a] \in Nat /\ x.swept[a] \in Nat /\ x.lost[a] \in Nat
        BY Zenon, <1>2
    <2>3. CASE a = NATIVE
        <3>1. x.here[a] + x.swept[a] = x.lost[a] + List[r].amount
            BY Zenon, <2>3 DEF InFlight
        <3>2. h[a] = x.here[a] - List[r].amount
            BY Zenon, <1>2, <2>3
        <3> QED
            BY <1>1, <2>2, <3>1, <3>2
    <2>4. CASE a # NATIVE
        <3>1. x.here[a] + x.swept[a] = x.lost[a] + 0
            BY Zenon, <2>4 DEF InFlight
        <3>2. h[a] = x.here[a]
            BY Zenon, <1>2, <2>4
        <3> QED
            BY <2>2, <3>1, <3>2
    <2> QED
        BY Zenon, <2>3, <2>4
<1>8. Accounted(y)
    BY Zenon, <1>5 DEF InFlight, Accounted
<1> QED
    BY Zenon, <1>5, <1>6, <1>7, <1>8 DEF AtRest, y

\* So does paying it in the wrapped coin: the two differ only in what the
\* account receives.
LEMMA DeliveredWrapped ==
    ASSUME NEW x \in World, NEW r \in Row, InFlight(x, r)
    PROVE  LET y == PaidWrapped(x, r) IN y \in World /\ AtRest(y)
<1> DEFINE n == List[r].amount
<1> DEFINE h == [x.here EXCEPT ![NATIVE] = @ - n, ![wrappedNative] = @ + n]
<1> DEFINE z == Rewrapped(x, r)
<1> DEFINE g == [h EXCEPT ![wrappedNative] = @ - n]
<1>1. n \in Nat /\ NATIVE \in Asset /\ wrappedNative \in Asset /\ wrappedNative # NATIVE
    BY Zenon, ListAssumption, AssetAssumption DEF Asset, InFlight
<1>2. x.here \in [Asset -> Nat]
    BY Zenon DEF World
<1> HIDE DEF n
<1>3. g = [x.here EXCEPT ![NATIVE] = @ - n]
    BY <1>1, <1>2
<1>4. z = [x EXCEPT !.here = h]
    BY Zenon DEF Rewrapped, World, n
<1>5. z.here = h /\ z.paid = x.paid
    BY Zenon, <1>4 DEF World
<1> HIDE DEF z, h, g
<1>6. PaidWrapped(x, r) = [z EXCEPT !.here = g, !.paid = [x.paid EXCEPT ![r] = @ + 1]]
    BY Zenon, <1>5 DEF PaidWrapped, PaidFromHere, z, g, n
<1>7. [z EXCEPT !.here = g, !.paid = [x.paid EXCEPT ![r] = @ + 1]]
      = [x EXCEPT !.here = g, !.paid = [x.paid EXCEPT ![r] = @ + 1]]
    BY Zenon, <1>4 DEF World
<1>8. PaidFromHere(x, r, NATIVE) = [x EXCEPT !.here = g, !.paid = [x.paid EXCEPT ![r] = @ + 1]]
    BY Zenon, <1>3 DEF PaidFromHere, n
<1>9. PaidWrapped(x, r) = PaidFromHere(x, r, NATIVE)
    BY Zenon, <1>6, <1>7, <1>8
<1> QED
    BY Zenon, <1>9, Delivered

-----------------------------------------------------------------------------
(***************************************************************************)
(* The stack.                                                              *)
(***************************************************************************)
\* A frame with another saved world and row.
LEMMA FrameUpdate ==
    ASSUME NEW f \in Frame, NEW s \in World, NEW r \in 0..claimCount
    PROVE  LET g == With(f, s, r) IN
             g \in Frame /\ g.start = f.start /\ g.saved = s /\ g.row = r
    BY Zenon DEF Frame, With

\* What a change of the top call, or its return, does to the stack.
LEMMA StackOps ==
    ASSUME stack \in Seq(Frame), stack # <<>>, NEW f \in Frame
    PROVE  /\ Len(stack) \in Nat \ {0} /\ Top \in Frame
           /\ Popped \in Seq(Frame) /\ Len(Popped) = Len(stack) - 1
           /\ \A k \in 1..Len(stack) - 1 : Popped[k] = stack[k]
           /\ Append(Popped, f) \in Seq(Frame) /\ Len(Append(Popped, f)) = Len(stack)
           /\ Append(Popped, f)[Len(stack)] = f
           /\ \A k \in 1..Len(stack) - 1 : Append(Popped, f)[k] = stack[k]
<1>1. Len(stack) \in Nat \ {0}
    BY Zenon, EmptySeq, LenProperties
<1>2. Top \in Frame
    BY <1>1 DEF Top
<1>3. /\ Popped \in Seq(Frame) /\ Len(Popped) = Len(stack) - 1
      /\ \A k \in 1..Len(stack) - 1 : Popped[k] = stack[k]
    <2> DEFINE n == Len(stack) - 1
    <2>1. n \in Nat /\ 1 \in Int /\ \A k \in 1..n : stack[k] \in Frame
        BY <1>1
    <2>2. /\ SubSeq(stack, 1, n) \in Seq(Frame)
          /\ Len(SubSeq(stack, 1, n)) = IF 1 <= n THEN n - 1 + 1 ELSE 0
          /\ \A k \in 1..n - 1 + 1 : SubSeq(stack, 1, n)[k] = stack[1 + k - 1]
        BY <2>1, SubSeqProperties
    <2> DEFINE q == SubSeq(stack, 1, n)
    <2> DEFINE l == Len(q)
    <2> HIDE DEF n, q, l
    <2>3. l = n
        <3>1. l = IF 1 <= n THEN n - 1 + 1 ELSE 0
            BY Zenon, <2>2 DEF q, l
        <3> QED
            BY <2>1, <3>1
    <2>4. \A k \in 1..n : SubSeq(stack, 1, n)[k] = stack[k]
        <3>1. SUFFICES ASSUME NEW k \in 1..n PROVE SubSeq(stack, 1, n)[k] = stack[k]
            BY Zenon
        <3>2. k \in 1..n - 1 + 1 /\ 1 + k - 1 = k
            BY <2>1
        <3> QED
            BY Zenon, <2>2, <3>2
    <2> QED
        BY Zenon, <2>2, <2>3, <2>4 DEF Popped, n, q, l
<1> HIDE DEF Popped
<1>4. /\ Append(Popped, f) \in Seq(Frame) /\ Len(Append(Popped, f)) = Len(Popped) + 1
      /\ Append(Popped, f)[Len(Popped) + 1] = f
      /\ \A k \in 1..Len(Popped) : Append(Popped, f)[k] = Popped[k]
    BY <1>3
<1> QED
    BY <1>1, <1>2, <1>3, <1>4

\* A step that replaces the top call by a good one keeps the invariant.
LEMMA Replaced ==
    ASSUME IInv, stack # <<>>, NEW f \in Frame,
           stack' = Append(Popped, f),
           pc' \in {"caller", "contract"},
           FrameOK(f, IF pc' = "caller" THEN "yes" ELSE "no"),
           world' \in World, AtRest(world')
    PROVE  IInv'
<1>1. stack \in Seq(Frame)
    BY Zenon DEF IInv
<1>2. /\ Len(stack) \in Nat \ {0}
      /\ stack' \in Seq(Frame) /\ Len(stack') = Len(stack) /\ stack'[Len(stack)] = f
      /\ \A k \in 1..Len(stack) - 1 : stack'[k] = stack[k]
    BY Zenon, <1>1, StackOps
<1>3. ASSUME NEW k \in 1..Len(stack') PROVE FrameOK(stack'[k], Waits(k)')
    <2>1. CASE k = Len(stack)
        BY <1>2, <2>1 DEF Waits
    <2>2. CASE k < Len(stack)
        <3>1. Waits(k) = "yes" /\ Waits(k)' = "yes" /\ stack'[k] = stack[k] /\ k \in 1..Len(stack)
            BY <1>2, <2>2 DEF Waits
        <3> QED
            BY Zenon, <3>1 DEF IInv
    <2> QED
        BY <1>2, <2>1, <2>2
<1>4. stack' # <<>>
    BY Zenon, <1>2
<1> QED
    BY Zenon, <1>2, <1>3, <1>4 DEF IInv, AtRest, Settled, FrameOK, InFlight, Accounted

\* So does the return or the revert of the top call.
LEMMA Returned ==
    ASSUME IInv, stack # <<>>, stack' = Popped, pc' = "caller",
           world' \in World, AtRest(world')
    PROVE  IInv'
<1>1. stack \in Seq(Frame)
    BY Zenon DEF IInv
<1>2. /\ Len(stack) \in Nat \ {0} /\ Top \in Frame
      /\ stack' \in Seq(Frame) /\ Len(stack') = Len(stack) - 1
      /\ \A k \in 1..Len(stack) - 1 : stack'[k] = stack[k]
    <2>1. stack[Len(stack)] \in Frame
        BY <1>1
    <2> QED
        BY Zenon, <1>1, <2>1, StackOps DEF Top
<1>3. ASSUME NEW k \in 1..Len(stack') PROVE FrameOK(stack'[k], Waits(k)')
    <2>1. Waits(k) = "yes" /\ Waits(k)' = "yes" /\ stack'[k] = stack[k] /\ k \in 1..Len(stack)
        BY <1>2 DEF Waits
    <2> QED
        BY Zenon, <2>1 DEF IInv
<1> QED
    BY Zenon, <1>2, <1>3 DEF IInv, AtRest, Settled, FrameOK, InFlight, Accounted

\* And a new call, made while another party's code runs.
LEMMA Entered ==
    ASSUME IInv, NEW kind \in {"claim", "claimMany"}, NEW claims \in Seq(Claim),
           Enter(kind, claims)
    PROVE  IInv'
<1> DEFINE f == [kind |-> kind, todo |-> claims, start |-> world, saved |-> world, row |-> NoRow]
<1>1. /\ stack \in Seq(Frame) /\ world \in World /\ AtRest(world) /\ pc = "caller"
      /\ stack' = Append(stack, f) /\ pc' = "contract" /\ world' = world
    BY Zenon DEF IInv, Enter
<1>2. f \in Frame
    BY <1>1, ListAssumption DEF Frame, NoRow
<1>3. FrameOK(f, "no")
    BY Zenon, <1>1, <1>2 DEF FrameOK
<1> HIDE DEF f
<1>4. /\ Len(stack) \in Nat
      /\ stack' \in Seq(Frame) /\ Len(stack') = Len(stack) + 1 /\ stack'[Len(stack) + 1] = f
      /\ \A k \in 1..Len(stack) : stack'[k] = stack[k]
    BY <1>1, <1>2
<1>5. ASSUME NEW k \in 1..Len(stack') PROVE FrameOK(stack'[k], Waits(k)')
    <2>1. CASE k = Len(stack) + 1
        BY <1>1, <1>3, <1>4, <2>1 DEF Waits
    <2>2. CASE k <= Len(stack)
        <3>1. Waits(k) = "yes" /\ Waits(k)' = "yes" /\ stack'[k] = stack[k] /\ k \in 1..Len(stack)
            BY <1>1, <1>4, <2>2 DEF Waits
        <3> QED
            BY Zenon, <3>1 DEF IInv
    <2> QED
        BY <1>4, <2>1, <2>2
<1>6. stack' # <<>>
    BY <1>4
<1> QED
    BY Zenon, <1>1, <1>4, <1>5, <1>6 DEF IInv, AtRest, Settled, FrameOK, InFlight, Accounted

-----------------------------------------------------------------------------
(***************************************************************************)
(* Every step keeps the invariant.                                         *)
(***************************************************************************)
\* While the contract runs, the top call is a good one and is not waiting.
LEMMA Running ==
    ASSUME IInv, pc = "contract"
    PROVE  /\ stack # <<>> /\ Top \in Frame /\ AtRest(Top.start) /\ Top.row = NoRow
           /\ Top.todo # <<>> => /\ NextRow \in Frame /\ NextRow.start = Top.start
                                 /\ NextRow.row = Top.row
<1>1. stack # <<>> /\ stack \in Seq(Frame)
    BY Zenon DEF IInv
<1>2. Len(stack) \in 1..Len(stack) /\ Top \in Frame
    BY <1>1, EmptySeq, LenProperties DEF Top
<1>3. Waits(Len(stack)) = "no"
    BY <1>2 DEF Waits
<1>4. FrameOK(Top, "no")
    BY Zenon, <1>2, <1>3 DEF IInv, Top
<1>5. ASSUME Top.todo # <<>> PROVE Tail(Top.todo) \in Seq(Claim)
    BY <1>2, <1>5 DEF Frame
<1> HIDE DEF Top
<1> QED
    BY Zenon, <1>1, <1>2, <1>4, <1>5 DEF FrameOK, NextRow, Frame

\* While another party's code runs inside a call, that call's row is in flight.
LEMMA Waiting ==
    ASSUME IInv, pc = "caller", stack # <<>>
    PROVE  /\ Top \in Frame /\ AtRest(Top.start) /\ Top.row \in Row
           /\ InFlight(Top.saved, Top.row)
           /\ Resumed \in Frame /\ FrameOK(Resumed, "no")
<1>1. stack \in Seq(Frame)
    BY Zenon DEF IInv
<1>2. Len(stack) \in 1..Len(stack) /\ Top \in Frame
    BY <1>1, EmptySeq, LenProperties DEF Top
<1>3. Waits(Len(stack)) = "yes"
    BY Zenon, <1>2 DEF Waits
<1>4. FrameOK(Top, "yes")
    BY Zenon, <1>2, <1>3 DEF IInv, Top
<1> HIDE DEF Top
<1>5. /\ Resumed \in Frame /\ Resumed.start = Top.start /\ Resumed.row = NoRow
    <2>1. NoRow \in 0..claimCount
        BY ListAssumption DEF NoRow
    <2>2. Top.start \in World
        BY Zenon, <1>2 DEF Frame
    <2> QED
        BY ZenonT(40), <1>2, <2>1, <2>2, FrameUpdate DEF Resumed
<1> QED
    BY Zenon, <1>2, <1>4, <1>5 DEF FrameOK

\* A step of the funder, a sweep or a mistake: the stack is as it was.
LEMMA WorldOnly ==
    ASSUME IInv, UNCHANGED <<stack, pc>>, world' \in World, AtRest(world')
    PROVE  IInv'
<1>1. \A k \in 1..Len(stack) : Waits(k)' = Waits(k)
    BY Zenon DEF Waits
<1> QED
    BY SMTT(30), <1>1 DEF IInv, AtRest, Settled, FrameOK, InFlight, Accounted

LEMMA Preserved == IInv /\ [Next]_vars => IInv'
<1> SUFFICES ASSUME IInv, [Next]_vars PROVE IInv'
    BY Zenon
<1> USE DEF IInv
<1>0. world \in World /\ AtRest(world)
    BY Zenon
<1> HIDE DEF IInv
<1>1. CASE claim
    <2>1. PICK c \in Submitted : Enter("claim", <<c>>)
        BY Zenon, <1>1 DEF claim
    <2>2. <<c>> \in Seq(Claim)
        BY BoundAssumption
    <2> QED
        BY Zenon, <2>1, <2>2, Entered
<1>2. CASE claimMany
    <2>1. PICK claims \in Batch : Enter("claimMany", claims)
        BY Zenon, <1>2 DEF claimMany
    <2>2. PICK n \in 0..MaxBatch : claims \in [1..n -> Submitted]
        BY Zenon, <2>1 DEF Batch
    <2>3. claims \in Seq(Claim)
        BY <2>2, BoundAssumption, SeqDef
    <2> QED
        BY Zenon, <2>1, <2>3, Entered
<1>3. CASE SkipPaid
    <2>1. /\ pc = "contract" /\ Top.todo # <<>> /\ stack' = Append(Popped, NextRow)
          /\ world' = world /\ pc' = pc
        BY Zenon, <1>3 DEF SkipPaid, AtRow
    <2>2. FrameOK(NextRow, "no") /\ NextRow \in Frame /\ stack # <<>>
        BY Zenon, <2>1, Running DEF FrameOK
    <2> QED
        BY Zenon, <1>0, <2>1, <2>2, Replaced
<1>4. CASE PayToken
    <2>1. PICK c \in Claim :
            /\ AtRow(c) /\ CanPay(c) /\ List[c.index].token # NATIVE
            /\ world' = PaidFromFunder(MarkedClaimed(world, c.index), c.index)
            /\ stack' = Append(Popped, NextRow) /\ pc' = pc
        BY Zenon, <1>4 DEF PayToken
    <2>2. FrameOK(NextRow, "no") /\ NextRow \in Frame /\ stack # <<>> /\ pc' = "contract"
        BY Zenon, <2>1, Running DEF FrameOK, AtRow
    <2>3. world' \in World /\ AtRest(world')
        BY Zenon, <1>0, <2>1, TokenRow DEF CanPay, Passes
    <2> QED
        BY Zenon, <2>1, <2>2, <2>3, Replaced
<1>5. CASE SendNative
    <2>1. PICK c \in Claim :
            /\ AtRow(c) /\ CanPay(c) /\ List[c.index].token = NATIVE /\ pc' = "caller"
            /\ LET before == Unwrapped(MarkedClaimed(world, c.index), c.index) IN
                 /\ world' = PaidFromHere(before, c.index, NATIVE)
                 /\ stack' = Append(Popped, With(NextRow, before, c.index))
        BY Zenon, <1>5 DEF SendNative
    <2> DEFINE before == Unwrapped(MarkedClaimed(world, c.index), c.index)
    <2> DEFINE f == With(NextRow, before, c.index)
    <2>2. c.index \in Row /\ before \in World /\ InFlight(before, c.index)
        BY Zenon, <1>0, <2>1, NativeRow DEF CanPay, Passes
    <2>3. /\ stack # <<>> /\ NextRow \in Frame /\ AtRest(NextRow.start)
        BY Zenon, <2>1, Running DEF AtRow
    <2>4. world' \in World /\ AtRest(world')
        BY Zenon, <2>1, <2>2, Delivered
    <2> HIDE DEF before
    <2>5. /\ f \in Frame /\ f.start = NextRow.start /\ f.saved = before /\ f.row = c.index
        <3>1. c.index \in 0..claimCount
            BY <2>2, ListAssumption DEF Row
        <3> QED
            BY Zenon, <2>2, <2>3, <3>1, FrameUpdate
    <2>6. FrameOK(f, "yes")
        BY Zenon, <2>2, <2>3, <2>5 DEF FrameOK
    <2>7. stack' = Append(Popped, f) /\ pc' = "caller"
        BY Zenon, <2>1 DEF before
    <2> HIDE DEF f
    <2> QED
        BY Zenon, <2>3, <2>4, <2>5, <2>6, <2>7, Replaced
<1>6. CASE Revert
    <2>1. pc = "contract" /\ world' = Top.start /\ stack' = Popped /\ pc' = "caller"
        BY Zenon, <1>6 DEF Revert, AtRow
    <2>2. stack # <<>> /\ AtRest(Top.start) /\ Top.start \in World
        BY Zenon, <2>1, Running DEF Frame
    <2> QED
        BY Zenon, <2>1, <2>2, Returned
<1>7. CASE Finish
    BY Zenon, <1>0, <1>7, Running, Returned DEF Finish
<1>8. CASE Accept
    BY Zenon, <1>0, <1>8, Waiting, Replaced DEF Accept
<1>9. CASE Refuse
    <2>1. /\ pc = "caller" /\ stack # <<>> /\ world' = PaidWrapped(Top.saved, Top.row)
          /\ stack' = Append(Popped, Resumed) /\ pc' = "contract"
        BY Zenon, <1>9 DEF Refuse
    <2>2. Top.saved \in World /\ Top.row \in Row /\ InFlight(Top.saved, Top.row)
        BY Zenon, <2>1, Waiting DEF Frame
    <2>3. world' \in World /\ AtRest(world')
        BY Zenon, <2>1, <2>2, DeliveredWrapped
    <2> QED
        BY Zenon, <2>1, <2>3, Waiting, Replaced
<1>10. ASSUME NEW a \in Asset, sweep(a) PROVE IInv'
    <2> DEFINE here == [world.here EXCEPT ![a] = 0]
    <2> DEFINE funds == [world.funds EXCEPT ![a] = @ + world.here[a]]
    <2> DEFINE swept == [world.swept EXCEPT ![a] = @ + world.here[a]]
    <2>1. world' = [world EXCEPT !.here = here, !.funds = funds, !.swept = swept]
        BY Zenon, <1>0, <1>10 DEF sweep, World
    <2>2. world.here \in [Asset -> Nat] /\ world.funds \in [Asset -> Nat] /\ world.swept \in [Asset -> Nat]
          /\ world.lost \in [Asset -> Nat]
        BY Zenon, <1>0 DEF World
    <2>3. here \in [Asset -> Nat] /\ funds \in [Asset -> Nat] /\ swept \in [Asset -> Nat]
        BY <2>2
    <2>4. \A b \in Asset : here[b] + swept[b] = world.lost[b]
        BY <1>0, <2>2 DEF AtRest
    <2> HIDE DEF here, funds, swept
    <2>5. /\ world' \in World /\ world'.claimed = world.claimed /\ world'.paid = world.paid
          /\ world'.here = here /\ world'.swept = swept /\ world'.lost = world.lost
          /\ world'.funds = funds
        BY Zenon, <1>0, <2>1, <2>3 DEF World
    <2>6. Settled(world')
        BY <1>0, <2>5 DEF AtRest, Settled
    <2>7. \A b \in Asset : swept[b] - funds[b] = world.swept[b] - world.funds[b]
        BY <2>2 DEF swept, funds
    <2>8. \A b \in Asset : swept[b] \in Nat /\ funds[b] \in Nat /\ world.swept[b] \in Nat /\ world.funds[b] \in Nat
        BY Zenon, <2>2, <2>3
    <2>9. Accounted(world')
        <3>1. ASSUME NEW t \in Token
              PROVE  Funds[t] + swept[t] - funds[t] = TotalOf(t, world.claimed)
            <4>1. Funds[t] + world.swept[t] - world.funds[t] = TotalOf(t, world.claimed)
                BY Zenon, <1>0 DEF AtRest, Accounted
            <4>2. t \in Asset /\ Funds[t] \in Nat
                BY Zenon, AssetAssumption DEF Asset
            <4> QED
                BY <2>7, <2>8, <4>1, <4>2
        <3>2. funds[NATIVE] = swept[NATIVE]
            <4>1. world.funds[NATIVE] = world.swept[NATIVE] /\ NATIVE \in Asset
                BY Zenon, <1>0 DEF AtRest, Accounted, Asset
            <4> QED
                BY <2>7, <2>8, <4>1
        <3> QED
            BY Zenon, <2>5, <3>1, <3>2 DEF Accounted
    <2>10. AtRest(world')
        BY Zenon, <2>4, <2>5, <2>6, <2>9 DEF AtRest
    <2> QED
        BY Zenon, <1>10, <2>5, <2>10, WorldOnly DEF sweep
<1>11. ASSUME NEW a \in Asset, Mistake(a) PROVE IInv'
    <2> DEFINE here == [world.here EXCEPT ![a] = @ + 1]
    <2> DEFINE lost == [world.lost EXCEPT ![a] = @ + 1]
    <2>1. world' = [world EXCEPT !.here = here, !.lost = lost]
        BY Zenon, <1>0, <1>11 DEF Mistake, World
    <2>2. world.here \in [Asset -> Nat] /\ world.swept \in [Asset -> Nat] /\ world.lost \in [Asset -> Nat]
        BY Zenon, <1>0 DEF World
    <2>3. here \in [Asset -> Nat] /\ lost \in [Asset -> Nat]
        BY <2>2
    <2>4. \A b \in Asset : here[b] + world.swept[b] = lost[b]
        BY <1>0, <2>2 DEF AtRest
    <2> HIDE DEF here, lost
    <2>5. /\ world' \in World /\ world'.claimed = world.claimed /\ world'.paid = world.paid
          /\ world'.here = here /\ world'.swept = world.swept /\ world'.lost = lost
          /\ world'.funds = world.funds
        BY Zenon, <1>0, <2>1, <2>3 DEF World
    <2>6. Settled(world')
        BY <1>0, <2>5 DEF AtRest, Settled
    <2>7. Accounted(world')
        BY Zenon, <1>0, <2>5 DEF AtRest, Accounted
    <2>8. AtRest(world')
        BY Zenon, <2>4, <2>5, <2>6, <2>7 DEF AtRest
    <2> QED
        BY Zenon, <1>11, <2>5, <2>8, WorldOnly DEF Mistake
<1>12. ASSUME NEW t \in Token, NEW n \in Nat, UNCHANGED <<stack, pc>>,
              world' = [world EXCEPT !.allow[t] = n]
       PROVE  IInv'
    <2>1. /\ world' \in World /\ world'.claimed = world.claimed /\ world'.paid = world.paid
          /\ world'.here = world.here /\ world'.swept = world.swept /\ world'.lost = world.lost
          /\ world'.funds = world.funds
        BY Zenon, <1>0, <1>12 DEF World
    <2>2. Settled(world')
        BY <1>0, <2>1 DEF AtRest, Settled
    <2>3. Accounted(world')
        BY Zenon, <1>0, <2>1 DEF AtRest, Accounted
    <2>4. \A a \in Asset : world'.here[a] + world'.swept[a] = world'.lost[a]
        BY Zenon, <1>0, <2>1 DEF AtRest
    <2>5. AtRest(world')
        BY Zenon, <2>2, <2>3, <2>4 DEF AtRest
    <2> QED
        BY Zenon, <1>12, <2>1, <2>5, WorldOnly
<1>13. ASSUME NEW t \in Token, Approve(t) \/ Revoke(t) PROVE IInv'
    BY Zenon, <1>12, <1>13, AssetAssumption DEF Approve, Revoke
<1>14. CASE Relay
    <2>1. WholeList \in [1..claimCount -> Claim]
        BY ListAssumption DEF WholeList, Claim
    <2>2. WholeList \in Seq(Claim)
        BY Zenon, <2>1, ListAssumption, SeqDef
    <2>3. Enter("claimMany", WholeList)
        BY Zenon, <1>14 DEF Relay
    <2> HIDE DEF WholeList
    <2> QED
        BY Zenon, <2>2, <2>3, Entered
<1>15. CASE UNCHANGED vars
    BY Zenon, <1>0, <1>15, WorldOnly DEF vars
<1> QED
    BY Zenon, <1>1, <1>2, <1>3, <1>4, <1>5, <1>6, <1>7, <1>8, <1>9, <1>10, <1>11, <1>13, <1>14, <1>15
    DEF Next, Contract

LEMMA Initially == Init => IInv
<1> SUFFICES ASSUME Init PROVE IInv
    BY Zenon
<1>1. world \in World
    BY Zenon, AssetAssumption DEF Init, World, Asset
<1>2. Settled(world) /\ \A a \in Asset : world.here[a] + world.swept[a] = world.lost[a]
    BY DEF Init, Settled
<1>3. Accounted(world)
    <2>1. ASSUME NEW t \in Token
          PROVE  world.swept[t] = 0 /\ world.funds[t] = Funds[t] /\ Funds[t] \in Nat
        BY Zenon, AssetAssumption DEF Init, Asset
    <2>2. ASSUME NEW t \in Token
          PROVE  TotalOf(t, world.claimed) = 0
        <3>1. {i \in world.claimed : PullAsset(i) = t} = {}
            BY Zenon DEF Init
        <3> QED
            BY Zenon, <3>1, SumEmpty DEF TotalOf
    <2>3. world.funds[NATIVE] = world.swept[NATIVE]
        BY Zenon DEF Init, Asset
    <2> QED
        BY <2>1, <2>2, <2>3 DEF Accounted
<1>4. AtRest(world)
    BY Zenon, <1>2, <1>3 DEF AtRest
<1>5. stack \in Seq(Frame) /\ Len(stack) = 0
    BY Zenon, EmptySeq DEF Init
<1> QED
    BY <1>1, <1>4, <1>5 DEF Init, IInv

-----------------------------------------------------------------------------
(***************************************************************************)
(* The results.                                                            *)
(***************************************************************************)
\* The invariant of the module holds in every reachable state: every world a
\* revert or a refusal can go back to is settled but for the row in flight.
THEOREM Invariance == Spec => []IInv
<1>1. Init => IInv
    BY Zenon, Initially
<1>2. IInv /\ [Next]_vars => IInv'
    BY Zenon, Preserved
<1> QED
    BY <1>1, <1>2, PTL DEF Spec

\* For every list and however deep calls nest: a row has been paid to its
\* account exactly once if its bit in the bitmap is set and never if not.
THEOREM RowsPaidOnce == Spec => []PaysEachRowOnce
<1>1. IInv => PaysEachRowOnce
    BY Zenon DEF IInv, AtRest, PaysEachRowOnce
<1> QED
    BY <1>1, Invariance, PTL

\* Whenever another party's code runs, the contract holds what was sent to it
\* by mistake and not yet swept, and nothing of any payment.
THEOREM NothingHeld == Spec => []HoldsOnlyMistakes
<1>1. IInv => HoldsOnlyMistakes
    BY Zenon DEF IInv, AtRest, HoldsOnlyMistakes
<1> QED
    BY <1>1, Invariance, PTL

\* Whatever the order of calls, refusals, reverts and sweeps: what has left the
\* funder in a token is what the marked rows of that token add up to, less
\* what sweeps returned.
THEOREM FunderPays == Spec => []FunderPaysTheMarkedRows
<1>1. IInv => FunderPaysTheMarkedRows
    BY Zenon DEF IInv, AtRest, Accounted, FunderPaysTheMarkedRows
<1> QED
    BY <1>1, Invariance, PTL

\* Types: no balance, approval or holding is ever negative, and a call is at
\* a row exactly while that row's account runs.
THEOREM TypesHold == Spec => []TypeOK
<1>1. IInv => TypeOK
    <2> SUFFICES ASSUME IInv PROVE TypeOK
        BY Zenon
    <2>1. stack \in Seq(Frame) /\ DOMAIN stack = 1..Len(stack) /\ Len(stack) \in Nat
        BY Zenon, LenProperties DEF IInv
    <2>2. ASSUME NEW k \in 1..Len(stack)
          PROVE  /\ stack[k].start \in World /\ stack[k].saved \in World
                 /\ stack[k].row \in 0..claimCount
                 /\ (k < Len(stack) \/ pc = "caller") <=> stack[k].row \in Row
        <3>1. FrameOK(stack[k], Waits(k)) /\ stack[k] \in Frame
            BY Zenon DEF IInv, FrameOK
        <3>2. NoRow \notin Row
            BY ListAssumption DEF NoRow, Row
        <3> QED
            BY Zenon, <3>1, <3>2 DEF FrameOK, Frame, Waits
    <2> QED
        BY Zenon, <2>1, <2>2 DEF TypeOK, IInv
<1> QED
    BY <1>1, Invariance, PTL
=============================================================================
