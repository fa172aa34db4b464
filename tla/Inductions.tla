------------------------------ MODULE Inductions ------------------------------
(***************************************************************************)
(* Induction and recursion over the natural numbers, of sets and functions *)
(* instead of operators, for the theorems about recursive functions of the *)
(* models.                                                                 *)
(***************************************************************************)
EXTENDS Naturals, FiniteSetTheorems, WellFoundedInduction, TLAPS

\* What holds of 0 and of the number after each of which it holds, holds of all: a least
\* number of which it does not would have a predecessor.
LEMMA Induction ==
    ASSUME NEW S, 0 \in S, \A n \in Nat : n \in S => n + 1 \in S
    PROVE  \A n \in Nat : n \in S
    <1> SUFFICES ASSUME NEW m \in Nat, m \notin S
                 PROVE  FALSE
        OBVIOUS
    <1> DEFINE Missing == {n \in 0..m : n \notin S}
               Below(n) == {k \in Missing : k < n}
               Sets == {Below(n) : n \in Missing}
    <1>1. Sets \subseteq FiniteSubsetsOf(0..m) /\ Sets # {}
        <2>1. IsFiniteSet(0..m)
            BY FS_Interval
        <2>2. \A n \in Missing : Below(n) \in SUBSET (0..m)
            OBVIOUS
        <2>3. m \in Missing
            OBVIOUS
        <2>4. \A T \in SUBSET (0..m) : IsFiniteSet(T)
            BY <2>1, FS_Subset
        <2> QED BY <2>2, <2>3, <2>4 DEF FiniteSubsetsOf
    <1>2. IsWellFoundedOn(StrictSubsetOrdering(0..m), FiniteSubsetsOf(0..m))
        BY FS_StrictSubsetOrderingWellFounded
    <1>3. PICK n \in Missing : \A k \in Missing : ~(<<Below(k), Below(n)>> \in StrictSubsetOrdering(0..m))
        <2> HIDE DEF Sets
        <2>1. \E least \in Sets : \A T \in Sets : ~(<<T, least>> \in StrictSubsetOrdering(0..m))
            BY <1>1, <1>2, WFMin
        <2> QED BY <2>1 DEF Sets
    <1>4. n # 0 /\ n - 1 \in Nat /\ n - 1 \in Missing
        OBVIOUS
    <1>5. n - 1 \in Below(n) /\ n - 1 \notin Below(n - 1) /\ Below(n - 1) \subseteq Below(n)
        BY <1>4
    <1>6. <<Below(n - 1), Below(n)>> \in StrictSubsetOrdering(0..m)
        BY <1>5 DEF StrictSubsetOrdering
    <1> QED BY <1>3, <1>4, <1>6

\* The functions that begin with a and whose n-th step is g[n].
Iterated(S, a, g) == {f \in [Nat -> S] : f[0] = a /\ \A n \in Nat : f[n + 1] = g[n][f[n]]}
Steps(S) == [Nat -> [S -> S]]

\* There is such a function: those up to each number agree.
LEMMA Recursion ==
    ASSUME NEW S, NEW a \in S, NEW g \in Steps(S)
    PROVE  Iterated(S, a, g) # {}
    <1> USE DEF Steps
    <1> DEFINE Upto(n) == {f \in [0..n -> S] : f[0] = a /\ \A k \in 0..(n - 1) : f[k + 1] = g[k][f[k]]}
    <1>1. \A n \in Nat : Upto(n) # {}
        <2> DEFINE Reached == {n \in Nat : Upto(n) # {}}
        <2>1. 0 \in Reached
            <3>1. [k \in 0..0 |-> a] \in Upto(0)
                OBVIOUS
            <3> QED BY <3>1
        <2>2. ASSUME NEW n \in Nat, n \in Reached PROVE n + 1 \in Reached
            <3>1. PICK f : f \in Upto(n)
                BY <2>2
            <3> DEFINE h == [k \in 0..(n + 1) |-> IF k = n + 1 THEN g[n][f[n]] ELSE f[k]]
            <3>2. h \in Upto(n + 1)
                <4>1. f \in [0..n -> S] /\ f[n] \in S /\ g[n][f[n]] \in S
                    BY <3>1
                <4>2. h \in [0..(n + 1) -> S] /\ h[0] = a
                    BY <3>1, <4>1
                <4>3. ASSUME NEW k \in 0..n PROVE h[k + 1] = g[k][h[k]]
                    <5>1. CASE k = n
                        BY <5>1
                    <5>2. CASE k < n
                        <6>1. k \in 0..(n - 1) /\ k + 1 \in 0..n /\ k \in 0..(n + 1) /\ k + 1 \in 0..(n + 1)
                            BY <5>2
                        <6>2. f[k + 1] = g[k][f[k]]
                            BY <3>1, <6>1
                        <6> QED BY <6>1, <6>2, <5>2
                    <5> QED BY <5>1, <5>2
                <4>4. 0..((n + 1) - 1) = 0..n
                    OBVIOUS
                <4> HIDE DEF h
                <4> QED BY <4>2, <4>3, <4>4
            <3> HIDE DEF h, Upto
            <3> QED BY <3>2
        <2> HIDE DEF Reached
        <2>3. \A n \in Nat : n \in Reached
            BY <2>1, <2>2, Induction
        <2> QED BY <2>3 DEF Reached
    <1> DEFINE f(n) == CHOOSE f : f \in Upto(n)
    <1>2. \A n \in Nat : f(n) \in Upto(n)
        BY <1>1
    <1> HIDE DEF f
    <1>3. ASSUME NEW n \in Nat PROVE f(n + 1)[n] = f(n)[n]
        <2> DEFINE Agree == {k \in Nat : k <= n => f(n + 1)[k] = f(n)[k]}
        <2>1. 0 \in Agree
            BY <1>2
        <2>2. ASSUME NEW k \in Nat, k \in Agree PROVE k + 1 \in Agree
            <3> SUFFICES ASSUME k + 1 <= n PROVE f(n + 1)[k + 1] = f(n)[k + 1]
                OBVIOUS
            <3>1. f(n)[k + 1] = g[k][f(n)[k]]
                BY <1>2
            <3>2. f(n + 1)[k + 1] = g[k][f(n + 1)[k]]
                <4>1. n + 1 \in Nat /\ k \in 0..((n + 1) - 1)
                    OBVIOUS
                <4>2. f(n + 1) \in Upto(n + 1)
                    BY <4>1, <1>2
                <4> QED BY <4>1, <4>2
            <3> QED BY <3>1, <3>2, <2>2
        <2> HIDE DEF Agree
        <2>3. \A k \in Nat : k \in Agree
            BY <2>1, <2>2, Induction
        <2> QED BY <2>3 DEF Agree
    <1> DEFINE h == [n \in Nat |-> f(n)[n]]
    <1>4. h \in [Nat -> S] /\ h[0] = a
        BY <1>2
    <1>5. ASSUME NEW n \in Nat PROVE h[n + 1] = g[n][h[n]]
        <2>1. f(n + 1)[n + 1] = g[n][f(n + 1)[n]]
            <3>1. n + 1 \in Nat /\ n \in 0..((n + 1) - 1)
                OBVIOUS
            <3>2. f(n + 1) \in Upto(n + 1)
                BY <3>1, <1>2
            <3> QED BY <3>1, <3>2
        <2> QED BY <2>1, <1>3
    <1>6. h \in Iterated(S, a, g)
        BY <1>4, <1>5 DEF Iterated
    <1> QED BY <1>6

=============================================================================
