--------------------------- MODULE DeliveryProofs ---------------------------
(***************************************************************************)
(* What the abstract line of Delivery promises follows from its steps, for *)
(* any number of lines and items, and two lines put end to end (Relay) are *)
(* a line again.                                                           *)
(***************************************************************************)
EXTENDS Relay, TLAPS

\* The inductive invariant: the types and InOrder.
LineInv ==
  /\ put \in [Lines -> Nat]
  /\ \A l \in Lines : DOMAIN got[l] \subseteq Nat
  /\ InOrder

\* A line on which nothing comes out stays in order.
LEMMA PutKeeps ==
  ASSUME LineInv, NEW l \in Lines, put'[l] \in Nat, Put(l)
  PROVE  /\ DOMAIN got'[l] \subseteq Nat
         /\ \A p \in DOMAIN got'[l] : got'[l][p] \in 1 .. put'[l]
         /\ \A p, q \in DOMAIN got'[l] : p < q => got'[l][p] < got'[l][q]
         /\ ~MaySkip => \A p \in DOMAIN got'[l] : \A m \in 1 .. got'[l][p] - 1 :
                          \E q \in DOMAIN got'[l] : q < p /\ got'[l][q] = m
<1>1. got'[l] = got[l] /\ put'[l] >= put[l] /\ put[l] \in Nat
  BY DEF Put, LineInv
<1>2. \A p \in DOMAIN got[l] : got[l][p] \in 1 .. put'[l]
  BY <1>1 DEF LineInv, InOrder
<1> QED
  BY <1>1, <1>2 DEF LineInv, InOrder

\* What comes out is newer than everything before it, and the next one where
\* none may be skipped.
LEMMA GetKeeps ==
  ASSUME LineInv, NEW l \in Lines, Get(l)
  PROVE  /\ DOMAIN got'[l] \subseteq Nat
         /\ \A p \in DOMAIN got'[l] : got'[l][p] \in 1 .. put'[l]
         /\ \A p, q \in DOMAIN got'[l] : p < q => got'[l][p] < got'[l][q]
         /\ ~MaySkip => \A p \in DOMAIN got'[l] : \A m \in 1 .. got'[l][p] - 1 :
                          \E q \in DOMAIN got'[l] : q < p /\ got'[l][q] = m
<1> DEFINE f == got[l]  g == got'[l]
<1>1. /\ put[l] \in Nat /\ put'[l] = put[l] /\ DOMAIN f \subseteq Nat
      /\ \A p \in DOMAIN f : f[p] \in 1 .. put[l]
      /\ \A p, q \in DOMAIN f : p < q => f[p] < f[q]
      /\ ~MaySkip => \A p \in DOMAIN f : \A m \in 1 .. f[p] - 1 :
                       \E q \in DOMAIN f : q < p /\ f[q] = m
  BY DEF Get, LineInv, InOrder
<1>2. PICK at \in DOMAIN g, i \in 1 .. put[l] :
        /\ at \in Nat /\ \A p \in DOMAIN f : p < at /\ f[p] < i
        /\ MaySkip \/ CaughtUp(l, i)
        /\ DOMAIN g = DOMAIN f \cup {at} /\ g[at] = i
        /\ \A p \in DOMAIN f : g[p] = f[p]
  BY DEF Get
<1>3. ~MaySkip => \A m \in 1 .. i - 1 : \E p \in DOMAIN f : f[p] = m
  BY <1>2 DEF CaughtUp
<1> HIDE DEF f, g
<1>4. DOMAIN g \subseteq Nat /\ \A p \in DOMAIN g : g[p] \in 1 .. put'[l]
  BY <1>1, <1>2
<1>5. ASSUME NEW p \in DOMAIN g, NEW q \in DOMAIN g, p < q PROVE g[p] < g[q]
  <2>1. CASE p \in DOMAIN f /\ q \in DOMAIN f
    BY <1>1, <1>2, <1>5, <2>1
  <2>2. CASE p \in DOMAIN f /\ q = at
    BY <1>2, <2>2
  <2>3. p # at
    <3>1. p = at => q \in Nat /\ at \in Nat /\ at < q /\ (q = at \/ q < at)
      BY <1>1, <1>2, <1>5
    <3> QED
      BY <3>1
  <2> QED
    BY <1>2, <2>1, <2>2, <2>3
<1>6. ASSUME ~MaySkip, NEW p \in DOMAIN g, NEW m \in 1 .. g[p] - 1
      PROVE  \E q \in DOMAIN g : q < p /\ g[q] = m
  <2>1. CASE p \in DOMAIN f
    <3>1. g[p] = f[p]
      BY <1>2, <2>1
    <3>2. PICK q \in DOMAIN f : q < p /\ f[q] = m
      BY <1>1, <1>6, <2>1, <3>1
    <3> QED
      BY <1>2, <3>2
  <2>2. CASE p = at
    <3>1. PICK q \in DOMAIN f : f[q] = m
      BY <1>2, <1>3, <1>6, <2>2
    <3> QED
      BY <1>2, <2>2, <3>1
  <2> QED
    BY <1>2, <2>1, <2>2
<1> QED
  BY <1>4, <1>5, <1>6 DEF f, g

\* Empty lines are in order.
LEMMA LineInit == Init => LineInv
BY DEF Init, LineInv, InOrder

\* Every step keeps the order of every line.
LEMMA LineStep == LineInv /\ [Next]_vars => LineInv'
<1> SUFFICES ASSUME LineInv, [Next]_vars PROVE LineInv'
  OBVIOUS
<1>1. CASE UNCHANGED vars
  BY <1>1 DEF vars, LineInv, InOrder
<1>2. CASE Next
  <2>1. put' \in [Lines -> Nat]
    BY <1>2 DEF Next
  <2>2. ASSUME NEW l \in Lines
        PROVE  /\ DOMAIN got'[l] \subseteq Nat
               /\ \A p \in DOMAIN got'[l] : got'[l][p] \in 1 .. put'[l]
               /\ \A p, q \in DOMAIN got'[l] : p < q => got'[l][p] < got'[l][q]
               /\ ~MaySkip => \A p \in DOMAIN got'[l] : \A m \in 1 .. got'[l][p] - 1 :
                                \E q \in DOMAIN got'[l] : q < p /\ got'[l][q] = m
    <3>1. put'[l] \in Nat /\ (Put(l) \/ Get(l))
      BY <1>2, <2>1 DEF Next
    <3> QED
      BY <3>1, PutKeeps, GetKeeps
  <2> QED
    BY <2>1, <2>2 DEF LineInv, InOrder
<1> QED
  BY <1>1, <1>2

\* Whatever implements Delivery hands items out in the order in which they were
\* put, none twice, none that was not put, and without gaps where the line may
\* not skip (the joiner's two directions).
THEOREM LinesInOrder == Spec => []InOrder
<1>1. LineInv => InOrder
  BY DEF LineInv
<1> QED
  BY LineInit, LineStep, <1>1, PTL DEF Spec

-----------------------------------------------------------------------------
(* Two lines put end to end *)

\* The inductive invariant: the first line is in order, and what the second has
\* handed out stands in the log of the first.
RelayInv ==
  /\ LineInv
  /\ \A l \in Lines : \A p \in DOMAIN out[l] : out[l][p] \in 1 .. Len(got[l])

\* A step of the first line leaves the places of its log as they are.
LEMMA LogGrows ==
  ASSUME Between, Between', [Next]_vars, NEW l \in Lines
  PROVE  /\ Len(got[l]) \in Nat /\ Len(got'[l]) \in Nat /\ Len(got[l]) <= Len(got'[l])
         /\ DOMAIN got[l] = 1 .. Len(got[l]) /\ DOMAIN got'[l] = 1 .. Len(got'[l])
         /\ \A i \in 1 .. Len(got[l]) : got'[l][i] = got[l][i]
<1>1. got[l] \in Seq(Nat) /\ got'[l] \in Seq(Nat)
  BY DEF Between
<1>2. /\ Len(got[l]) \in Nat /\ Len(got'[l]) \in Nat
      /\ DOMAIN got[l] = 1 .. Len(got[l]) /\ DOMAIN got'[l] = 1 .. Len(got'[l])
  BY <1>1
<1>3. got'[l] = got[l] \/ Get(l)
  BY DEF Next, Put, vars
<1>4. CASE Get(l)
  <2>1. /\ DOMAIN got[l] \subseteq DOMAIN got'[l]
        /\ \A p \in DOMAIN got[l] : got'[l][p] = got[l][p]
    BY <1>4 DEF Get
  <2>2. Len(got[l]) <= Len(got'[l])
    <3>1. Len(got[l]) > 0 => Len(got[l]) \in 1 .. Len(got'[l])
      BY <1>2, <2>1
    <3> QED
      BY <1>2, <3>1
  <2> QED
    BY <1>2, <2>1, <2>2
<1> QED
  BY <1>2, <1>3, <1>4

\* The places of the second log that a step of the second line may add.
LEMMA OutMoves ==
  ASSUME [Second!Next]_(Second!vars), NEW l \in Lines
  PROVE  out'[l] = out[l] \/ Second!Get(l)
BY DEF Second!Next, Second!Put, Second!vars

\* Nothing has come through when the lines are empty.
LEMMA RelayInit == Init /\ Second!Init => RelayInv
<1> SUFFICES ASSUME Init, Second!Init PROVE RelayInv
  OBVIOUS
<1>1. \A l \in Lines : DOMAIN out[l] = {}
  BY DEF Second!Init
<1> QED
  BY <1>1, LineInit DEF RelayInv

\* Both lines keep the invariant, whichever moves.
LEMMA RelayStep ==
  /\ RelayInv /\ Between /\ Between'
  /\ [Next]_vars /\ [Second!Next]_(Second!vars)
  => RelayInv'
<1> SUFFICES ASSUME RelayInv, Between, Between', [Next]_vars, [Second!Next]_(Second!vars)
             PROVE  RelayInv'
  OBVIOUS
<1>1. LineInv'
  BY LineStep DEF RelayInv
<1>2. ASSUME NEW l \in Lines, NEW p \in DOMAIN out'[l]
      PROVE  out'[l][p] \in 1 .. Len(got'[l])
  <2>1. /\ Len(got[l]) \in Nat /\ Len(got'[l]) \in Nat /\ Len(got[l]) <= Len(got'[l])
    BY LogGrows
  <2>2. \A q \in DOMAIN out[l] : out[l][q] \in 1 .. Len(got[l])
    BY DEF RelayInv
  <2>3. CASE out'[l] = out[l]
    BY <1>2, <2>1, <2>2, <2>3
  <2>4. CASE Second!Get(l)
    <3>1. PICK at \in DOMAIN out'[l], i \in 1 .. Len(got[l]) :
            /\ DOMAIN out'[l] = DOMAIN out[l] \cup {at} /\ out'[l][at] = i
            /\ \A q \in DOMAIN out[l] : out'[l][q] = out[l][q]
      BY <2>4 DEF Second!Get
    <3> QED
      BY <1>2, <2>1, <2>2, <3>1
  <2> QED
    BY <2>3, <2>4, OutMoves
<1> QED
  BY <1>1, <1>2 DEF RelayInv

\* What comes out of the second line comes through both: in order, because both
\* logs are, and without a gap where neither line may skip.
LEMMA ThroughGet ==
  ASSUME RelayInv, Between, UNCHANGED <<put, got>>, NEW l \in Lines, Second!Get(l)
  PROVE  Whole!Get(l)
<1> DEFINE f == got[l]  n == Len(got[l])  s == out[l]  t == out'[l]
<1>1. PICK at \in DOMAIN t, i \in 1 .. n :
        /\ at \in Nat /\ \A p \in DOMAIN s : p < at /\ s[p] < i
        /\ SkipsAgain \/ Second!CaughtUp(l, i)
        /\ DOMAIN t = DOMAIN s \cup {at} /\ t[at] = i
        /\ \A p \in DOMAIN s : t[p] = s[p]
  BY DEF Second!Get
<1>2. n \in Nat /\ DOMAIN f = 1 .. n
  BY DEF Between
<1>3. /\ \A p \in DOMAIN f : f[p] \in 1 .. put[l]
      /\ \A p, q \in DOMAIN f : p < q => f[p] < f[q]
      /\ ~MaySkip => \A p \in DOMAIN f : \A m \in 1 .. f[p] - 1 :
                       \E q \in DOMAIN f : q < p /\ f[q] = m
      /\ \A p \in DOMAIN s : s[p] \in 1 .. n
  BY DEF RelayInv, LineInv, InOrder
<1>4. ~SkipsAgain => \A m \in 1 .. i - 1 : \E p \in DOMAIN s : s[p] = m
  BY <1>1 DEF Second!CaughtUp
<1>5. /\ DOMAIN Through[l] = DOMAIN s /\ \A p \in DOMAIN s : Through[l][p] = f[s[p]]
      /\ DOMAIN Through'[l] = DOMAIN t /\ \A p \in DOMAIN t : Through'[l][p] = f[t[p]]
  BY DEF Through
<1> HIDE DEF f, n, s, t
<1>6. f[i] \in 1 .. put[l]
  BY <1>1, <1>2, <1>3
<1>7. \A p \in DOMAIN Through[l] : p < at /\ Through[l][p] < f[i]
  BY <1>1, <1>2, <1>3, <1>5
<1>8. (MaySkip \/ SkipsAgain) \/ Whole!CaughtUp(l, f[i])
  <2> SUFFICES ASSUME ~MaySkip, ~SkipsAgain, NEW m \in 1 .. f[i] - 1
               PROVE  \E p \in DOMAIN Through[l] : Through[l][p] = m
    BY DEF Whole!CaughtUp
  <2>1. PICK q \in DOMAIN f : q < i /\ f[q] = m
    BY <1>1, <1>2, <1>3
  <2>2. PICK p \in DOMAIN s : s[p] = q
    BY <1>1, <1>2, <1>4, <2>1
  <2> QED
    BY <1>5, <2>1, <2>2
<1>9. /\ at \in DOMAIN Through'[l] /\ DOMAIN Through'[l] = DOMAIN Through[l] \cup {at}
      /\ Through'[l][at] = f[i]
      /\ \A p \in DOMAIN Through[l] : Through'[l][p] = Through[l][p]
  BY <1>1, <1>5
<1>10. put'[l] = put[l] /\ at \in Nat
  BY <1>1
<1> QED
  BY <1>6, <1>7, <1>8, <1>9, <1>10 DEF Whole!Get

\* A step of both lines is a step of the whole.
LEMMA WholeStep ==
  /\ RelayInv /\ Between /\ Between'
  /\ [Next]_vars /\ [Second!Next]_(Second!vars) /\ [Turns]_<<put, got, out>>
  => [Whole!Next]_(Whole!vars)
<1> SUFFICES ASSUME RelayInv, Between, Between', [Next]_vars, [Second!Next]_(Second!vars),
                    [Turns]_<<put, got, out>>
             PROVE  Whole!Next
  OBVIOUS
<1>1. put' \in [Lines -> Nat] /\ \A l \in Lines : put[l] \in Nat /\ put'[l] >= put[l]
  <2>1. put \in [Lines -> Nat]
    BY DEF RelayInv, LineInv
  <2> QED
    BY <2>1 DEF Next, Put, Get, vars
<1>2. DOMAIN Through' = Lines
  BY DEF Through
<1>3. ASSUME NEW l \in Lines PROVE Whole!Put(l) \/ Whole!Get(l)
  <2>1. CASE out'[l] = out[l]
    <3>1. /\ Len(got[l]) \in Nat
          /\ \A i \in 1 .. Len(got[l]) : got'[l][i] = got[l][i]
      BY LogGrows
    <3>2. \A p \in DOMAIN out[l] : out[l][p] \in 1 .. Len(got[l])
      BY DEF RelayInv
    <3>3. /\ Through[l] = [p \in DOMAIN out[l] |-> got[l][out[l][p]]]
          /\ Through'[l] = [p \in DOMAIN out'[l] |-> got'[l][out'[l][p]]]
      BY DEF Through
    <3>4. Through'[l] = Through[l]
      BY <2>1, <3>1, <3>2, <3>3
    <3> QED
      BY <1>1, <3>4 DEF Whole!Put
  <2>2. CASE out'[l] # out[l]
    <3>1. UNCHANGED <<put, got>>
      BY <2>2 DEF Turns
    <3>2. Second!Get(l)
      BY <2>2, OutMoves
    <3> QED
      BY <3>1, <3>2, ThroughGet
  <2> QED
    BY <2>1, <2>2
<1> QED
  BY <1>1, <1>2, <1>3 DEF Whole!Next

\* Two stages put end to end implement Delivery: a message on its way through
\* the host's writer, the frames and the joiner's reader, or back, keeps its
\* order, comes at most once, and is left out only where a stage may skip.
THEOREM RelayIsLine == RelaySpec => RelaysInOrder
<1>1. Init /\ Second!Init => Whole!Init
  <2> SUFFICES ASSUME Init, Second!Init PROVE Whole!Init
    OBVIOUS
  <2>1. \A l \in Lines : DOMAIN out[l] = {}
    BY DEF Second!Init
  <2>2. \A l \in Lines : [p \in DOMAIN out[l] |-> got[l][out[l][p]]] \in [{} -> Nat]
    BY <2>1
  <2> QED
    BY <2>2 DEF Init, Whole!Init, Through
<1> QED
  BY <1>1, RelayInit, RelayStep, WholeStep, PTL
     DEF RelaySpec, Spec, Second!Spec, RelaysInOrder, Whole!Spec
=============================================================================
