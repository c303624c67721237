---------------------------- MODULE InviteProofs ----------------------------
(***************************************************************************)
(* Theorems about Invite for any number of codes and attempts, any width   *)
(* of the timestamps, any tolerance and any skew of the clocks that does   *)
(* not carry them to the end of the range.                                 *)
(***************************************************************************)
EXTENDS Invite, TLAPS

USE DEF None, Malformed, Verdicts, Over, hubVars

-----------------------------------------------------------------------------
(* Type correctness *)

\* What connects the two ends of a stream: an attempt that began has a code with
\* a token, and the hub hears nothing before the joiner has written its hello.
Begun ==
  \A a \in Attempts :
    /\ joiner[a] # "idle" => code[a] \in Codes /\ stamp[code[a]] # -1
    /\ joiner[a] \in {"idle", "connect"} => hub[a] = "none"
    /\ hub[a] \in {"none", "nonce"} => answer[a] = "none"

TypeInv == TypeOK /\ Begun

\* The clock of a joiner is a u64, and no sum that decode makes of it wraps.
LEMMA ClockFits ==
  ASSUME TypeOK, NEW k \in Skews, clock + k >= 0
  PROVE  clock + k \in U64 /\ clock + k + SkewTol + Ttl < Modulus
<1>1. /\ clock \in Int /\ clock <= MaxTime /\ k \in Int
      /\ MaxTime \in Int /\ SkewTol \in Nat /\ Ttl \in Nat /\ Modulus \in Int
      /\ MaxTime + k + SkewTol + Ttl < Modulus
  BY InviteAssumption DEF TypeOK, InviteAssumption
<1> QED
  BY <1>1 DEF U64

\* What decode says is a verdict or that the joiner may connect.
LEMMA OutcomeType ==
  ASSUME NEW c, NEW now, NEW v \in Outcomes(c, now)
  PROVE  v \in Verdicts \cup {"connect"}
BY DEF Outcomes, Decode

\* There is no token and no attempt at the start.
LEMMA TypeInit == Init => TypeInv
BY InviteAssumption DEF Init, TypeInv, TypeOK, Begun, InviteAssumption, U64

\* Every step keeps the types and the order of the two ends.
LEMMA TypeStep == TypeInv /\ [Next]_vars => TypeInv'
<1> SUFFICES ASSUME TypeInv, [Next]_vars PROVE TypeInv'
  OBVIOUS
<1> USE DEF TypeInv
<1>1. CASE Tick
  BY <1>1, InviteAssumption DEF Tick, TypeOK, Begun, InviteAssumption
<1>2. ASSUME NEW c \in Codes, Issue(c) PROVE TypeInv'
  <2>1. clock \in U64 /\ clock # -1
    BY InviteAssumption DEF TypeOK, InviteAssumption, U64
  <2> QED
    BY <1>2, <2>1 DEF Issue, Encode, TypeOK, Begun
<1>3. ASSUME NEW c \in Codes, Type(c) PROVE TypeInv'
  <2>1. \A t \in U64 : t # -1
    BY DEF U64
  <2> QED
    BY <1>3, <2>1 DEF Type, Encode, TypeOK, Begun
<1>4. ASSUME NEW a \in Attempts, NEW c \in Codes, NEW k \in Skews, Begin(a, c, k)
      PROVE  TypeInv'
  <2>1. clock + k \in U64
    BY <1>4, ClockFits DEF Begin
  <2>2. PICK v \in Outcomes(c, clock + k) : joiner' = [joiner EXCEPT ![a] = v]
    BY <1>4 DEF Begin
  <2>3. v \in Verdicts \cup {"connect"}
    BY OutcomeType
  <2> QED
    BY <1>4, <2>1, <2>2, <2>3 DEF Begin, TypeOK, Begun
<1>5. ASSUME NEW a \in Attempts, JoinerStep(a) PROVE TypeInv'
  BY <1>5 DEF JoinerStep, Hello, ReadAnswer, SendName, JoinerFails, Move, TypeOK, Begun
<1>6. ASSUME NEW a \in Attempts, HubStep(a) PROVE TypeInv'
  BY <1>6 DEF HubStep, Spend, Refuse, Ack, ReadName, HubFails, TypeOK, Begun
<1>7. CASE UNCHANGED vars
  BY <1>7 DEF vars, TypeOK, Begun
<1> QED
  BY <1>1, <1>2, <1>3, <1>4, <1>5, <1>6, <1>7 DEF Next, Terminated

\* The clocks, the tokens, both ends of every stream and the used nonces stay in
\* their domains: no timestamp leaves u64.
THEOREM TypeCorrect == Spec => []TypeOK
<1>1. TypeInv => TypeOK
  BY DEF TypeInv
<1> QED
  BY <1>1, TypeInit, TypeStep, PTL DEF Spec

-----------------------------------------------------------------------------
(* One invite, one join *)

\* The hub spent the attempt's code on this very attempt and has not given up
\* before an accept byte was under way.
Spent(a) == hub[a] \in {"ack", "name", "admitted"} \/ answer[a] = "accept"

\* The inductive invariant: a code on which somebody passed is used, it was
\* spent on one attempt only, and a joiner goes on only when told to.
JoinInv ==
  /\ TypeInv
  /\ \A a \in Attempts : Spent(a) => code[a] \in used
  /\ \A a, b \in Attempts : Spent(a) /\ Spent(b) /\ code[a] = code[b] => a = b
  /\ \A a \in Attempts : joiner[a] \in {"name", "joined"} => answer[a] = "accept"

LEMMA JoinInit == Init => JoinInv
BY TypeInit DEF Init, JoinInv, Spent

\* The test and the insertion in used_nonces are one step, so the second of two
\* attempts finds the code used.
LEMMA JoinStep == JoinInv /\ [Next]_vars => JoinInv'
<1> SUFFICES ASSUME JoinInv, [Next]_vars PROVE JoinInv'
  OBVIOUS
<1>0. TypeInv'
  BY TypeStep DEF JoinInv
<1> USE <1>0 DEF JoinInv
<1>1. CASE Tick \/ \E c \in Codes : Issue(c) \/ Type(c)
  BY <1>1 DEF Tick, Issue, Type, Spent
<1>2. ASSUME NEW a \in Attempts, NEW c \in Codes, NEW k \in Skews, Begin(a, c, k)
      PROVE  JoinInv'
  <2>1. ~Spent(a)
    BY <1>2 DEF Begin, Spent, TypeInv, Begun
  <2>2. PICK v \in Verdicts \cup {"connect"} : joiner' = [joiner EXCEPT ![a] = v]
    BY <1>2, OutcomeType DEF Begin
  <2>3. /\ UNCHANGED <<hub, answer, used>>
        /\ \A b \in Attempts : b # a => code'[b] = code[b]
        /\ \A b \in Attempts : joiner'[b] \in {"name", "joined"} => joiner'[b] = joiner[b]
    BY <1>2, <2>2 DEF Begin, TypeInv, TypeOK
  <2> QED
    BY <2>1, <2>3 DEF Spent
<1>3. ASSUME NEW a \in Attempts, JoinerStep(a) PROVE JoinInv'
  <2>1. \A b \in Attempts : Spent(b)' <=> Spent(b)
    BY <1>3 DEF JoinerStep, Hello, ReadAnswer, SendName, JoinerFails, Move, Spent,
       TypeInv, TypeOK, Begun
  <2>2. UNCHANGED <<code, used, answer>>
    BY <1>3 DEF JoinerStep, Hello, ReadAnswer, SendName, JoinerFails
  <2>3. \A b \in Attempts : joiner'[b] \in {"name", "joined"} => answer[b] = "accept"
    BY <1>3 DEF JoinerStep, Hello, ReadAnswer, SendName, JoinerFails, Move,
       TypeInv, TypeOK
  <2> QED
    BY <2>1, <2>2, <2>3
<1>4. ASSUME NEW a \in Attempts, HubStep(a) PROVE JoinInv'
  <2>1. CASE Spend(a)
    <3>1. /\ UNCHANGED <<code, joiner, answer>> /\ used' = used \cup {code[a]}
          /\ code[a] \notin used
          /\ \A b \in Attempts : Spent(b)' => Spent(b) \/ b = a
      BY <2>1 DEF Spend, Spent, TypeInv, TypeOK
    <3> QED
      BY <3>1
  <2>2. CASE Refuse(a) \/ Ack(a) \/ ReadName(a) \/ HubFails(a)
    <3>1. UNCHANGED <<code, joiner, used>>
      BY <2>2 DEF Refuse, Ack, ReadName, HubFails
    <3>2. \A b \in Attempts : Spent(b)' => Spent(b)
      BY <2>2 DEF Refuse, Ack, ReadName, HubFails, Spent, TypeInv, TypeOK
    <3>3. \A b \in Attempts : answer[b] = "accept" => answer'[b] = "accept"
      BY <2>2 DEF Refuse, Ack, ReadName, HubFails, TypeInv, TypeOK, Begun
    <3> QED
      BY <3>1, <3>2, <3>3
  <2> QED
    BY <1>4, <2>1, <2>2 DEF HubStep
<1>5. CASE UNCHANGED vars
  BY <1>5 DEF vars, Spent
<1> QED
  BY <1>1, <1>2, <1>3, <1>4, <1>5 DEF Next, Terminated

\* Of all attempts with one code at most one succeeds, on whichever side of its
\* stream success is looked for and wherever streams break.
THEOREM OneJoin == Spec => []OneJoinPerInvite
<1>1. JoinInv => OneJoinPerInvite
  BY DEF JoinInv, OneJoinPerInvite, Spent
<1> QED
  BY <1>1, JoinInit, JoinStep, PTL DEF Spec

\* Who believes that he joined was accepted, and his code is spent.
THEOREM JoinedAccepted == Spec => []JoinedWasAccepted
<1>1. JoinInv => JoinedWasAccepted
  BY DEF JoinInv, JoinedWasAccepted, Spent
<1> QED
  BY <1>1, JoinInit, JoinStep, PTL DEF Spec

-----------------------------------------------------------------------------
(* The judgement of a token *)

\* A sum below the end of the range is not wrapped.
LEMMA NoWrap ==
  ASSUME NEW x \in Nat, NEW y \in Nat, x + y < Modulus
  PROVE  Plus(x, y) = x + y
BY InviteAssumption DEF Plus, InviteAssumption

\* decode judges a token by its distance from the clock alone, for every u64 in
\* the token: the test of the future comes first and keeps the sum of the test
\* of the age within the range.
THEOREM DecodeIsJudgement ==
  ASSUME NEW ts \in U64, NEW now \in U64, now + SkewTol + Ttl < Modulus
  PROVE  Decode(ts, now) = Judged(ts, now)
<1>1. /\ ts \in Nat /\ now \in Nat /\ SkewTol \in Nat /\ Ttl \in Nat /\ Ttl > 0
      /\ Modulus \in Nat
  BY InviteAssumption DEF U64, InviteAssumption
<1>2. Plus(now, SkewTol) = now + SkewTol
  BY <1>1, NoWrap
<1>3. CASE ts > now + SkewTol
  BY <1>1, <1>2, <1>3 DEF Decode, Judged
<1>4. CASE ts <= now + SkewTol
  <2>1. Plus(ts, Ttl) = ts + Ttl
    BY <1>1, <1>4, NoWrap
  <2> QED
    BY <1>1, <1>2, <1>4, <2>1 DEF Decode, Judged
<1> QED
  BY <1>1, <1>3, <1>4

\* The verdict an attempt got, or that it got past decode, stays with it.
JudgedInv == TypeInv /\ DecodeAgrees

LEMMA JudgedInit == Init => JudgedInv
BY TypeInit DEF Init, JudgedInv, DecodeAgrees

\* Only Begin judges, and neither the token nor the clock it judged by changes.
LEMMA JudgedStep == JudgedInv /\ [Next]_vars => JudgedInv'
<1> SUFFICES ASSUME JudgedInv, [Next]_vars PROVE DecodeAgrees'
  BY TypeStep DEF JudgedInv
<1> USE DEF JudgedInv
<1>1. ASSUME NEW a \in Attempts, NEW c \in Codes, NEW k \in Skews, Begin(a, c, k)
      PROVE  DecodeAgrees'
  <2>1. /\ clock + k \in U64 /\ clock + k + SkewTol + Ttl < Modulus
        /\ stamp[c] \in U64
    BY <1>1, ClockFits DEF Begin, TypeInv, TypeOK
  <2>2. PICK v \in Outcomes(c, clock + k) : joiner' = [joiner EXCEPT ![a] = v]
    BY <1>1 DEF Begin
  <2>3. v = Malformed \/ v = Judged(stamp[c], clock + k)
    BY <2>1, DecodeIsJudgement DEF Outcomes
  <2>4. Judged(stamp[c], clock + k) \in {"future", "expired", "connect"}
    BY DEF Judged
  <2>5. /\ UNCHANGED stamp
        /\ code' = [code EXCEPT ![a] = c] /\ seen' = [seen EXCEPT ![a] = clock + k]
    BY <1>1 DEF Begin
  <2> SUFFICES ASSUME NEW b \in Attempts, joiner'[b] \notin {"idle", Malformed}
               PROVE  IF Judged(stamp[code'[b]], seen'[b]) = "connect"
                      THEN joiner'[b] \notin Verdicts
                      ELSE joiner'[b] = Judged(stamp[code'[b]], seen'[b])
    BY <2>5 DEF DecodeAgrees, Judged
  <2>6. CASE b = a
    BY <2>2, <2>3, <2>4, <2>5, <2>6 DEF TypeInv, TypeOK
  <2>7. CASE b # a
    BY <2>2, <2>5, <2>7 DEF TypeInv, TypeOK, DecodeAgrees
  <2> QED
    BY <2>6, <2>7
<1>2. CASE \E c \in Codes : Issue(c) \/ Type(c)
  <2>1. UNCHANGED <<joiner, code, seen>>
    BY <1>2 DEF Issue, Type
  <2>2. \A b \in Attempts : joiner[b] # "idle" => stamp'[code[b]] = stamp[code[b]]
    BY <1>2 DEF Issue, Type, Encode, TypeInv, TypeOK, Begun
  <2> QED
    BY <2>1, <2>2 DEF DecodeAgrees, Judged
<1>3. ASSUME NEW a \in Attempts, JoinerStep(a) PROVE DecodeAgrees'
  <2>1. UNCHANGED <<stamp, code, seen>>
    BY <1>3 DEF JoinerStep, Hello, ReadAnswer, SendName, JoinerFails
  <2>2. \A b \in Attempts :
          joiner'[b] = joiner[b]
            \/ (joiner[b] \notin Verdicts \cup {"idle"} /\ joiner'[b] \notin Verdicts \cup {"idle"})
    BY <1>3 DEF JoinerStep, Hello, ReadAnswer, SendName, JoinerFails, Move, TypeInv, TypeOK
  <2>3. \A b \in Attempts :
          Judged(stamp[code[b]], seen[b]) \in {"future", "expired", "connect"}
    BY DEF Judged
  <2> QED
    BY <2>1, <2>2, <2>3 DEF DecodeAgrees, Judged
<1>4. ASSUME NEW a \in Attempts, HubStep(a) PROVE DecodeAgrees'
  BY <1>4 DEF HubStep, Spend, Refuse, Ack, ReadName, HubFails, DecodeAgrees, Judged
<1>5. CASE Tick \/ UNCHANGED vars
  BY <1>5 DEF Tick, vars, DecodeAgrees, Judged
<1> QED
  BY <1>1, <1>2, <1>3, <1>4, <1>5 DEF Next, Terminated

\* No attempt is ever refused, or let through, because a sum of timestamps
\* wrapped: the verdict is the one over the integers.
THEOREM DecodeNeverWraps == Spec => []DecodeAgrees
<1>1. JudgedInv => DecodeAgrees
  BY DEF JudgedInv
<1> QED
  BY <1>1, JudgedInit, JudgedStep, PTL DEF Spec
=============================================================================
