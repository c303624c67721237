------------------------------- MODULE Invite -------------------------------
(***************************************************************************)
(* The life of an invite code, across two machines: RoomHandle::invite and *)
(* invite::encode stamp it with the host's clock, invite::decode judges it *)
(* with the joiner's clock, and the handshake (Joiner::handshake on one    *)
(* side of the stream, hub_handshake on the other) spends its nonce.  The  *)
(* stream may break at any point, and either side may time out while the   *)
(* answer of the other is under way.                                       *)
(*                                                                         *)
(* A code stands for its token and its nonce, which is drawn at random for *)
(* each call of invite().  A token that nobody issued but a user typed has *)
(* an arbitrary timestamp.  A token that does not parse is one judgement,  *)
(* "malformed".  Timestamps are u64; sums wrap, as in a release build.     *)
(***************************************************************************)
EXTENDS Integers

CONSTANTS
  Codes,      \* tokens
  Attempts,   \* calls of Joiner::connect
  Skews,      \* by how much a joiner's clock is ahead of the host's
  MaxTime,    \* bound: the host's clock
  Modulus,    \* 2^64
  SkewTol,    \* the 300 s into the future that decode tolerates
  Ttl         \* the 300 s Joiner::connect passes to decode

\* The clocks are far from the end of u64.
ASSUME InviteAssumption ==
  /\ MaxTime \in Nat /\ Modulus \in Nat /\ SkewTol \in Nat /\ Ttl \in Nat \ {0}
  /\ Skews \subseteq Int /\ MaxTime + SkewTol + Ttl < Modulus
  /\ \A k \in Skews : MaxTime + k + SkewTol + Ttl < Modulus

VARIABLES
  clock,    \* the host's clock
  stamp,    \* the timestamp of each token, None when there is no token yet
  issued,   \* tokens made by invite(), the others were typed
  code,     \* the token each attempt is given
  seen,     \* the joiner's clock when it decoded the token
  joiner,   \* Joiner::connect: its next step, or its result
  hub,      \* hub_handshake on the stream of the attempt
  named,    \* attempts whose name frame reaches the hub
  answer,   \* the byte on its way to the joiner: "none", "accept", "reject"
  used      \* used_nonces

vars == <<clock, stamp, issued, code, seen, joiner, hub, named, answer, used>>
hubVars == <<hub, named, answer, used>>

None == "none"
U64 == 0 .. Modulus - 1
Malformed == "malformed"
Verdicts == {"malformed", "future", "expired"}
Over == Verdicts \cup {"failed", "rejected", "joined"}

Init ==
  /\ clock = 0 /\ stamp = [c \in Codes |-> -1] /\ issued = {}
  /\ code = [a \in Attempts |-> None] /\ seen = [a \in Attempts |-> 0]
  /\ joiner = [a \in Attempts |-> "idle"]
  /\ hub = [a \in Attempts |-> "none"] /\ answer = [a \in Attempts |-> "none"]
  /\ named = {} /\ used = {}

-----------------------------------------------------------------------------
(* Issuing and judging a code *)

Plus(x, y) == (x + y) % Modulus

Tick ==
  /\ clock < MaxTime
  /\ clock' = clock + 1
  /\ UNCHANGED <<stamp, issued, code, seen, joiner, hubVars>>

\* invite::encode: the token carries the timestamp it was made with.
Encode(c, t) == stamp' = [stamp EXCEPT ![c] = t]

\* RoomHandle::invite; the TTL of the host (--invite-ttl) plays no part, here or
\* in decode.
Issue(c) ==
  /\ stamp[c] = -1
  /\ Encode(c, clock) /\ issued' = issued \cup {c}
  /\ UNCHANGED <<clock, code, seen, joiner, hubVars>>

\* Somebody makes up a token with some timestamp.
Type(c) ==
  /\ stamp[c] = -1
  /\ \E t \in U64 : Encode(c, t)
  /\ UNCHANGED <<clock, issued, code, seen, joiner, hubVars>>

\* Mutant: the age is looked at before the future is.
DecodeExpiryFirst(ts, now) ==
  IF now > Plus(ts, Ttl) THEN "expired"
  ELSE IF ts > Plus(now, SkewTol) THEN "future" ELSE "connect"

\* invite::decode after parsing: the future, then the age.
Decode(ts, now) ==
  IF ts > Plus(now, SkewTol) THEN "future"
  ELSE IF Ttl > 0 /\ now > Plus(ts, Ttl) THEN "expired" ELSE "connect"

\* What decode may say of a token: one that invite() made parses.
Outcomes(c, now) ==
  {Decode(stamp[c], now)} \cup (IF c \in issued THEN {} ELSE {Malformed})

\* Mutant: the tolerance is taken off the clock, which may underflow.
BeginEarlier(a, c, k) ==
  /\ joiner[a] = "idle" /\ stamp[c] # -1 /\ clock + k >= 0
  /\ code' = [code EXCEPT ![a] = c] /\ seen' = [seen EXCEPT ![a] = clock + k - SkewTol]
  /\ joiner' = [joiner EXCEPT ![a] = Decode(stamp[c], clock + k - SkewTol)]
  /\ UNCHANGED <<clock, stamp, issued, hubVars>>

\* Joiner::connect begins with decode.
Begin(a, c, k) ==
  /\ joiner[a] = "idle" /\ stamp[c] # -1 /\ clock + k >= 0
  /\ code' = [code EXCEPT ![a] = c] /\ seen' = [seen EXCEPT ![a] = clock + k]
  /\ \E v \in Outcomes(c, clock + k) : joiner' = [joiner EXCEPT ![a] = v]
  /\ UNCHANGED <<clock, stamp, issued, hubVars>>

-----------------------------------------------------------------------------
(* The joiner's side of the stream *)

Move(a, s) == joiner' = [joiner EXCEPT ![a] = s]

\* The stream opens and nonce and discriminator are written.
Hello(a) ==
  /\ joiner[a] = "connect"
  /\ Move(a, "answer") /\ hub' = [hub EXCEPT ![a] = "nonce"]
  /\ UNCHANGED <<clock, stamp, issued, code, seen, named, answer, used>>

\* Mutant: the byte is read and not looked at.
ReadAnswerBlind(a) ==
  /\ joiner[a] = "answer" /\ answer[a] # "none"
  /\ Move(a, "name")
  /\ UNCHANGED <<clock, stamp, issued, code, seen, hubVars>>

\* The byte of the hub arrives.
ReadAnswer(a) ==
  /\ joiner[a] = "answer" /\ answer[a] # "none"
  /\ Move(a, IF answer[a] = "accept" THEN "name" ELSE "rejected")
  /\ UNCHANGED <<clock, stamp, issued, code, seen, hubVars>>

\* The name goes out; connect returns, whatever the hub makes of it.
SendName(a) ==
  /\ joiner[a] = "name"
  /\ Move(a, "joined") /\ named' = named \cup {a}
  /\ UNCHANGED <<clock, stamp, issued, code, seen, hub, answer, used>>

\* A connect, a write, a flush or a read fails or times out.  What was written
\* before a flush that failed may still arrive.
JoinerFails(a) ==
  /\ joiner[a] \in {"connect", "answer", "name"}
  /\ Move(a, "failed")
  /\ \/ UNCHANGED <<hub, named>>
     \/ joiner[a] = "connect" /\ hub' = [hub EXCEPT ![a] = "nonce"] /\ UNCHANGED named
     \/ joiner[a] = "name" /\ named' = named \cup {a} /\ UNCHANGED hub
  /\ UNCHANGED <<clock, stamp, issued, code, seen, answer, used>>

-----------------------------------------------------------------------------
(* The host's side of the stream *)

\* Mutant: the nonce is inserted without the test.
SpendUnchecked(a) ==
  /\ hub[a] = "nonce"
  /\ used' = used \cup {code[a]} /\ hub' = [hub EXCEPT ![a] = "ack"]
  /\ UNCHANGED <<clock, stamp, issued, code, seen, joiner, named, answer>>

\* A fresh nonce is spent before anything is answered.
Spend(a) ==
  /\ hub[a] = "nonce" /\ code[a] \notin used
  /\ used' = used \cup {code[a]} /\ hub' = [hub EXCEPT ![a] = "ack"]
  /\ UNCHANGED <<clock, stamp, issued, code, seen, joiner, named, answer>>

\* A spent nonce is answered with the reject byte, if the write succeeds.
Refuse(a) ==
  /\ hub[a] = "nonce" /\ code[a] \in used
  /\ \E b \in {"reject", "none"} : answer' = [answer EXCEPT ![a] = b]
  /\ hub' = [hub EXCEPT ![a] = "refused"]
  /\ UNCHANGED <<clock, stamp, issued, code, seen, joiner, named, used>>

Ack(a) ==
  /\ hub[a] = "ack"
  /\ answer' = [answer EXCEPT ![a] = "accept"] /\ hub' = [hub EXCEPT ![a] = "name"]
  /\ UNCHANGED <<clock, stamp, issued, code, seen, joiner, named, used>>

\* The first message brings the name: hub_handshake returns the peer.
ReadName(a) ==
  /\ hub[a] = "name" /\ a \in named
  /\ hub' = [hub EXCEPT ![a] = "admitted"]
  /\ UNCHANGED <<clock, stamp, issued, code, seen, joiner, named, answer, used>>

\* The hello never arrives, the write of the byte fails, or the name does not
\* come in time.  A byte whose flush failed may still arrive.
HubFails(a) ==
  /\ hub[a] \in {"nonce", "ack", "name"}
  /\ hub' = [hub EXCEPT ![a] = "refused"]
  /\ \/ UNCHANGED answer
     \/ hub[a] = "ack" /\ answer' = [answer EXCEPT ![a] = "accept"]
  /\ UNCHANGED <<clock, stamp, issued, code, seen, joiner, named, used>>

-----------------------------------------------------------------------------
JoinerStep(a) == Hello(a) \/ ReadAnswer(a) \/ SendName(a) \/ JoinerFails(a)
HubStep(a)    == Spend(a) \/ Refuse(a) \/ Ack(a) \/ ReadName(a) \/ HubFails(a)

\* Every attempt is over on both sides of its stream.
Terminated ==
  /\ \A a \in Attempts : joiner[a] \in Over /\ hub[a] \in {"none", "refused", "admitted"}
  /\ UNCHANGED vars

Next ==
  \/ Tick
  \/ \E c \in Codes : Issue(c) \/ Type(c)
  \/ \E a \in Attempts :
       \/ \E c \in Codes, k \in Skews : Begin(a, c, k)
       \/ JoinerStep(a) \/ HubStep(a)
  \/ Terminated

Spec == Init /\ [][Next]_vars

-----------------------------------------------------------------------------
(* Properties *)

\* Every variable stays in its domain; timestamps fit u64.
TypeOK ==
  /\ clock \in 0 .. MaxTime
  /\ stamp \in [Codes -> U64 \cup {-1}] /\ issued \subseteq Codes
  /\ code \in [Attempts -> Codes \cup {None}] /\ seen \in [Attempts -> U64]
  /\ joiner \in [Attempts -> Over \cup {"idle", "connect", "answer", "name"}]
  /\ hub \in [Attempts -> {"none", "nonce", "ack", "name", "refused", "admitted"}]
  /\ answer \in [Attempts -> {"none", "accept", "reject"}]
  /\ named \subseteq Attempts /\ used \subseteq Codes

\* Of all the attempts made with one code, on any machines and however their
\* handshakes overlap or break, at most one succeeds: it is told that it
\* joined, or the hub admits its peer, or both.
OneJoinPerInvite ==
  LET Succeeds(a) == joiner[a] = "joined" \/ hub[a] = "admitted"
  IN  \A a, b \in Attempts : Succeeds(a) /\ Succeeds(b) /\ code[a] = code[b] => a = b

\* Nobody believes that he joined unless the hub accepted and spent his code,
\* also when the byte arrived although the hub's write of it failed.
JoinedWasAccepted ==
  \A a \in Attempts : joiner[a] = "joined" => code[a] \in used /\ answer[a] = "accept"

\* What decode means, over the integers: no sum wraps, the token is judged by
\* its distance from the joiner's clock alone, for every u64 in a token.
Judged(ts, now) ==
  CASE ts - now > SkewTol -> "future"
    [] now - ts > Ttl     -> "expired"
    [] OTHER              -> "connect"

DecodeAgrees ==
  \A a \in Attempts :
    joiner[a] \notin {"idle", Malformed} =>
      LET v == Judged(stamp[code[a]], seen[a])
      IN  IF v = "connect" THEN joiner[a] \notin Verdicts ELSE joiner[a] = v
=============================================================================
