--------------------------- MODULE McpSessionProofs ---------------------------
(* What holds of a tab of the MCP client for every number of attempts and  *)
(* calls, and for every length of its channels: no call, no question and   *)
(* no connection is left behind.                                           *)
EXTENDS McpSession, SequenceTheorems, FiniteSetTheorems, TLAPS

In(q, m) == \E k \in DOMAIN q : q[k] = m

Asks == [op : {"connect", "cancelConnect", "disconnect"}, of : Attempts]
            \cup [op : {"call", "cancelCall", "answerElicitation", "cancelElicitation"}, of : Calls]
Tells == [op : {"connected"}, of : Attempts, with : {"ok", "failed"}]
            \cup [op : {"closed"}, of : Attempts, with : {"reason", "none"}]
            \cup [op : {"answer"}, of : Calls, with : {"ok", "error", "input", "cancelled"}]
            \cup [op : {"elicitation", "elicited"}, of : Calls]

(* The window, the channels and the engine keep their types.               *)
TypeOK ==
    /\ state \in {"disconnected", "connecting", "connected", "error"}
    /\ alive \in BOOLEAN /\ input \in BOOLEAN
    /\ pending \in {0} \cup Attempts /\ conn \in {0} \cup Attempts
    /\ slot \in [CallKinds -> {0} \cup Calls]
    /\ cards \subseteq [call : Calls, sending : BOOLEAN]
    /\ calls \in [Calls -> [kind : CallKinds, on : {0} \cup Attempts,
                            at : {"none", "scripts", "asked", "checks", "over"},
                            reply : {"none", "ok", "error", "input", "cancelled"},
                            retry : BOOLEAN]]
    /\ toMain \in Seq(Asks) /\ toWindow \in Seq(Tells)
    /\ transport \in Transports
    /\ phase \in [Attempts -> {"none", "handshake", "listening", "open", "closing", "gone"}]
    /\ modern \subseteq Attempts /\ pendingConnects \subseteq Attempts
    /\ dropped \subseteq Attempts /\ trusting \subseteq Attempts
    /\ requests \subseteq Calls /\ inflight \subseteq Calls /\ elicits \subseteq Calls

(* A tab is connecting while it has an attempt, and connected while it has *)
(* a connection; a call that has its place was made on that connection.    *)
TabInv ==
    /\ state = "connecting" <=> pending # 0
    /\ state = "connected" <=> conn # 0
    /\ \A k \in CallKinds : slot[k] # 0 =>
          /\ conn # 0 /\ calls[slot[k]].on = conn
          /\ calls[slot[k]].kind = k /\ calls[slot[k]].at # "none"

(* What the engine works on is a call that was made, on an attempt.        *)
Made(c) == calls[c].at # "none"
MadeInv ==
    /\ \A c \in Calls : Made(c) => calls[c].on # 0
    /\ \A c \in requests \cup inflight \cup elicits : Made(c)
    /\ \A c \in Calls : In(toMain, Message("call", c)) => Made(c)
    /\ \A c \in Calls, w \in {"ok", "error", "input", "cancelled"} :
          In(toWindow, Answer("answer", c, w)) => Made(c)

(* A call that waits is a message, a request of the engine or an answer.   *)
Waits(c) ==
    \/ In(toMain, Message("call", c)) \/ c \in requests
    \/ \E w \in {"ok", "error", "input", "cancelled"} : In(toWindow, Answer("answer", c, w))
CallInv ==
    \A k \in CallKinds : slot[k] # 0 =>
        calls[slot[k]].at \in {"scripts", "checks"} \/ Waits(slot[k])

Once(q) == \A j, k \in DOMAIN q : q[j] = q[k] /\ q[j].op = "connect" => j = k

(* An attempt begins once; its phase then only goes forward.               *)
PhaseInv ==
    /\ Once(toMain)
    /\ \A a \in Attempts : In(toMain, Message("connect", a)) => phase[a] = "none"
    /\ \A a \in pendingConnects : phase[a] \in {"handshake", "listening"}
    /\ \A c \in inflight \cup elicits : phase[calls[c].on] = "open"
    /\ \A a \in Attempts, w \in {"reason", "none"} :
          In(toWindow, Answer("closed", a, w)) => phase[a] = "gone"

(* Every open question has its card, or a message that will settle it.     *)
Pursued(c) ==
    \/ In(toWindow, Message("elicitation", c))
    \/ c \in CardIds(cards) /\ conn = calls[c].on
    \/ In(toMain, Message("answerElicitation", c))
    \/ In(toMain, Message("cancelElicitation", c))
    \/ In(toMain, Message("disconnect", calls[c].on))
QuestionInv ==
    \A c \in elicits : Pursued(c) /\ ~In(toWindow, Message("elicited", c))

(* Every open connection is the tab's, or a message is about to settle it. *)
Kept(a) ==
    \/ conn = a \/ a \in trusting
    \/ In(toWindow, Answer("connected", a, "ok")) \/ In(toMain, Message("disconnect", a))
OpenInv == \A a \in Attempts : phase[a] = "open" => Kept(a)

(* Of an HTTP server the tab hears "connected" first, then "closed".       *)
ClosedIn(q, a) == \E why \in {"reason", "none"} : In(q, Answer("closed", a, why))
Ordered(q, a) ==
    \A k \in DOMAIN q : q[k] = Answer("connected", a, "ok") =>
        \E j \in DOMAIN q, why \in {"reason", "none"} : j > k /\ q[j] = Answer("closed", a, why)
HttpInv ==
    transport = "http" =>
        /\ trusting = {}
        /\ \A a \in Attempts : conn = a \/ In(toWindow, Answer("connected", a, "ok")) =>
              /\ a \notin dropped \cup pendingConnects
              /\ phase[a] \in {"open", "closing", "gone"}
        /\ \A a \in Attempts : phase[a] = "gone" =>
              Ordered(toWindow, a) /\ (conn = a => ClosedIn(toWindow, a))

(* The inductive invariant.                                                *)
SessionInv ==
    /\ TypeOK /\ TabInv /\ MadeInv /\ CallInv /\ PhaseInv /\ QuestionInv /\ OpenInv /\ HttpInv

-----------------------------------------------------------------------------
(* Messages and channels.                                                  *)

LEMMA MessageFields ==
    /\ \A op, of : Message(op, of).op = op /\ Message(op, of).of = of
    /\ \A op, of, with : /\ Answer(op, of, with).op = op /\ Answer(op, of, with).of = of
                         /\ Answer(op, of, with).with = with
BY DEF Message, Answer

(* What a message to main is.                                              *)
LEMMA AskIs ==
    ASSUME NEW m \in Asks
    PROVE  /\ m = Message(m.op, m.of)
           /\ m.op \in {"connect", "cancelConnect", "disconnect"} => m.of \in Attempts
           /\ m.op \in {"call", "cancelCall", "answerElicitation", "cancelElicitation"}
                => m.of \in Calls
BY DEF Asks, Message

LEMMA AsksAre ==
    /\ \A op \in {"connect", "cancelConnect", "disconnect"}, a \in Attempts : Message(op, a) \in Asks
    /\ \A op \in {"call", "cancelCall", "answerElicitation", "cancelElicitation"}, c \in Calls :
          Message(op, c) \in Asks
BY DEF Asks, Message

(* What a message to the window is.                                        *)
LEMMA TellIs ==
    ASSUME NEW m \in Tells
    PROVE  /\ m.op = "connected" =>
                m.of \in Attempts /\ m.with \in {"ok", "failed"} /\ m = Answer("connected", m.of, m.with)
           /\ m.op = "closed" =>
                m.of \in Attempts /\ m.with \in {"reason", "none"} /\ m = Answer("closed", m.of, m.with)
           /\ m.op = "answer" =>
                /\ m.of \in Calls /\ m.with \in {"ok", "error", "input", "cancelled"}
                /\ m = Answer("answer", m.of, m.with)
           /\ m.op \in {"elicitation", "elicited"} => m.of \in Calls /\ m = Message(m.op, m.of)
BY DEF Tells, Message, Answer

LEMMA TellsAre ==
    /\ \A a \in Attempts, with \in {"ok", "failed"} : Answer("connected", a, with) \in Tells
    /\ \A a \in Attempts, with \in {"reason", "none"} : Answer("closed", a, with) \in Tells
    /\ \A c \in Calls, with \in {"ok", "error", "input", "cancelled"} : Answer("answer", c, with) \in Tells
    /\ \A op \in {"elicitation", "elicited"}, c \in Calls : Message(op, c) \in Tells
BY DEF Tells, Message, Answer

(* What a list has in it.                                                  *)
LEMMA InNone == \A m : ~In(<<>>, m)
BY DEF In

LEMMA InOne ==
    ASSUME NEW S, NEW x \in S
    PROVE  <<x>> \in Seq(S) /\ \A m : In(<<x>>, m) <=> m = x
<1>1. <<x>> \in Seq(S) /\ DOMAIN <<x>> = {1} /\ <<x>>[1] = x
  OBVIOUS
<1>. QED
  BY <1>1 DEF In

LEMMA InJoined ==
    ASSUME NEW S, NEW q \in Seq(S), NEW s \in Seq(S)
    PROVE  /\ q \o s \in Seq(S)
           /\ \A m : In(q \o s, m) <=> In(q, m) \/ In(s, m)
<1>. DEFINE r == q \o s
<1>1. /\ r \in Seq(S) /\ Len(r) = Len(q) + Len(s) /\ Len(q) \in Nat /\ Len(s) \in Nat
      /\ \A k \in 1..(Len(q) + Len(s)) : r[k] = IF k <= Len(q) THEN q[k] ELSE s[k - Len(q)]
  BY ConcatProperties, LenProperties
<1>2. DOMAIN r = 1..Len(r) /\ DOMAIN q = 1..Len(q) /\ DOMAIN s = 1..Len(s)
  BY <1>1, LenProperties
<1>. HIDE DEF r
<1>. SUFFICES \A m : In(r, m) <=> In(q, m) \/ In(s, m)
  BY <1>1 DEF r
<1>3. ASSUME NEW m, In(r, m) PROVE In(q, m) \/ In(s, m)
  <2>1. PICK k \in 1..Len(r) : r[k] = m
    BY <1>2, <1>3 DEF In
  <2>2. CASE k <= Len(q)
    BY <1>1, <1>2, <2>1, <2>2 DEF In
  <2>3. CASE ~(k <= Len(q))
    <3>1. k - Len(q) \in 1..Len(s) /\ s[k - Len(q)] = m
      BY <1>1, <2>1, <2>3
    <3>. QED
      BY <1>2, <3>1 DEF In
  <2>. QED
    BY <2>2, <2>3
<1>4. ASSUME NEW m, In(q, m) PROVE In(r, m)
  BY <1>1, <1>2, <1>4 DEF In
<1>5. ASSUME NEW m, In(s, m) PROVE In(r, m)
  <2>1. PICK k \in 1..Len(s) : s[k] = m
    BY <1>2, <1>5 DEF In
  <2>2. /\ Len(q) + k \in 1..(Len(q) + Len(s)) /\ ~(Len(q) + k <= Len(q))
        /\ (Len(q) + k) - Len(q) = k
    BY <1>1, <2>1
  <2>3. r[Len(q) + k] = s[k] /\ Len(q) + k \in 1..Len(r)
    BY <1>1, <2>2
  <2>. QED
    BY <1>2, <2>1, <2>3 DEF In
<1>. QED
  BY <1>3, <1>4, <1>5

LEMMA InRest ==
    ASSUME NEW S, NEW q \in Seq(S), q # <<>>
    PROVE  /\ Head(q) \in S /\ Tail(q) \in Seq(S) /\ In(q, Head(q))
           /\ \A m : In(q, m) <=> m = Head(q) \/ In(Tail(q), m)
<1>. DEFINE r == Tail(q)
<1>1. /\ Head(q) \in S /\ r \in Seq(S) /\ Len(r) = Len(q) - 1 /\ Len(q) \in Nat \ {0}
      /\ \A k \in 1..Len(r) : r[k] = q[k + 1]
      /\ Head(q) = q[1] /\ DOMAIN q = 1..Len(q) /\ DOMAIN r = 1..Len(r)
  BY HeadTailProperties, LenProperties
<1>. HIDE DEF r
<1>. SUFFICES /\ In(q, Head(q))
              /\ \A m : In(q, m) <=> m = Head(q) \/ In(r, m)
  BY <1>1 DEF r
<1>2. In(q, Head(q))
  BY <1>1 DEF In
<1>3. ASSUME NEW m, In(q, m), m # Head(q) PROVE In(r, m)
  <2>1. PICK k \in 1..Len(q) : q[k] = m
    BY <1>1, <1>3 DEF In
  <2>2. k - 1 \in 1..Len(r) /\ r[k - 1] = m
    BY <1>1, <1>3, <2>1
  <2>. QED
    BY <1>1, <2>2 DEF In
<1>4. ASSUME NEW m, In(r, m) PROVE In(q, m)
  <2>1. PICK k \in 1..Len(r) : r[k] = m
    BY <1>1, <1>4 DEF In
  <2>2. k + 1 \in 1..Len(q) /\ q[k + 1] = m
    BY <1>1, <2>1
  <2>. QED
    BY <1>1, <2>2 DEF In
<1>. QED
  BY <1>2, <1>3, <1>4

(* A listing of a finite set has all of it in it.                          *)
LEMMA InListing ==
    ASSUME NEW S, NEW T, T \subseteq S, IsFiniteSet(T), NEW q \in SetToSeqs(T)
    PROVE  q \in Seq(S) /\ \A m : In(q, m) <=> m \in T
<1>. DEFINE n == Cardinality(T)
<1>1. n \in Nat /\ IsFiniteSet(1..n) /\ Cardinality(1..n) = n
  BY FS_CardinalityType, FS_Interval
<1>2. q \in [1..n -> T] /\ \A i, j \in 1..n : i # j => q[i] # q[j]
  BY DEF SetToSeqs
<1>. HIDE DEF n
<1>3. q \in Injection(1..n, T)
  BY <1>2 DEF Injection, IsInjective
<1>4. q \in Surjection(1..n, T)
  BY <1>1, <1>3, FS_Injection DEF n
<1>5. \A m \in T : \E k \in 1..n : q[k] = m
  BY <1>4 DEF Surjection
<1>6. q \in Seq(S)
  BY <1>1, <1>2
<1>7. DOMAIN q = 1..n
  BY <1>2
<1>. QED
  BY <1>2, <1>5, <1>6, <1>7 DEF In

(* What a channel keeps when messages are added to it, or taken.           *)
LEMMA OnceJoined ==
    ASSUME NEW S, NEW q \in Seq(S), NEW s \in Seq(S), Once(q), Once(s),
           \A m : m.op = "connect" => ~(In(q, m) /\ In(s, m))
    PROVE  Once(q \o s)
<1>. DEFINE r == q \o s
<1>1. /\ r \in Seq(S) /\ Len(r) = Len(q) + Len(s) /\ Len(q) \in Nat /\ Len(s) \in Nat
      /\ \A k \in 1..(Len(q) + Len(s)) : r[k] = IF k <= Len(q) THEN q[k] ELSE s[k - Len(q)]
  BY ConcatProperties, LenProperties
<1>2. DOMAIN r = 1..Len(r) /\ DOMAIN q = 1..Len(q) /\ DOMAIN s = 1..Len(s)
  BY <1>1, LenProperties
<1>. HIDE DEF r
<1>. SUFFICES ASSUME NEW j \in DOMAIN r, NEW k \in DOMAIN r, r[j] = r[k], r[j].op = "connect"
              PROVE  j = k
  BY DEF Once, r
<1>3. \A i \in DOMAIN r : \/ i \in DOMAIN q /\ r[i] = q[i]
                          \/ i - Len(q) \in DOMAIN s /\ r[i] = s[i - Len(q)]
  BY <1>1, <1>2
<1>4. CASE j \in DOMAIN q /\ k \in DOMAIN q /\ r[j] = q[j] /\ r[k] = q[k]
  BY <1>4 DEF Once
<1>5. CASE /\ j - Len(q) \in DOMAIN s /\ r[j] = s[j - Len(q)]
           /\ k - Len(q) \in DOMAIN s /\ r[k] = s[k - Len(q)]
  <2>1. j - Len(q) = k - Len(q)
    BY <1>5 DEF Once
  <2>2. j \in Int /\ k \in Int
    BY <1>1, <1>2
  <2>. QED
    BY <1>1, <2>1, <2>2
<1>6. ~(In(q, r[j]) /\ In(s, r[j]))
  OBVIOUS
<1>. QED
  BY <1>3, <1>4, <1>5, <1>6 DEF In

LEMMA OnceOne == \A x : Once(<<x>>) /\ Once(<<>>)
BY DEF Once

LEMMA OnceRest ==
    ASSUME NEW S, NEW q \in Seq(S), q # <<>>, Once(q)
    PROVE  Once(Tail(q)) /\ (Head(q).op = "connect" => ~In(Tail(q), Head(q)))
<1>. DEFINE r == Tail(q)
<1>1. /\ r \in Seq(S) /\ Len(r) = Len(q) - 1 /\ Len(q) \in Nat \ {0}
      /\ \A k \in 1..Len(r) : r[k] = q[k + 1]
      /\ Head(q) = q[1] /\ DOMAIN q = 1..Len(q) /\ DOMAIN r = 1..Len(r)
  BY HeadTailProperties, LenProperties
<1>. HIDE DEF r
<1>2. \A k \in DOMAIN r : k \in Nat \ {0} /\ k + 1 \in DOMAIN q /\ 1 \in DOMAIN q /\ r[k] = q[k + 1]
  BY <1>1
<1>3. Once(r)
  <2>. SUFFICES ASSUME NEW j \in DOMAIN r, NEW k \in DOMAIN r, r[j] = r[k], r[j].op = "connect"
                PROVE  j = k
    BY DEF Once
  <2>1. j + 1 = k + 1
    BY <1>2 DEF Once
  <2>. QED
    BY <1>2, <2>1
<1>4. ASSUME Head(q).op = "connect", In(r, Head(q)) PROVE FALSE
  <2>1. PICK k \in DOMAIN r : r[k] = Head(q)
    BY <1>4 DEF In
  <2>2. k + 1 = 1
    BY <1>1, <1>2, <1>4, <2>1 DEF Once
  <2>. QED
    BY <1>2, <2>2
<1>. QED
  BY <1>3, <1>4 DEF r

LEMMA OrderedJoined ==
    ASSUME NEW S, NEW q \in Seq(S), NEW s \in Seq(S), NEW a, Ordered(q, a),
           ~In(s, Answer("connected", a, "ok"))
    PROVE  Ordered(q \o s, a)
<1>. DEFINE r == q \o s
            ok == Answer("connected", a, "ok")
<1>1. /\ r \in Seq(S) /\ Len(r) = Len(q) + Len(s) /\ Len(q) \in Nat /\ Len(s) \in Nat
      /\ \A k \in 1..(Len(q) + Len(s)) : r[k] = IF k <= Len(q) THEN q[k] ELSE s[k - Len(q)]
  BY ConcatProperties, LenProperties
<1>2. DOMAIN r = 1..Len(r) /\ DOMAIN q = 1..Len(q) /\ DOMAIN s = 1..Len(s)
  BY <1>1, LenProperties
<1>. HIDE DEF r, ok
<1>3. ~In(s, ok)
  BY DEF ok
<1>. SUFFICES ASSUME NEW k \in DOMAIN r, r[k] = ok
              PROVE  \E j \in DOMAIN r, why \in {"reason", "none"} :
                        j > k /\ r[j] = Answer("closed", a, why)
  BY DEF Ordered, r, ok
<1>4. k \in DOMAIN q /\ q[k] = ok
  <2>1. ASSUME ~(k <= Len(q)) PROVE FALSE
    <3>1. k - Len(q) \in DOMAIN s /\ s[k - Len(q)] = ok
      BY <1>1, <1>2, <2>1
    <3>. QED
      BY <1>3, <3>1 DEF In
  <2>. QED
    BY <1>1, <1>2, <2>1
<1>5. PICK j \in DOMAIN q, why \in {"reason", "none"} : j > k /\ q[j] = Answer("closed", a, why)
  BY <1>4 DEF Ordered, ok
<1>6. j \in DOMAIN r /\ r[j] = q[j]
  BY <1>1, <1>2
<1>. QED
  BY <1>5, <1>6

(* A close at the end comes after all.                                     *)
LEMMA OrderedByClose ==
    ASSUME NEW S, NEW q \in Seq(S), NEW s \in Seq(S), NEW a, ClosedIn(s, a),
           ~In(s, Answer("connected", a, "ok"))
    PROVE  Ordered(q \o s, a)
<1>. DEFINE r == q \o s
            ok == Answer("connected", a, "ok")
<1>1. /\ r \in Seq(S) /\ Len(r) = Len(q) + Len(s) /\ Len(q) \in Nat /\ Len(s) \in Nat
      /\ \A k \in 1..(Len(q) + Len(s)) : r[k] = IF k <= Len(q) THEN q[k] ELSE s[k - Len(q)]
  BY ConcatProperties, LenProperties
<1>2. DOMAIN r = 1..Len(r) /\ DOMAIN q = 1..Len(q) /\ DOMAIN s = 1..Len(s)
  BY <1>1, LenProperties
<1>. HIDE DEF r, ok
<1>3. ~In(s, ok)
  BY DEF ok
<1>. SUFFICES ASSUME NEW k \in DOMAIN r, r[k] = ok
              PROVE  \E j \in DOMAIN r, why \in {"reason", "none"} :
                        j > k /\ r[j] = Answer("closed", a, why)
  BY DEF Ordered, r, ok
<1>4. k \in Nat /\ k <= Len(q)
  <2>1. ASSUME ~(k <= Len(q)) PROVE FALSE
    <3>1. k - Len(q) \in DOMAIN s /\ s[k - Len(q)] = ok
      BY <1>1, <1>2, <2>1
    <3>. QED
      BY <1>3, <3>1 DEF In
  <2>. QED
    BY <1>1, <1>2, <2>1
<1>5. PICK i \in DOMAIN s, why \in {"reason", "none"} : s[i] = Answer("closed", a, why)
  BY DEF ClosedIn, In
<1>6. /\ Len(q) + i \in 1..(Len(q) + Len(s)) /\ ~(Len(q) + i <= Len(q))
      /\ (Len(q) + i) - Len(q) = i /\ Len(q) + i > k
  BY <1>1, <1>2, <1>4
<1>7. r[Len(q) + i] = s[i] /\ Len(q) + i \in DOMAIN r
  BY <1>1, <1>2, <1>6
<1>. QED
  BY <1>5, <1>6, <1>7

LEMMA OrderedRest ==
    ASSUME NEW S, NEW q \in Seq(S), q # <<>>, NEW a, Ordered(q, a)
    PROVE  /\ Ordered(Tail(q), a)
           /\ Head(q) = Answer("connected", a, "ok") => ClosedIn(Tail(q), a)
<1>. DEFINE r == Tail(q)
            ok == Answer("connected", a, "ok")
<1>1. /\ r \in Seq(S) /\ Len(r) = Len(q) - 1 /\ Len(q) \in Nat \ {0}
      /\ \A k \in 1..Len(r) : r[k] = q[k + 1]
      /\ Head(q) = q[1] /\ DOMAIN q = 1..Len(q) /\ DOMAIN r = 1..Len(r)
  BY HeadTailProperties, LenProperties
<1>. HIDE DEF r, ok
<1>2. \A i \in DOMAIN q : q[i] = ok =>
         \E j \in DOMAIN q, why \in {"reason", "none"} : j > i /\ q[j] = Answer("closed", a, why)
  BY DEF Ordered, ok
<1>3. \A j \in DOMAIN q, i \in Nat : i > 0 /\ j > i => j - 1 \in DOMAIN r /\ r[j - 1] = q[j]
  BY <1>1
<1>4. ASSUME NEW k \in DOMAIN r, r[k] = ok
      PROVE  \E j \in DOMAIN r, why \in {"reason", "none"} : j > k /\ r[j] = Answer("closed", a, why)
  <2>1. k \in Nat /\ k + 1 \in DOMAIN q /\ q[k + 1] = ok
    BY <1>1, <1>4
  <2>2. PICK j \in DOMAIN q, why \in {"reason", "none"} : j > k + 1 /\ q[j] = Answer("closed", a, why)
    BY <1>2, <2>1
  <2>3. j - 1 \in DOMAIN r /\ r[j - 1] = q[j]
    BY <1>3, <2>1, <2>2
  <2>4. j - 1 > k
    BY <1>1, <2>1, <2>2
  <2>. QED
    BY <2>2, <2>3, <2>4
<1>5. ASSUME Head(q) = ok PROVE ClosedIn(r, a)
  <2>1. PICK j \in DOMAIN q, why \in {"reason", "none"} : j > 1 /\ q[j] = Answer("closed", a, why)
    BY <1>1, <1>2, <1>5
  <2>2. j - 1 \in DOMAIN r /\ r[j - 1] = q[j]
    BY <1>3, <2>1
  <2>. QED
    BY <2>1, <2>2 DEF ClosedIn, In
<1>6. Ordered(r, a)
  BY <1>4 DEF Ordered, ok
<1>. QED
  BY <1>5, <1>6 DEF r, ok

LEMMA OrderedWithout == \A q, a : ~In(q, Answer("connected", a, "ok")) => Ordered(q, a)
BY DEF Ordered, In

-----------------------------------------------------------------------------
(* What the steps do to the channels.                                      *)

(* What the window sends is in the channel to main, after what was.        *)
LEMMA SentToMain ==
    ASSUME TypeOK, NEW s \in Seq(Asks), Tell(s)
    PROVE  /\ toMain' \in Seq(Asks)
           /\ \A m : In(toMain', m) <=> In(toMain, m) \/ In(s, m)
           /\ Once(toMain) /\ (\A m : In(s, m) => m.op # "connect") => Once(toMain')
<1>1. toMain \in Seq(Asks) /\ toMain' = toMain \o s
  BY DEF TypeOK, Tell
<1>2. ASSUME Once(toMain), \A m : In(s, m) => m.op # "connect"
      PROVE  Once(toMain')
  <2>1. Once(s)
    BY <1>2 DEF Once, In
  <2>. QED
    BY <1>1, <1>2, <2>1, OnceJoined
<1>. QED
  BY <1>1, <1>2, InJoined

LEMMA OneSent ==
    ASSUME TypeOK, NEW x \in Asks, Tell(<<x>>)
    PROVE  /\ toMain' \in Seq(Asks)
           /\ \A m : In(toMain', m) <=> In(toMain, m) \/ m = x
           /\ Once(toMain) /\ (x.op = "connect" => ~In(toMain, x)) => Once(toMain')
<1>. DEFINE s == <<x>>
<1>1. s \in Seq(Asks) /\ (\A m : In(s, m) <=> m = x) /\ Once(s) /\ Tell(s)
  BY InOne, OnceOne
<1>. HIDE DEF s
<1>2. toMain' \in Seq(Asks) /\ \A m : In(toMain', m) <=> In(toMain, m) \/ m = x
  BY <1>1, SentToMain
<1>3. toMain \in Seq(Asks) /\ toMain' = toMain \o s
  BY <1>1 DEF TypeOK, Tell
<1>4. ASSUME Once(toMain), x.op = "connect" => ~In(toMain, x) PROVE Once(toMain')
  BY <1>1, <1>3, <1>4, OnceJoined
<1>. QED
  BY <1>2, <1>4

LEMMA NoneSent == ASSUME TypeOK, Tell(<<>>) PROVE toMain' = toMain
BY ConcatEmptySeq DEF TypeOK, Tell

LEMMA NothingSent == <<>> \in Seq(Asks) /\ <<>> \in Seq(Tells) /\ Once(<<>>) /\ \A m : ~In(<<>>, m)
<1>1. \A S : <<>> \in Seq(S)
  OBVIOUS
<1>. QED
  BY <1>1, InNone, OnceOne

(* What main posts is in the channel to the window, after what was.        *)
LEMMA PostedToWindow ==
    ASSUME TypeOK, NEW s \in Seq(Tells), Post(s)
    PROVE  /\ toWindow' \in Seq(Tells)
           /\ \A m : In(toWindow', m) <=> In(toWindow, m) \/ In(s, m)
           /\ \A a : /\ Ordered(toWindow, a) /\ ~In(s, Answer("connected", a, "ok"))
                          => Ordered(toWindow', a)
                     /\ ClosedIn(s, a) /\ ~In(s, Answer("connected", a, "ok"))
                          => Ordered(toWindow', a)
<1>1. toWindow \in Seq(Tells) /\ toWindow' = toWindow \o s
  BY DEF TypeOK, Post
<1>2. toWindow' \in Seq(Tells) /\ \A m : In(toWindow', m) <=> In(toWindow, m) \/ In(s, m)
  BY <1>1, InJoined
<1>3. ASSUME NEW a, Ordered(toWindow, a), ~In(s, Answer("connected", a, "ok"))
      PROVE  Ordered(toWindow', a)
  BY <1>1, <1>3, OrderedJoined
<1>4. ASSUME NEW a, ClosedIn(s, a), ~In(s, Answer("connected", a, "ok"))
      PROVE  Ordered(toWindow', a)
  BY <1>1, <1>4, OrderedByClose
<1>. QED
  BY <1>2, <1>3, <1>4

LEMMA OnePosted ==
    ASSUME TypeOK, NEW x \in Tells, Post(<<x>>)
    PROVE  /\ toWindow' \in Seq(Tells)
           /\ \A m : In(toWindow', m) <=> In(toWindow, m) \/ m = x
           /\ \A a : Ordered(toWindow, a) /\ x # Answer("connected", a, "ok") => Ordered(toWindow', a)
<1>. DEFINE s == <<x>>
<1>1. s \in Seq(Tells) /\ (\A m : In(s, m) <=> m = x) /\ Post(s)
  BY InOne
<1>. HIDE DEF s
<1>. QED
  BY <1>1, PostedToWindow

LEMMA NonePosted == ASSUME TypeOK, Post(<<>>) PROVE toWindow' = toWindow
BY ConcatEmptySeq DEF TypeOK, Post

(* What main receives.                                                     *)
LEMMA ReceivedByMain ==
    ASSUME TypeOK, NEW op, Received(op)
    PROVE  /\ toMain' \in Seq(Asks) /\ Head(toMain) \in Asks /\ Head(toMain).op = op
           /\ Head(toMain) = Message(op, Head(toMain).of)
           /\ \A m : In(toMain, m) <=> m = Head(toMain) \/ In(toMain', m)
           /\ Once(toMain) => Once(toMain') /\ (op = "connect" => ~In(toMain', Head(toMain)))
BY InRest, OnceRest, AskIs DEF TypeOK, Received

(* What reaches the window.                                                *)
LEMMA DeliveredToWindow ==
    ASSUME TypeOK, NEW op, Delivered(op)
    PROVE  /\ toWindow' \in Seq(Tells) /\ Head(toWindow) \in Tells /\ Head(toWindow).op = op
           /\ \A m : In(toWindow, m) <=> m = Head(toWindow) \/ In(toWindow', m)
           /\ \A a : Ordered(toWindow, a) =>
                /\ Ordered(toWindow', a)
                /\ Head(toWindow) = Answer("connected", a, "ok") => ClosedIn(toWindow', a)
<1>1. toWindow \in Seq(Tells) /\ toWindow # <<>> /\ toWindow' = Tail(toWindow) /\ Head(toWindow).op = op
  BY DEF TypeOK, Delivered
<1>2. /\ toWindow' \in Seq(Tells) /\ Head(toWindow) \in Tells
      /\ \A m : In(toWindow, m) <=> m = Head(toWindow) \/ In(toWindow', m)
  BY <1>1, InRest
<1>3. ASSUME NEW a, Ordered(toWindow, a)
      PROVE  /\ Ordered(toWindow', a)
             /\ Head(toWindow) = Answer("connected", a, "ok") => ClosedIn(toWindow', a)
  BY <1>1, <1>3, OrderedRest
<1>. QED
  BY <1>1, <1>2, <1>3

(* The "cancel" of each card.                                              *)
LEMMA CardsCancelled ==
    ASSUME TypeOK, NEW q \in Cancels
    PROVE  /\ q \in Seq(Asks)
           /\ \A m : In(q, m) <=> \E c \in CardIds(cards) : m = Message("cancelElicitation", c)
<1>. DEFINE T == {Message("cancelElicitation", x.call) : x \in cards}
            All == {Message("cancelElicitation", c) : c \in Calls}
<1>1. IsFiniteSet(Calls)
  BY McpConstants, FS_Interval DEF Calls
<1>2. IsFiniteSet(All)
  <2>. DEFINE f == [c \in Calls |-> Message("cancelElicitation", c)]
  <2>1. f \in Surjection(Calls, All)
    BY DEF Surjection
  <2>. QED
    BY <1>1, <2>1, FS_Surjection
<1>3. T \subseteq All /\ T \subseteq Asks
  BY AsksAre DEF TypeOK
<1>4. IsFiniteSet(T)
  BY <1>2, <1>3, FS_Subset
<1>5. q \in SetToSeqs(T)
  BY DEF Cancels
<1>6. \A m : m \in T <=> \E c \in CardIds(cards) : m = Message("cancelElicitation", c)
  BY DEF CardIds
<1>. HIDE DEF T
<1>7. q \in Seq(Asks) /\ \A m : In(q, m) <=> m \in T
  BY <1>3, <1>4, <1>5, InListing
<1>. QED
  BY <1>6, <1>7

(* The error of each call that waited on a connection.                     *)
LEMMA CallsFailed ==
    ASSUME TypeOK, NEW R \in SUBSET Calls,
           NEW q \in SetToSeqs({Answer("answer", c, "error") : c \in R})
    PROVE  /\ q \in Seq(Tells)
           /\ \A m : In(q, m) <=> \E c \in R : m = Answer("answer", c, "error")
<1>. DEFINE T == {Answer("answer", c, "error") : c \in R}
<1>1. IsFiniteSet(Calls)
  BY McpConstants, FS_Interval DEF Calls
<1>2. IsFiniteSet(R)
  BY <1>1, FS_Subset
<1>3. IsFiniteSet(T)
  <2>. DEFINE f == [c \in R |-> Answer("answer", c, "error")]
  <2>1. f \in Surjection(R, T)
    BY DEF Surjection
  <2>. QED
    BY <1>2, <2>1, FS_Surjection
<1>4. T \subseteq Tells
  BY TellsAre
<1>5. \A m : m \in T <=> \E c \in R : m = Answer("answer", c, "error")
  OBVIOUS
<1>. HIDE DEF T
<1>6. q \in Seq(Tells) /\ \A m : In(q, m) <=> m \in T
  BY <1>3, <1>4, InListing DEF T
<1>. QED
  BY <1>5, <1>6

(* What the tab sends when it lets go of everything.                       *)
LEMMA LeaveSends ==
    ASSUME TypeOK, TabInv, PhaseInv, NEW both \in BOOLEAN, both => state = "connecting",
           NEW q \in Seq(Asks), \A m : In(q, m) => m.op # "connect", Leave(both, q)
    PROVE  /\ toMain' \in Seq(Asks) /\ Once(toMain')
           /\ \A m : In(toMain', m) <=>
                \/ In(toMain, m) \/ In(q, m)
                \/ both /\ m = Message("cancelConnect", pending)
                \/ conn # 0 /\ m = Message("disconnect", conn)
<1>. DEFINE first == IF both THEN <<Message("cancelConnect", pending)>> ELSE <<>>
            last == IF conn # 0 THEN <<Message("disconnect", conn)>> ELSE <<>>
            s == first \o q \o last
<1>1. /\ first \in Seq(Asks)
      /\ \A m : In(first, m) <=> both /\ m = Message("cancelConnect", pending)
  <2>1. CASE both
    <3>1. Message("cancelConnect", pending) \in Asks
      BY <2>1, AsksAre DEF TypeOK, TabInv
    <3>. QED
      BY <2>1, <3>1, InOne
  <2>2. CASE ~both
    BY <2>2, NothingSent
  <2>. QED
    BY <2>1, <2>2
<1>2. /\ last \in Seq(Asks)
      /\ \A m : In(last, m) <=> conn # 0 /\ m = Message("disconnect", conn)
  <2>1. CASE conn # 0
    <3>1. Message("disconnect", conn) \in Asks
      BY <2>1, AsksAre DEF TypeOK
    <3>. QED
      BY <2>1, <3>1, InOne
  <2>2. CASE conn = 0
    BY <2>2, NothingSent
  <2>. QED
    BY <2>1, <2>2
<1>3. Tell(s)
  BY DEF Leave
<1>. HIDE DEF first, last
<1>4. first \o q \in Seq(Asks) /\ \A m : In(first \o q, m) <=> In(first, m) \/ In(q, m)
  BY <1>1, InJoined
<1>5. s \in Seq(Asks) /\ \A m : In(s, m) <=> In(first, m) \/ In(q, m) \/ In(last, m)
  BY <1>2, <1>4, InJoined
<1>. HIDE DEF s
<1>6. \A m : In(s, m) => m.op # "connect"
  BY <1>1, <1>2, <1>5, MessageFields
<1>7. /\ toMain' \in Seq(Asks) /\ Once(toMain')
      /\ \A m : In(toMain', m) <=> In(toMain, m) \/ In(s, m)
  BY <1>3, <1>5, <1>6, SentToMain DEF PhaseInv
<1>. QED
  BY <1>1, <1>2, <1>5, <1>7

(* The end of a call gives its place back; the cards stay, or are answered.*)
LEMMA EndCallSends ==
    ASSUME TypeOK, PhaseInv, NEW k \in CallKinds, NEW more \in Seq(Asks),
           \A m : In(more, m) => m.op # "connect", EndCall(k, more)
    PROVE  /\ toMain' \in Seq(Asks) /\ Once(toMain')
           /\ \A m : In(toMain, m) \/ In(more, m) => In(toMain', m)
           /\ \A m : In(toMain', m) =>
                In(toMain, m) \/ In(more, m) \/ \E c : m = Message("cancelElicitation", c)
           /\ cards' \subseteq cards
           /\ \A c \in CardIds(cards) : conn # 0 =>
                c \in CardIds(cards') \/ In(toMain', Message("cancelElicitation", c))
<1>. DEFINE last == \A j \in CallKinds \ {k} : slot[j] = 0
<1>1. PICK q \in Cancels : Tell((IF last /\ conn # 0 THEN q ELSE <<>>) \o more)
  BY DEF EndCall
<1>. DEFINE first == IF last /\ conn # 0 THEN q ELSE <<>>
            s == first \o more
<1>2. /\ first \in Seq(Asks)
      /\ \A m : In(first, m) <=>
            last /\ conn # 0 /\ \E c \in CardIds(cards) : m = Message("cancelElicitation", c)
  BY CardsCancelled, NothingSent
<1>. HIDE DEF first
<1>3. s \in Seq(Asks) /\ \A m : In(s, m) <=> In(first, m) \/ In(more, m)
  BY <1>2, InJoined
<1>4. Tell(s)
  BY <1>1 DEF first
<1>. HIDE DEF s
<1>5. \A m : In(s, m) => m.op # "connect"
  BY <1>2, <1>3, MessageFields
<1>6. /\ toMain' \in Seq(Asks) /\ Once(toMain')
      /\ \A m : In(toMain', m) <=> In(toMain, m) \/ In(s, m)
  BY <1>3, <1>4, <1>5, SentToMain DEF PhaseInv
<1>7. cards' = IF last THEN {} ELSE cards
  BY DEF EndCall
<1>8. ASSUME NEW c \in CardIds(cards), conn # 0
      PROVE  c \in CardIds(cards') \/ In(toMain', Message("cancelElicitation", c))
  <2>1. CASE last
    BY <1>2, <1>3, <1>6, <1>8, <2>1
  <2>2. CASE ~last
    BY <1>7, <2>2
  <2>. QED
    BY <2>1, <2>2
<1>. HIDE DEF last
<1>. QED
  BY <1>2, <1>3, <1>6, <1>7, <1>8

LEMMA Apart ==
    /\ \A o1, f1, o2, f2 : Message(o1, f1) = Message(o2, f2) <=> o1 = o2 /\ f1 = f2
    /\ \A o1, f1, w1, o2, f2, w2 :
          Answer(o1, f1, w1) = Answer(o2, f2, w2) <=> o1 = o2 /\ f1 = f2 /\ w1 = w2
    /\ \A o1, f1, o2, f2, w : Message(o1, f1) = Answer(o2, f2, w) => o1 = o2
BY MessageFields DEF Message, Answer

LEMMA NoZero == 0 \notin Attempts /\ 0 \notin Calls
BY McpConstants DEF Attempts, Calls

-----------------------------------------------------------------------------
(* The window: what the user does.                                         *)

LEMMA ConnectKeeps ==
    ASSUME SessionInv, NEW a \in Attempts, Connect(a)
    PROVE  SessionInv'
<1>. USE DEF SessionInv
<1>1. /\ toMain' \in Seq(Asks)
      /\ \A m : In(toMain', m) <=> In(toMain, m) \/ m = Message("connect", a)
      /\ Once(toMain')
  <2>1. Message("connect", a) \in Asks
    BY AsksAre
  <2>2. ~In(toMain, Message("connect", a)) /\ Tell(<<Message("connect", a)>>)
    BY DEF Connect, In
  <2>. QED
    BY <2>1, <2>2, OneSent DEF PhaseInv
<1>2. TypeOK'
  BY <1>1 DEF Connect, TypeOK, main, connects
<1>3. TabInv'
  BY NoZero DEF Connect, TabInv
<1>4. MadeInv' /\ CallInv'
  BY <1>1, Apart DEF Connect, MadeInv, CallInv, Made, Waits, main, connects
<1>5. PhaseInv'
  BY <1>1, Apart DEF Connect, PhaseInv, main, connects
<1>6. QuestionInv'
  BY <1>1 DEF Connect, QuestionInv, Pursued, main, connects
<1>7. OpenInv' /\ HttpInv'
  BY <1>1 DEF Connect, OpenInv, Kept, HttpInv, main, connects
<1>. QED
  BY <1>2, <1>3, <1>4, <1>5, <1>6, <1>7

(* Letting go of everything leaves no call and no card on the tab; its     *)
(* connection is about to be closed.                                       *)
LEMMA LetGoKeeps ==
    ASSUME SessionInv, NEW both \in BOOLEAN, both => state = "connecting",
           NEW q \in Seq(Asks), \A m : In(q, m) => m.op = "cancelElicitation",
           Leave(both, q), state' = "disconnected", alive' \in BOOLEAN, DisconnectedPatch,
           UNCHANGED <<calls, toWindow, main>>
    PROVE  SessionInv'
<1>. USE DEF SessionInv
<1>1. /\ toMain' \in Seq(Asks) /\ Once(toMain')
      /\ \A m : In(toMain', m) <=>
           \/ In(toMain, m) \/ In(q, m)
           \/ both /\ m = Message("cancelConnect", pending)
           \/ conn # 0 /\ m = Message("disconnect", conn)
  BY LeaveSends
<1>2. \A m : In(toMain', m) => In(toMain, m) \/ m.op \in {"cancelElicitation", "cancelConnect", "disconnect"}
  BY <1>1, MessageFields
<1>3. TypeOK'
  BY <1>1 DEF TypeOK, DisconnectedPatch, main, connects
<1>4. TabInv' /\ CallInv'
  BY DEF TabInv, CallInv, DisconnectedPatch
<1>5. MadeInv'
  BY <1>2, MessageFields DEF MadeInv, Made, main, connects
<1>6. PhaseInv'
  BY <1>1, <1>2, MessageFields DEF PhaseInv, main, connects
<1>7. QuestionInv'
  <2>1. \A c \in elicits : Made(c) /\ calls[c].on # 0
    BY DEF MadeInv, TypeOK
  <2>. QED
    BY <1>1, <2>1 DEF QuestionInv, Pursued, main, connects
<1>8. OpenInv'
  BY <1>1, NoZero DEF OpenInv, Kept, main, connects
<1>9. HttpInv'
  BY NoZero DEF HttpInv, DisconnectedPatch, main, connects
<1>. QED
  BY <1>3, <1>4, <1>5, <1>6, <1>7, <1>8, <1>9

LEMMA DisconnectKeeps == ASSUME SessionInv, Disconnect PROVE SessionInv'
<1>1. Leave(state = "connecting", <<>>) /\ (state = "connecting") \in BOOLEAN
  BY DEF Disconnect
<1>2. /\ state' = "disconnected" /\ alive' \in BOOLEAN /\ DisconnectedPatch
      /\ UNCHANGED <<calls, toWindow, main>>
  BY DEF Disconnect, SessionInv, TypeOK
<1>. QED
  BY <1>1, <1>2, NothingSent, LetGoKeeps

LEMMA CloseTabKeeps == ASSUME SessionInv, CloseTab PROVE SessionInv'
<1>1. PICK front \in BOOLEAN, q \in Cancels : Leave(front /\ state = "connecting", q)
  BY DEF CloseTab
<1>2. q \in Seq(Asks) /\ \A m : In(q, m) => m.op = "cancelElicitation"
  BY CardsCancelled, MessageFields DEF SessionInv
<1>3. /\ state' = "disconnected" /\ alive' \in BOOLEAN /\ DisconnectedPatch
      /\ UNCHANGED <<calls, toWindow, main>>
  BY DEF CloseTab
<1>4. (front /\ state = "connecting") \in BOOLEAN
  OBVIOUS
<1>. QED
  BY <1>1, <1>2, <1>3, <1>4, LetGoKeeps

LEMMA DismissInputKeeps == ASSUME SessionInv, DismissInput PROVE SessionInv'
<1>1. /\ input' \in BOOLEAN
      /\ UNCHANGED <<state, alive, pending, conn, slot, cards, calls, toMain, toWindow, main>>
  BY DEF DismissInput
<1>. QED
  BY <1>1 DEF SessionInv, TypeOK, TabInv, MadeInv, Made, CallInv, Waits, PhaseInv, QuestionInv,
     Pursued, OpenInv, Kept, HttpInv, main, connects

(* A new call has its place, and its scripts.                              *)
LEMMA CallKeeps ==
    ASSUME SessionInv, NEW c \in Calls, NEW k \in CallKinds, Call(c, k)
    PROVE  SessionInv'
<1>. USE DEF SessionInv
<1>1. /\ UNCHANGED <<state, alive, pending, conn, cards, toMain, toWindow, main>>
      /\ input' \in BOOLEAN /\ conn # 0 /\ calls[c].at = "none"
      /\ slot' = [slot EXCEPT ![k] = c]
      /\ calls' = [calls EXCEPT ![c] = [kind |-> k, on |-> conn, at |-> "scripts",
                                        reply |-> "none", retry |-> FALSE]]
  BY DEF Call, Started, TypeOK
<1>2. /\ calls'[c] = [kind |-> k, on |-> conn, at |-> "scripts", reply |-> "none", retry |-> FALSE]
      /\ slot'[k] = c /\ \A j \in CallKinds \ {k} : slot'[j] = slot[j]
      /\ \A d \in Calls \ {c} : calls'[d] = calls[d]
  BY <1>1 DEF TypeOK
<1>3. TypeOK'
  BY <1>1 DEF TypeOK, main, connects
<1>4. TabInv'
  BY <1>1, <1>2 DEF TabInv, TypeOK
<1>5. MadeInv'
  BY <1>1, <1>2 DEF MadeInv, Made, main, connects
<1>6. CallInv'
  <2>. SUFFICES ASSUME NEW j \in CallKinds, slot'[j] # 0
                PROVE  calls'[slot'[j]].at \in {"scripts", "checks"} \/ Waits(slot[j])'
    BY DEF CallInv
  <2>1. CASE j = k
    BY <1>2, <2>1
  <2>2. CASE j # k
    <3>1. slot'[j] = slot[j] /\ slot[j] \in Calls /\ calls'[slot[j]] = calls[slot[j]]
      BY <1>1, <1>2, <2>2 DEF TabInv, TypeOK
    <3>. QED
      BY <1>1, <2>2, <3>1 DEF CallInv, Waits, main, connects
  <2>. QED
    BY <2>1, <2>2
<1>7. \A d \in inflight \cup elicits : calls'[d].on = calls[d].on
  BY <1>1, <1>2 DEF MadeInv, Made, TypeOK
<1>8. PhaseInv'
  BY <1>1, <1>7 DEF PhaseInv, main, connects
<1>9. QuestionInv'
  BY <1>1, <1>7 DEF QuestionInv, Pursued, main, connects
<1>10. OpenInv' /\ HttpInv'
  BY <1>1 DEF OpenInv, Kept, HttpInv, main, connects
<1>. QED
  BY <1>3, <1>4, <1>5, <1>6, <1>8, <1>9, <1>10

(* The next leg of a call has its place, and its message.                  *)
LEMMA RespondInputKeeps ==
    ASSUME SessionInv, NEW c \in Calls, RespondInput(c)
    PROVE  SessionInv'
<1>. USE DEF SessionInv
<1>1. /\ UNCHANGED <<state, alive, pending, conn, input, cards, toWindow, main>>
      /\ conn # 0 /\ calls[c].at = "none"
      /\ slot' = [slot EXCEPT !["tool"] = c]
      /\ calls' = [calls EXCEPT ![c] = [kind |-> "tool", on |-> conn, at |-> "asked",
                                        reply |-> "none", retry |-> TRUE]]
      /\ Tell(<<Message("call", c)>>)
  BY DEF RespondInput, Started
<1>2. /\ calls'[c] = [kind |-> "tool", on |-> conn, at |-> "asked", reply |-> "none", retry |-> TRUE]
      /\ slot'["tool"] = c /\ \A j \in CallKinds \ {"tool"} : slot'[j] = slot[j]
      /\ \A d \in Calls \ {c} : calls'[d] = calls[d]
  BY <1>1 DEF TypeOK, CallKinds
<1>0. /\ toMain' \in Seq(Asks) /\ Once(toMain')
      /\ \A m : In(toMain', m) <=> In(toMain, m) \/ m = Message("call", c)
  BY <1>1, OneSent, AsksAre, MessageFields DEF PhaseInv
<1>3. TypeOK'
  BY <1>0, <1>1 DEF TypeOK, main, connects, CallKinds
<1>4. TabInv'
  BY <1>1, <1>2 DEF TabInv, TypeOK
<1>5. MadeInv'
  BY <1>0, <1>1, <1>2, Apart DEF MadeInv, Made, main, connects
<1>6. CallInv'
  <2>. SUFFICES ASSUME NEW j \in CallKinds, slot'[j] # 0
                PROVE  calls'[slot'[j]].at \in {"scripts", "checks"} \/ Waits(slot[j])'
    BY DEF CallInv
  <2>1. CASE j = "tool"
    BY <1>0, <1>2, <2>1 DEF Waits
  <2>2. CASE j # "tool"
    <3>1. slot'[j] = slot[j] /\ slot[j] \in Calls /\ calls'[slot[j]] = calls[slot[j]]
      BY <1>1, <1>2, <2>2 DEF TabInv, TypeOK
    <3>. QED
      BY <1>0, <1>1, <2>2, <3>1 DEF CallInv, Waits, main, connects
  <2>. QED
    BY <2>1, <2>2
<1>7. \A d \in inflight \cup elicits : calls'[d].on = calls[d].on
  BY <1>1, <1>2 DEF MadeInv, Made, TypeOK
<1>8. PhaseInv'
  BY <1>0, <1>1, <1>7, Apart DEF PhaseInv, main, connects
<1>9. QuestionInv'
  BY <1>0, <1>1, <1>7 DEF QuestionInv, Pursued, main, connects
<1>10. OpenInv' /\ HttpInv'
  BY <1>0, <1>1 DEF OpenInv, Kept, HttpInv, main, connects
<1>. QED
  BY <1>3, <1>4, <1>5, <1>6, <1>8, <1>9, <1>10

LEMMA RespondElicitationKeeps ==
    ASSUME SessionInv, NEW c \in Calls, RespondElicitation(c)
    PROVE  SessionInv'
<1>. USE DEF SessionInv
<1>1. /\ UNCHANGED <<state, alive, pending, conn, slot, input, calls, toWindow, main>>
      /\ cards' = (cards \ {[call |-> c, sending |-> FALSE]}) \cup {[call |-> c, sending |-> TRUE]}
      /\ Tell(<<Message("answerElicitation", c)>>)
  BY DEF RespondElicitation
<1>2. /\ toMain' \in Seq(Asks) /\ Once(toMain')
      /\ \A m : In(toMain', m) <=> In(toMain, m) \/ m = Message("answerElicitation", c)
  BY <1>1, OneSent, AsksAre, MessageFields DEF PhaseInv
<1>3. TypeOK'
  <2>1. [call |-> c, sending |-> TRUE] \in [call : Calls, sending : BOOLEAN]
    OBVIOUS
  <2>2. cards' \subseteq [call : Calls, sending : BOOLEAN]
    BY <1>1, <2>1 DEF TypeOK
  <2>. QED
    BY <1>1, <1>2, <2>2 DEF TypeOK, main, connects
<1>4. TabInv' /\ MadeInv' /\ CallInv'
  BY <1>1, <1>2, Apart DEF TabInv, MadeInv, Made, CallInv, Waits, main, connects
<1>5. PhaseInv'
  BY <1>1, <1>2, Apart DEF PhaseInv, main, connects
<1>6. CardIds(cards) \subseteq CardIds(cards')
  <2>. DEFINE old == [call |-> c, sending |-> FALSE]
              new == [call |-> c, sending |-> TRUE]
  <2>1. old.call = c /\ new.call = c /\ cards' = (cards \ {old}) \cup {new}
    BY <1>1
  <2>. HIDE DEF old, new
  <2>2. \A x \in cards : \E y \in cards' : y.call = x.call
    BY <2>1
  <2>. QED
    BY <2>2 DEF CardIds
<1>7. QuestionInv'
  BY <1>1, <1>2, <1>6 DEF QuestionInv, Pursued, main, connects
<1>8. OpenInv' /\ HttpInv'
  BY <1>1, <1>2 DEF OpenInv, Kept, HttpInv, main, connects
<1>. QED
  BY <1>3, <1>4, <1>5, <1>7, <1>8

-----------------------------------------------------------------------------
(* The window: what ends a call.                                           *)

(* A question whose card goes with its call is cancelled.                  *)
LEMMA EndCallPursues ==
    ASSUME SessionInv, UNCHANGED <<toWindow, conn, main>>,
           \A c \in Calls : calls'[c].on = calls[c].on,
           \A m : In(toMain, m) => In(toMain', m),
           \A c \in CardIds(cards) : conn # 0 =>
                c \in CardIds(cards') \/ In(toMain', Message("cancelElicitation", c))
    PROVE  QuestionInv' /\ OpenInv' /\ HttpInv'
<1>. USE DEF SessionInv
<1>1. \A c \in elicits : c \in Calls /\ calls[c].on # 0
  BY DEF TypeOK, MadeInv
<1>2. QuestionInv'
  BY <1>1 DEF QuestionInv, Pursued, main, connects
<1>3. OpenInv' /\ HttpInv'
  BY DEF OpenInv, Kept, HttpInv, main, connects
<1>. QED
  BY <1>2, <1>3

LEMMA CancelCallKeeps ==
    ASSUME SessionInv, NEW k \in CallKinds, CancelCall(k)
    PROVE  SessionInv'
<1>. USE DEF SessionInv
<1>. DEFINE x == Message("cancelCall", slot[k])
<1>1. /\ EndCall(k, <<x>>) /\ input' \in BOOLEAN
      /\ UNCHANGED <<state, alive, pending, conn, calls, toWindow, main>>
      /\ slot' = [slot EXCEPT ![k] = 0]
  BY DEF CancelCall, TypeOK, EndCall
<1>2. x \in Asks /\ x.op = "cancelCall"
  BY AsksAre, MessageFields DEF CancelCall, TypeOK
<1>. HIDE DEF x
<1>3. <<x>> \in Seq(Asks) /\ \A m : In(<<x>>, m) <=> m = x
  BY <1>2, InOne
<1>4. /\ toMain' \in Seq(Asks) /\ Once(toMain')
      /\ \A m : In(toMain, m) => In(toMain', m)
      /\ \A m : In(toMain', m) => In(toMain, m) \/ m = x \/ \E c : m = Message("cancelElicitation", c)
      /\ cards' \subseteq cards
      /\ \A c \in CardIds(cards) : conn # 0 =>
           c \in CardIds(cards') \/ In(toMain', Message("cancelElicitation", c))
  BY <1>1, <1>2, <1>3, EndCallSends
<1>5. \A m : In(toMain', m) => In(toMain, m) \/ m.op \in {"cancelCall", "cancelElicitation"}
  BY <1>2, <1>4, MessageFields
<1>6. TypeOK'
  BY <1>1, <1>4 DEF TypeOK, main, connects
<1>7. TabInv' /\ CallInv'
  <2>1. slot'[k] = 0 /\ \A j \in CallKinds \ {k} : slot'[j] = slot[j]
    BY <1>1 DEF TypeOK
  <2>. QED
    BY <1>1, <1>4, <2>1 DEF TabInv, CallInv, Waits, main, connects
<1>8. MadeInv' /\ PhaseInv'
  BY <1>1, <1>4, <1>5, MessageFields DEF MadeInv, Made, PhaseInv, main, connects
<1>9. QuestionInv' /\ OpenInv' /\ HttpInv'
  BY <1>1, <1>4, EndCallPursues
<1>. QED
  BY <1>6, <1>7, <1>8, <1>9

(* The scripts of a call end.                                              *)
LEMMA ScriptsEndKeeps ==
    ASSUME SessionInv, NEW c \in Calls, NEW allow \in BOOLEAN, ScriptsEnd(c, allow)
    PROVE  SessionInv'
<1>. USE DEF SessionInv
<1>. DEFINE k == calls[c].kind
<1>0. k \in CallKinds /\ calls[c].at = "scripts"
  BY DEF TypeOK, ScriptsEnd
<1>1. /\ UNCHANGED <<state, alive, pending, conn, input, toWindow, main>>
      /\ calls' = [calls EXCEPT ![c].at = IF IsCurrent(c) /\ allow THEN "asked" ELSE "over"]
  BY DEF ScriptsEnd
<1>2. /\ \A d \in Calls : calls'[d].on = calls[d].on /\ calls'[d].kind = calls[d].kind /\ (Made(d) => Made(d)')
      /\ \A d \in Calls : d # c => calls'[d] = calls[d]
  <2>. DEFINE new == IF IsCurrent(c) /\ allow THEN "asked" ELSE "over"
  <2>1. calls' = [calls EXCEPT ![c].at = new] /\ new # "none"
    BY <1>1
  <2>. HIDE DEF new
  <2>2. \A d \in Calls : d # c => calls'[d] = calls[d]
    BY <2>1 DEF TypeOK
  <2>3. calls'[c].on = calls[c].on /\ calls'[c].kind = calls[c].kind /\ calls'[c].at = new
    BY <2>1 DEF TypeOK
  <2>. QED
    BY <2>1, <2>2, <2>3 DEF Made
<1>3. calls' \in [Calls -> [kind : CallKinds, on : {0} \cup Attempts,
                            at : {"none", "scripts", "asked", "checks", "over"},
                            reply : {"none", "ok", "error", "input", "cancelled"},
                            retry : BOOLEAN]]
  <2>. DEFINE new == IF IsCurrent(c) /\ allow THEN "asked" ELSE "over"
  <2>1. calls' = [calls EXCEPT ![c].at = new] /\ new \in {"none", "scripts", "asked", "checks", "over"}
    BY <1>1
  <2>. HIDE DEF new
  <2>2. [calls[c] EXCEPT !.at = new] \in
           [kind : CallKinds, on : {0} \cup Attempts,
            at : {"none", "scripts", "asked", "checks", "over"},
            reply : {"none", "ok", "error", "input", "cancelled"}, retry : BOOLEAN]
    BY <2>1 DEF TypeOK
  <2>. QED
    BY <2>1, <2>2 DEF TypeOK
<1>4. /\ toMain' \in Seq(Asks) /\ Once(toMain')
      /\ \A m : In(toMain, m) => In(toMain', m)
      /\ \A m : In(toMain', m) =>
            \/ In(toMain, m) \/ m.op = "cancelElicitation"
            \/ m = Message("call", c)
      /\ cards' \subseteq cards
      /\ \A d \in CardIds(cards) : conn # 0 =>
           d \in CardIds(cards') \/ In(toMain', Message("cancelElicitation", d))
      /\ \/ UNCHANGED slot /\ (IsCurrent(c) => allow /\ In(toMain', Message("call", c)))
         \/ slot' = [slot EXCEPT ![k] = 0]
  <2>1. CASE ~IsCurrent(c)
    BY <2>1 DEF ScriptsEnd, TypeOK, PhaseInv
  <2>2. CASE IsCurrent(c) /\ allow
    <3>1. Tell(<<Message("call", c)>>) /\ UNCHANGED <<slot, cards>>
      BY <2>2 DEF ScriptsEnd
    <3>. QED
      BY <2>2, <3>1, OneSent, AsksAre, MessageFields DEF PhaseInv
  <2>3. CASE IsCurrent(c) /\ ~allow
    <3>1. EndCall(k, <<>>)
      BY <2>3 DEF ScriptsEnd
    <3>2. slot' = [slot EXCEPT ![k] = 0]
      BY <3>1 DEF EndCall
    <3>. HIDE DEF k
    <3>3. /\ toMain' \in Seq(Asks) /\ Once(toMain')
          /\ \A m : In(toMain, m) => In(toMain', m)
          /\ \A m : In(toMain', m) => In(toMain, m) \/ \E d : m = Message("cancelElicitation", d)
          /\ cards' \subseteq cards
          /\ \A d \in CardIds(cards) : conn # 0 =>
               d \in CardIds(cards') \/ In(toMain', Message("cancelElicitation", d))
      BY <1>0, <3>1, EndCallSends, NothingSent
    <3>. QED
      BY <3>2, <3>3, MessageFields
  <2>. QED
    BY <2>1, <2>2, <2>3
<1>5. TypeOK'
  BY <1>0, <1>1, <1>3, <1>4 DEF TypeOK, main, connects
<1>6. \A j \in CallKinds : slot'[j] # 0 => slot'[j] = slot[j] /\ slot[j] \in Calls
                                         /\ calls[slot[j]].kind = j
  BY <1>0, <1>4 DEF TypeOK, TabInv
<1>7. TabInv'
  BY <1>1, <1>2, <1>6 DEF TabInv, Made
<1>8. CallInv'
  <2>. SUFFICES ASSUME NEW j \in CallKinds, slot'[j] # 0
                PROVE  calls'[slot'[j]].at \in {"scripts", "checks"} \/ Waits(slot[j])'
    BY DEF CallInv
  <2>1. CASE slot[j] = c
    <3>1. k = j /\ IsCurrent(c)
      BY <1>6, <2>1 DEF IsCurrent
    <3>2. slot'[k] # 0 /\ slot' # [slot EXCEPT ![k] = 0]
      BY <1>0, <3>1 DEF TypeOK
    <3>3. In(toMain', Message("call", c))
      BY <1>4, <3>1, <3>2
    <3>. QED
      BY <1>6, <2>1, <3>3 DEF Waits
  <2>2. CASE slot[j] # c
    <3>1. slot'[j] = slot[j] /\ calls'[slot[j]] = calls[slot[j]]
      BY <1>2, <1>6, <2>2
    <3>. QED
      BY <1>1, <1>4, <3>1 DEF CallInv, Waits, main, connects
  <2>. QED
    BY <2>1, <2>2
<1>9. MadeInv'
  <2>1. Made(c)
    BY <1>0 DEF Made
  <2>2. \A d \in Calls : Made(d)' => Made(d)
    BY <1>2, <2>1 DEF Made
  <2>3. \A d \in Calls : In(toMain', Message("call", d)) => In(toMain, Message("call", d)) \/ d = c
    BY <1>4, Apart, MessageFields
  <2>4. \A d \in Calls : Made(d)' => calls'[d].on # 0
    BY <1>2, <2>2 DEF MadeInv
  <2>5. \A d \in Calls : In(toMain', Message("call", d)) => Made(d)'
    BY <1>2, <2>1, <2>3 DEF MadeInv
  <2>6. \A d \in requests \cup inflight \cup elicits : Made(d)'
    BY <1>2 DEF MadeInv, TypeOK
  <2>7. \A d \in Calls, w \in {"ok", "error", "input", "cancelled"} :
           In(toWindow, Answer("answer", d, w)) => Made(d)'
    BY <1>2 DEF MadeInv
  <2>. QED
    BY <1>1, <2>4, <2>5, <2>6, <2>7 DEF MadeInv, main, connects
<1>10. PhaseInv'
  <2>1. \A d \in inflight \cup elicits : d \in Calls
    BY DEF TypeOK
  <2>2. \A a \in Attempts : In(toMain', Message("connect", a)) => In(toMain, Message("connect", a))
    BY <1>4, Apart, MessageFields
  <2>. QED
    BY <1>1, <1>2, <1>4, <2>1, <2>2 DEF PhaseInv, main, connects
<1>11. QuestionInv' /\ OpenInv' /\ HttpInv'
  BY <1>1, <1>2, <1>4, EndCallPursues
<1>. QED
  BY <1>5, <1>7, <1>8, <1>9, <1>10, <1>11

(* The checks on a reply end.                                              *)
LEMMA ChecksEndKeeps ==
    ASSUME SessionInv, NEW c \in Calls, ChecksEnd(c)
    PROVE  SessionInv'
<1>. USE DEF SessionInv
<1>. DEFINE k == calls[c].kind
            ends == conn # 0 /\ conn = calls[c].on /\ IsCurrent(c)
<1>0. k \in CallKinds /\ calls[c].at = "checks"
  BY DEF TypeOK, ChecksEnd
<1>1. /\ UNCHANGED <<state, alive, pending, conn, toWindow, main>>
      /\ calls' = [calls EXCEPT ![c].at = "over"]
      /\ input' \in BOOLEAN
      /\ IF ends THEN EndCall(k, <<>>) ELSE UNCHANGED <<slot, cards, toMain>>
  BY <1>0 DEF ChecksEnd, TypeOK
<1>2. /\ \A d \in Calls : calls'[d].on = calls[d].on /\ calls'[d].kind = calls[d].kind /\ (Made(d) => Made(d)')
      /\ \A d \in Calls : d # c => calls'[d] = calls[d]
  BY <1>1 DEF TypeOK, Made
<1>3. calls' \in [Calls -> [kind : CallKinds, on : {0} \cup Attempts,
                            at : {"none", "scripts", "asked", "checks", "over"},
                            reply : {"none", "ok", "error", "input", "cancelled"},
                            retry : BOOLEAN]]
  BY <1>1 DEF TypeOK
<1>. HIDE DEF k
<1>4. /\ toMain' \in Seq(Asks) /\ Once(toMain')
      /\ \A m : In(toMain, m) => In(toMain', m)
      /\ \A m : In(toMain', m) => In(toMain, m) \/ m.op = "cancelElicitation"
      /\ cards' \subseteq cards
      /\ \A d \in CardIds(cards) : conn # 0 =>
           d \in CardIds(cards') \/ In(toMain', Message("cancelElicitation", d))
      /\ IF ends THEN slot' = [slot EXCEPT ![k] = 0] ELSE UNCHANGED slot
  <2>1. CASE ~ends
    BY <1>1, <2>1 DEF TypeOK, PhaseInv
  <2>2. CASE ends
    <3>1. EndCall(k, <<>>)
      BY <1>1, <2>2
    <3>2. slot' = [slot EXCEPT ![k] = 0]
      BY <3>1 DEF EndCall
    <3>3. /\ toMain' \in Seq(Asks) /\ Once(toMain')
          /\ \A m : In(toMain, m) => In(toMain', m)
          /\ \A m : In(toMain', m) => In(toMain, m) \/ \E d : m = Message("cancelElicitation", d)
          /\ cards' \subseteq cards
          /\ \A d \in CardIds(cards) : conn # 0 =>
               d \in CardIds(cards') \/ In(toMain', Message("cancelElicitation", d))
      BY <1>0, <3>1, EndCallSends, NothingSent
    <3>. QED
      BY <2>2, <3>2, <3>3, MessageFields
  <2>. QED
    BY <2>1, <2>2
<1>5. TypeOK'
  BY <1>0, <1>1, <1>3, <1>4 DEF TypeOK, main, connects
<1>6. \A j \in CallKinds : slot'[j] # 0 => slot'[j] = slot[j] /\ slot[j] \in Calls
                                         /\ calls[slot[j]].kind = j
  BY <1>0, <1>4 DEF TypeOK, TabInv
<1>7. TabInv'
  BY <1>1, <1>2, <1>6 DEF TabInv, Made
<1>8. \A j \in CallKinds : slot'[j] # 0 => slot[j] # c
  <2>. SUFFICES ASSUME NEW j \in CallKinds, slot'[j] # 0, slot[j] = c PROVE FALSE
    OBVIOUS
  <2>1. k = j /\ IsCurrent(c) /\ conn # 0 /\ conn = calls[c].on
    BY <1>6 DEF IsCurrent, TabInv, k
  <2>. QED
    BY <1>0, <1>4, <2>1 DEF TypeOK
<1>9. CallInv'
  <2>. SUFFICES ASSUME NEW j \in CallKinds, slot'[j] # 0
                PROVE  calls'[slot'[j]].at \in {"scripts", "checks"} \/ Waits(slot[j])'
    BY DEF CallInv
  <2>1. slot'[j] = slot[j] /\ calls'[slot[j]] = calls[slot[j]]
    BY <1>2, <1>6, <1>8
  <2>. QED
    BY <1>1, <1>4, <2>1 DEF CallInv, Waits, main, connects
<1>10. MadeInv'
  <2>1. \A d \in Calls : Made(d)' => Made(d)
    BY <1>0, <1>2 DEF Made
  <2>2. \A d \in Calls : In(toMain', Message("call", d)) => In(toMain, Message("call", d))
    BY <1>4, MessageFields
  <2>3. \A d \in Calls : Made(d)' => calls'[d].on # 0
    BY <1>2, <2>1 DEF MadeInv
  <2>4. \A d \in Calls : In(toMain', Message("call", d)) => Made(d)'
    BY <1>2, <2>2 DEF MadeInv
  <2>5. \A d \in requests \cup inflight \cup elicits : Made(d)'
    BY <1>2 DEF MadeInv, TypeOK
  <2>6. \A d \in Calls, w \in {"ok", "error", "input", "cancelled"} :
           In(toWindow, Answer("answer", d, w)) => Made(d)'
    BY <1>2 DEF MadeInv
  <2>. QED
    BY <1>1, <2>3, <2>4, <2>5, <2>6 DEF MadeInv, main, connects
<1>11. PhaseInv'
  <2>1. \A d \in inflight \cup elicits : d \in Calls
    BY DEF TypeOK
  <2>2. \A a \in Attempts : In(toMain', Message("connect", a)) => In(toMain, Message("connect", a))
    BY <1>4, MessageFields
  <2>. QED
    BY <1>1, <1>2, <1>4, <2>1, <2>2 DEF PhaseInv, main, connects
<1>12. QuestionInv' /\ OpenInv' /\ HttpInv'
  BY <1>1, <1>2, <1>4, EndCallPursues
<1>. QED
  BY <1>5, <1>7, <1>9, <1>10, <1>11, <1>12

-----------------------------------------------------------------------------
(* The window: what reaches it.                                            *)

(* A connection is the tab's, or is closed again when the tab has moved on.*)
LEMMA ConnectReplyKeeps == ASSUME SessionInv, ConnectReply PROVE SessionInv'
<1>. USE DEF SessionInv
<1>. DEFINE r == Head(toWindow)
            a == r.of
            current == alive /\ pending = a
            stale == ~current /\ r.with = "ok"
<1>1. /\ toWindow' \in Seq(Tells) /\ a \in Attempts /\ r.with \in {"ok", "failed"}
      /\ r = Answer("connected", a, r.with)
      /\ \A m : In(toWindow, m) <=> m = r \/ In(toWindow', m)
      /\ \A b : Ordered(toWindow, b) =>
           Ordered(toWindow', b) /\ (r = Answer("connected", b, "ok") => ClosedIn(toWindow', b))
  BY DeliveredToWindow, TellIs DEF ConnectReply
<1>2. /\ state' = IF ~current THEN state ELSE IF r.with = "ok" THEN "connected" ELSE "error"
      /\ pending' = IF current THEN 0 ELSE pending
      /\ conn' = IF current /\ r.with = "ok" THEN a ELSE conn
      /\ Tell(IF stale THEN <<Message("disconnect", a)>> ELSE <<>>)
      /\ UNCHANGED <<alive, slot, input, cards, calls, main>>
  BY DEF ConnectReply
<1>3. /\ toMain' \in Seq(Asks) /\ Once(toMain')
      /\ \A m : In(toMain', m) <=> In(toMain, m) \/ (stale /\ m = Message("disconnect", a))
  <2>1. CASE stale
    BY <1>1, <1>2, <2>1, OneSent, AsksAre, MessageFields DEF PhaseInv
  <2>2. CASE ~stale
    BY <1>2, <2>2, NoneSent DEF PhaseInv, TypeOK
  <2>. QED
    BY <2>1, <2>2
<1>. HIDE DEF r
<1>4. TypeOK'
  BY <1>1, <1>2, <1>3 DEF TypeOK, main, connects
<1>5. current => pending # 0 /\ conn = 0 /\ state = "connecting"
  BY <1>1, NoZero DEF TabInv
<1>6. TabInv'
  BY <1>1, <1>2, <1>5, NoZero DEF TabInv
<1>7. \A c, w : In(toWindow, Answer("answer", c, w)) => In(toWindow', Answer("answer", c, w))
  BY <1>1, Apart
<1>8. MadeInv' /\ CallInv'
  BY <1>1, <1>2, <1>3, <1>7, Apart DEF MadeInv, Made, CallInv, Waits, main, connects
<1>9. PhaseInv'
  BY <1>1, <1>2, <1>3, Apart DEF PhaseInv, main, connects
<1>10. QuestionInv'
  <2>1. \A c \in elicits : c \in Calls /\ calls[c].on # 0
    BY DEF TypeOK, MadeInv
  <2>2. \A c : In(toWindow, Message("elicitation", c)) => In(toWindow', Message("elicitation", c))
    BY <1>1, Apart
  <2>. QED
    BY <1>1, <1>2, <1>3, <1>5, <2>1, <2>2 DEF QuestionInv, Pursued, main, connects
<1>11. OpenInv'
  <2>. SUFFICES ASSUME NEW b \in Attempts, phase[b] = "open" PROVE Kept(b)'
    BY <1>2 DEF OpenInv, main, connects
  <2>1. CASE r = Answer("connected", b, "ok")
    <3>1. a = b /\ r.with = "ok"
      BY <1>1, <2>1, Apart
    <3>. QED
      BY <1>2, <1>3, <3>1 DEF Kept
  <2>2. CASE r # Answer("connected", b, "ok")
    BY <1>1, <1>2, <1>3, <1>5, <2>2, NoZero DEF OpenInv, Kept, main, connects
  <2>. QED
    BY <2>1, <2>2
<1>12. HttpInv'
  <2>1. conn' = conn \/ (conn' = a /\ r = Answer("connected", a, "ok"))
    BY <1>1, <1>2
  <2>2. \A b : ClosedIn(toWindow, b) => ClosedIn(toWindow', b)
    BY <1>1, Apart DEF ClosedIn
  <2>3. \A b : In(toWindow', Answer("connected", b, "ok")) => In(toWindow, Answer("connected", b, "ok"))
    BY <1>1
  <2>4. In(toWindow, r)
    BY <1>1
  <2>5. ASSUME transport = "http", NEW b \in Attempts, conn' = b
        PROVE  /\ b \notin dropped \cup pendingConnects /\ phase[b] \in {"open", "closing", "gone"}
               /\ phase[b] = "gone" => ClosedIn(toWindow', b)
    BY <1>1, <2>1, <2>2, <2>4, <2>5 DEF HttpInv
  <2>6. ASSUME transport = "http", NEW b \in Attempts
        PROVE  /\ In(toWindow', Answer("connected", b, "ok")) =>
                    b \notin dropped \cup pendingConnects /\ phase[b] \in {"open", "closing", "gone"}
               /\ phase[b] = "gone" => Ordered(toWindow', b)
    BY <1>1, <2>3, <2>6 DEF HttpInv
  <2>7. transport = "http" => trusting = {}
    BY DEF HttpInv
  <2>. QED
    BY <1>2, <2>5, <2>6, <2>7 DEF HttpInv, main, connects
<1>. QED
  BY <1>4, <1>6, <1>8, <1>9, <1>10, <1>11, <1>12

(* A close takes the tab's connection, which is gone.                      *)
LEMMA ClosedArrivesKeeps == ASSUME SessionInv, ClosedArrives PROVE SessionInv'
<1>. USE DEF SessionInv
<1>. DEFINE r == Head(toWindow)
            a == r.of
            mine == conn # 0 /\ conn = a
<1>1. /\ toWindow' \in Seq(Tells) /\ a \in Attempts /\ r.with \in {"reason", "none"}
      /\ r = Answer("closed", a, r.with)
      /\ \A m : In(toWindow, m) <=> m = r \/ In(toWindow', m)
      /\ \A b : Ordered(toWindow, b) => Ordered(toWindow', b)
  BY DeliveredToWindow, TellIs DEF ClosedArrives
<1>2. /\ mine => state' \in {"error", "disconnected"} /\ DisconnectedPatch
      /\ ~mine => UNCHANGED tabVars
      /\ UNCHANGED <<alive, calls, toMain, main>>
  BY DEF ClosedArrives
<1>3. phase[a] = "gone"
  BY <1>1 DEF PhaseInv
<1>. HIDE DEF r
<1>4. TypeOK'
  BY <1>1, <1>2 DEF TypeOK, main, connects, tabVars, DisconnectedPatch
<1>5. TabInv'
  BY <1>2 DEF TabInv, tabVars, DisconnectedPatch
<1>6. /\ \A c, w : In(toWindow, Answer("answer", c, w)) => In(toWindow', Answer("answer", c, w))
      /\ \A c : In(toWindow, Message("elicitation", c)) => In(toWindow', Message("elicitation", c))
      /\ \A b : In(toWindow, Answer("connected", b, "ok")) => In(toWindow', Answer("connected", b, "ok"))
  BY <1>1, Apart
<1>7. MadeInv' /\ CallInv'
  BY <1>1, <1>2, <1>6 DEF MadeInv, Made, CallInv, Waits, main, connects, tabVars, DisconnectedPatch
<1>8. PhaseInv'
  BY <1>1, <1>2 DEF PhaseInv, main, connects
<1>9. QuestionInv'
  <2>1. \A c \in elicits : c \in Calls /\ phase[calls[c].on] = "open"
    BY DEF TypeOK, PhaseInv
  <2>. QED
    BY <1>1, <1>2, <1>3, <1>6, <2>1 DEF QuestionInv, Pursued, main, connects, tabVars
<1>10. OpenInv'
  BY <1>1, <1>2, <1>3, <1>6 DEF OpenInv, Kept, main, connects, tabVars
<1>11. HttpInv'
  <2>1. conn' # 0 => conn' = conn /\ conn # a
    BY <1>2 DEF DisconnectedPatch, tabVars
  <2>2. \A b \in Attempts : b # a /\ ClosedIn(toWindow, b) => ClosedIn(toWindow', b)
    BY <1>1, Apart DEF ClosedIn
  <2>3. \A b \in Attempts : b # 0
    BY NoZero
  <2>. QED
    BY <1>1, <1>2, <2>1, <2>2, <2>3 DEF HttpInv, main, connects
<1>. QED
  BY <1>4, <1>5, <1>7, <1>8, <1>9, <1>10, <1>11

(* An answer puts its call among the checks.                               *)
LEMMA CallReplyKeeps == ASSUME SessionInv, CallReply PROVE SessionInv'
<1>. USE DEF SessionInv
<1>. DEFINE r == Head(toWindow)
            c == r.of
<1>1. /\ toWindow' \in Seq(Tells) /\ c \in Calls /\ r.with \in {"ok", "error", "input", "cancelled"}
      /\ r = Answer("answer", c, r.with)
      /\ \A m : In(toWindow, m) <=> m = r \/ In(toWindow', m)
      /\ \A b : Ordered(toWindow, b) => Ordered(toWindow', b)
  BY DeliveredToWindow, TellIs DEF CallReply
<1>2. /\ calls' = [calls EXCEPT ![c].at = "checks", ![c].reply = r.with]
      /\ UNCHANGED <<tabVars, alive, toMain, main>>
  BY DEF CallReply
<1>. HIDE DEF r
<1>3. calls' \in [Calls -> [kind : CallKinds, on : {0} \cup Attempts,
                            at : {"none", "scripts", "asked", "checks", "over"},
                            reply : {"none", "ok", "error", "input", "cancelled"},
                            retry : BOOLEAN]]
  <2>1. [calls[c] EXCEPT !.at = "checks", !.reply = r.with] \in
           [kind : CallKinds, on : {0} \cup Attempts,
            at : {"none", "scripts", "asked", "checks", "over"},
            reply : {"none", "ok", "error", "input", "cancelled"}, retry : BOOLEAN]
    BY <1>1 DEF TypeOK
  <2>. QED
    BY <1>1, <1>2, <2>1 DEF TypeOK
<1>4. TypeOK'
  BY <1>1, <1>2, <1>3 DEF TypeOK, main, connects, tabVars
<1>5. /\ \A d \in Calls : d # c => calls'[d] = calls[d]
      /\ calls'[c].on = calls[c].on /\ calls'[c].kind = calls[c].kind /\ calls'[c].at = "checks"
  BY <1>1, <1>2 DEF TypeOK
<1>6. /\ \A d, w : d # c /\ In(toWindow, Answer("answer", d, w)) => In(toWindow', Answer("answer", d, w))
      /\ \A d : In(toWindow, Message("elicitation", d)) => In(toWindow', Message("elicitation", d))
      /\ \A b : In(toWindow, Answer("connected", b, "ok")) => In(toWindow', Answer("connected", b, "ok"))
      /\ \A b, w : In(toWindow, Answer("closed", b, w)) => In(toWindow', Answer("closed", b, w))
  BY <1>1, Apart
<1>7. Made(c)
  BY <1>1 DEF MadeInv
<1>8. \A d \in Calls : calls'[d].on = calls[d].on /\ calls'[d].kind = calls[d].kind /\ (Made(d) <=> Made(d)')
  BY <1>5, <1>7 DEF Made
<1>9. TabInv'
  <2>1. \A k \in CallKinds : slot[k] # 0 => slot[k] \in Calls
    BY DEF TypeOK
  <2>. QED
    BY <1>2, <1>8, <2>1 DEF TabInv, tabVars, Made
<1>10. MadeInv'
  <2>1. \A d \in requests \cup inflight \cup elicits : d \in Calls
    BY DEF TypeOK
  <2>. QED
    BY <1>1, <1>2, <1>8, <2>1 DEF MadeInv, main, connects
<1>11. CallInv'
  <2>. SUFFICES ASSUME NEW j \in CallKinds, slot'[j] # 0
                PROVE  calls'[slot'[j]].at \in {"scripts", "checks"} \/ Waits(slot[j])'
    BY DEF CallInv
  <2>1. slot'[j] = slot[j] /\ slot[j] \in Calls
    BY <1>2 DEF tabVars, TypeOK
  <2>2. CASE slot[j] = c
    BY <1>5, <2>1, <2>2
  <2>3. CASE slot[j] # c
    BY <1>2, <1>5, <1>6, <2>1, <2>3 DEF CallInv, Waits, main, connects
  <2>. QED
    BY <2>2, <2>3
<1>12. PhaseInv' /\ QuestionInv'
  <2>1. \A d \in inflight \cup elicits : d \in Calls
    BY DEF TypeOK
  <2>. QED
    BY <1>1, <1>2, <1>6, <1>8, <2>1 DEF PhaseInv, QuestionInv, Pursued, main, connects, tabVars
<1>13. OpenInv' /\ HttpInv'
  BY <1>1, <1>2, <1>6 DEF OpenInv, Kept, HttpInv, ClosedIn, main, connects, tabVars
<1>. QED
  BY <1>4, <1>9, <1>10, <1>11, <1>12, <1>13

(* A question has its card, or is cancelled.                               *)
LEMMA ElicitationArrivesKeeps == ASSUME SessionInv, ElicitationArrives PROVE SessionInv'
<1>. USE DEF SessionInv
<1>. DEFINE r == Head(toWindow)
            c == r.of
            owned == conn # 0 /\ conn = calls[c].on
<1>1. /\ toWindow' \in Seq(Tells) /\ c \in Calls /\ r = Message("elicitation", c)
      /\ \A m : In(toWindow, m) <=> m = r \/ In(toWindow', m)
      /\ \A b : Ordered(toWindow, b) => Ordered(toWindow', b)
  BY DeliveredToWindow, TellIs DEF ElicitationArrives
<1>2. /\ cards' = IF owned THEN cards \cup {[call |-> c, sending |-> FALSE]} ELSE cards
      /\ Tell(IF owned THEN <<>> ELSE <<Message("cancelElicitation", c)>>)
      /\ UNCHANGED <<state, alive, pending, conn, slot, input, calls, main>>
  BY DEF ElicitationArrives
<1>3. /\ toMain' \in Seq(Asks) /\ Once(toMain')
      /\ \A m : In(toMain', m) <=> In(toMain, m) \/ (~owned /\ m = Message("cancelElicitation", c))
  <2>1. CASE ~owned
    BY <1>1, <1>2, <2>1, OneSent, AsksAre, MessageFields DEF PhaseInv
  <2>2. CASE owned
    BY <1>2, <2>2, NoneSent DEF PhaseInv, TypeOK
  <2>. QED
    BY <2>1, <2>2
<1>. HIDE DEF r
<1>4. cards' \subseteq [call : Calls, sending : BOOLEAN]
  <2>1. [call |-> c, sending |-> FALSE] \in [call : Calls, sending : BOOLEAN]
    BY <1>1
  <2>. QED
    BY <1>2, <2>1 DEF TypeOK
<1>5. TypeOK'
  BY <1>1, <1>2, <1>3, <1>4 DEF TypeOK, main, connects
<1>6. /\ \A d, w : In(toWindow, Answer("answer", d, w)) => In(toWindow', Answer("answer", d, w))
      /\ \A d : d # c /\ In(toWindow, Message("elicitation", d)) => In(toWindow', Message("elicitation", d))
      /\ \A b : In(toWindow, Answer("connected", b, "ok")) => In(toWindow', Answer("connected", b, "ok"))
      /\ \A b, w : In(toWindow, Answer("closed", b, w)) => In(toWindow', Answer("closed", b, w))
  BY <1>1, Apart
<1>7. TabInv' /\ MadeInv' /\ CallInv'
  BY <1>1, <1>2, <1>3, <1>6, Apart DEF TabInv, MadeInv, Made, CallInv, Waits, main, connects
<1>8. PhaseInv'
  BY <1>1, <1>2, <1>3, Apart DEF PhaseInv, main, connects
<1>9. /\ CardIds(cards) \subseteq CardIds(cards')
      /\ owned => c \in CardIds(cards')
  <2>. DEFINE new == [call |-> c, sending |-> FALSE]
  <2>1. new.call = c /\ cards' = IF owned THEN cards \cup {new} ELSE cards
    BY <1>2
  <2>. HIDE DEF new
  <2>. QED
    BY <2>1 DEF CardIds
<1>10. QuestionInv'
  <2>. SUFFICES ASSUME NEW d \in elicits
                PROVE  Pursued(d)' /\ ~In(toWindow', Message("elicited", d))
    BY <1>2 DEF QuestionInv, main
  <2>1. ~In(toWindow', Message("elicited", d))
    BY <1>1 DEF QuestionInv
  <2>2. Pursued(d)'
    BY <1>2, <1>3, <1>6, <1>9 DEF QuestionInv, Pursued
  <2>. QED
    BY <2>1, <2>2
<1>11. OpenInv' /\ HttpInv'
  BY <1>1, <1>2, <1>3, <1>6 DEF OpenInv, Kept, HttpInv, ClosedIn, main, connects
<1>. QED
  BY <1>5, <1>7, <1>8, <1>10, <1>11

(* An answer that was given takes the card; its question is closed.        *)
LEMMA ElicitationReplyKeeps == ASSUME SessionInv, ElicitationReply PROVE SessionInv'
<1>. USE DEF SessionInv
<1>. DEFINE r == Head(toWindow)
            c == r.of
<1>1. /\ toWindow' \in Seq(Tells) /\ c \in Calls /\ r = Message("elicited", c)
      /\ \A m : In(toWindow, m) <=> m = r \/ In(toWindow', m)
      /\ \A b : Ordered(toWindow, b) => Ordered(toWindow', b)
  BY DeliveredToWindow, TellIs DEF ElicitationReply
<1>2. /\ cards' \subseteq cards /\ \A x \in cards : x.call # c => x \in cards'
      /\ UNCHANGED <<state, alive, pending, conn, slot, input, calls, toMain, main>>
  BY DEF ElicitationReply
<1>3. c \notin elicits
  BY <1>1 DEF QuestionInv
<1>. HIDE DEF r
<1>4. TypeOK'
  BY <1>1, <1>2 DEF TypeOK, main, connects
<1>5. /\ \A d, w : In(toWindow, Answer("answer", d, w)) => In(toWindow', Answer("answer", d, w))
      /\ \A d : In(toWindow, Message("elicitation", d)) => In(toWindow', Message("elicitation", d))
      /\ \A b : In(toWindow, Answer("connected", b, "ok")) => In(toWindow', Answer("connected", b, "ok"))
      /\ \A b, w : In(toWindow, Answer("closed", b, w)) => In(toWindow', Answer("closed", b, w))
  BY <1>1, Apart
<1>6. TabInv' /\ MadeInv' /\ CallInv'
  BY <1>1, <1>2, <1>5 DEF TabInv, MadeInv, Made, CallInv, Waits, main, connects
<1>7. PhaseInv'
  BY <1>1, <1>2 DEF PhaseInv, main, connects
<1>8. \A d \in CardIds(cards) : d # c => d \in CardIds(cards')
  BY <1>2 DEF CardIds
<1>9. QuestionInv'
  BY <1>1, <1>2, <1>3, <1>5, <1>8 DEF QuestionInv, Pursued, main, connects
<1>10. OpenInv' /\ HttpInv'
  BY <1>1, <1>2, <1>5 DEF OpenInv, Kept, HttpInv, ClosedIn, main, connects
<1>. QED
  BY <1>4, <1>6, <1>7, <1>9, <1>10

-----------------------------------------------------------------------------
(* The engine: connections.                                                *)

LEMMA MainConnectKeeps == ASSUME SessionInv, MainConnect PROVE SessionInv'
<1>. USE DEF SessionInv
<1>. DEFINE a == Head(toMain).of
<1>1. /\ toMain' \in Seq(Asks) /\ Once(toMain')
      /\ Head(toMain) = Message("connect", a) /\ a \in Attempts
      /\ \A m : In(toMain, m) <=> m = Message("connect", a) \/ In(toMain', m)
      /\ ~In(toMain', Message("connect", a))
  BY ReceivedByMain, AskIs DEF MainConnect, PhaseInv
<1>2. /\ phase' = [phase EXCEPT ![a] = "handshake"]
      /\ pendingConnects' = pendingConnects \cup {a}
      /\ UNCHANGED <<window, toWindow, transport, modern, dropped, trusting, requests, inflight, elicits>>
  BY DEF MainConnect
<1>. HIDE DEF a
<1>3. /\ phase[a] = "none" /\ phase'[a] = "handshake" /\ \A b \in Attempts : b # a => phase'[b] = phase[b]
  BY <1>1, <1>2 DEF PhaseInv, TypeOK
<1>4. TypeOK'
  BY <1>1, <1>2 DEF TypeOK, window, tabVars
<1>5. \A op, of : op # "connect" => (In(toMain, Message(op, of)) <=> In(toMain', Message(op, of)))
  BY <1>1, Apart
<1>6. TabInv' /\ MadeInv' /\ CallInv'
  BY <1>2, <1>5 DEF TabInv, MadeInv, Made, CallInv, Waits, window, tabVars
<1>7. \A c \in inflight \cup elicits : calls[c].on \in Attempts
  BY DEF MadeInv, Made, TypeOK
<1>8. PhaseInv'
  BY <1>1, <1>2, <1>3, <1>7 DEF PhaseInv, window
<1>9. QuestionInv' /\ OpenInv'
  BY <1>2, <1>3, <1>5 DEF QuestionInv, Pursued, OpenInv, Kept, window, tabVars
<1>10. HttpInv'
  BY <1>2, <1>3 DEF HttpInv, window, tabVars
<1>. QED
  BY <1>4, <1>6, <1>8, <1>9, <1>10

(* A connection is made, or its attempt was cancelled.                     *)
LEMMA EstablishedKeeps ==
    ASSUME SessionInv, NEW a \in Attempts, phase[a] \in {"handshake", "listening"}, Established(a),
           modern' \subseteq Attempts,
           UNCHANGED <<window, toMain, transport, dropped, requests, inflight, elicits>>
    PROVE  SessionInv'
<1>. USE DEF SessionInv
<1>. DEFINE ok == a \notin dropped
            told == ~ok \/ transport # "stdio"
            x == Answer("connected", a, IF ok THEN "ok" ELSE "failed")
<1>1. /\ phase' = [phase EXCEPT ![a] = IF ok THEN "open" ELSE "gone"]
      /\ pendingConnects' = pendingConnects \ {a}
      /\ trusting' = IF ok /\ transport = "stdio" THEN trusting \cup {a} ELSE trusting
      /\ Post(IF told THEN <<x>> ELSE <<>>)
  BY DEF Established
<1>2. x \in Tells /\ \A b : x = Answer("connected", b, "ok") => b = a /\ ok
  BY TellsAre, Apart
<1>3. \A o, f : x # Message(o, f) \/ o = "connected"
  BY MessageFields
<1>4. \A o, f, w : x # Answer(o, f, w) \/ o = "connected"
  BY MessageFields
<1>5. told /\ ok => x = Answer("connected", a, "ok")
  OBVIOUS
<1>. HIDE DEF x
<1>6. /\ toWindow' \in Seq(Tells)
      /\ \A m : In(toWindow', m) <=> In(toWindow, m) \/ (told /\ m = x)
      /\ \A b : Ordered(toWindow, b) /\ (told => x # Answer("connected", b, "ok")) => Ordered(toWindow', b)
  <2>1. CASE told
    BY <1>1, <1>2, <2>1, OnePosted
  <2>2. CASE ~told
    BY <1>1, <2>2, NonePosted DEF TypeOK
  <2>. QED
    BY <2>1, <2>2
<1>7. /\ phase'[a] = IF ok THEN "open" ELSE "gone"
      /\ \A b \in Attempts : b # a => phase'[b] = phase[b]
      /\ phase' \in [Attempts -> {"none", "handshake", "listening", "open", "closing", "gone"}]
  BY <1>1 DEF TypeOK
<1>. HIDE DEF ok
<1>8. TypeOK'
  BY <1>1, <1>6, <1>7 DEF TypeOK, window, tabVars
<1>. HIDE DEF told
<1>9. TabInv' /\ CallInv'
  BY <1>6 DEF TabInv, CallInv, Waits, window, tabVars
<1>10. MadeInv'
  BY <1>4, <1>6 DEF MadeInv, Made, window
<1>11. PhaseInv'
  <2>1. \A c \in inflight \cup elicits : phase[calls[c].on] = "open" /\ calls[c].on \in Attempts
    BY DEF MadeInv, Made, TypeOK, PhaseInv
  <2>2. \A c \in inflight \cup elicits : phase'[calls[c].on] = "open"
    BY <1>7, <2>1
  <2>3. \A b \in Attempts : In(toMain, Message("connect", b)) => phase'[b] = "none"
    BY <1>7 DEF PhaseInv
  <2>4. \A b \in Attempts, w \in {"reason", "none"} : In(toWindow', Answer("closed", b, w)) => phase'[b] = "gone"
    BY <1>4, <1>6, <1>7 DEF PhaseInv
  <2>5. \A b \in pendingConnects' : phase'[b] \in {"handshake", "listening"}
    BY <1>1, <1>7 DEF PhaseInv, TypeOK
  <2>. QED
    BY <2>2, <2>3, <2>4, <2>5 DEF PhaseInv, window
<1>12. QuestionInv'
  BY <1>3, <1>6 DEF QuestionInv, Pursued, window, tabVars
<1>13. OpenInv'
  <2>. SUFFICES ASSUME NEW b \in Attempts, phase'[b] = "open" PROVE Kept(b)'
    BY DEF OpenInv
  <2>1. CASE b # a
    BY <1>1, <1>6, <1>7, <2>1 DEF OpenInv, Kept, window, tabVars
  <2>2. CASE b = a
    BY <1>1, <1>5, <1>6, <1>7, <2>2 DEF Kept, told
  <2>. QED
    BY <2>1, <2>2
<1>14. HttpInv'
  <2>. SUFFICES ASSUME transport = "http"
                PROVE  /\ trusting' = {}
                       /\ \A b \in Attempts : conn = b \/ In(toWindow', Answer("connected", b, "ok")) =>
                             /\ b \notin dropped \cup pendingConnects'
                             /\ phase'[b] \in {"open", "closing", "gone"}
                       /\ \A b \in Attempts : phase'[b] = "gone" =>
                             Ordered(toWindow', b) /\ (conn = b => ClosedIn(toWindow', b))
    BY DEF HttpInv, window, tabVars
  <2>0. conn # a /\ ~In(toWindow, Answer("connected", a, "ok"))
    BY DEF HttpInv
  <2>1. trusting' = {}
    BY <1>1 DEF HttpInv
  <2>2. ASSUME NEW b \in Attempts, conn = b \/ In(toWindow', Answer("connected", b, "ok"))
        PROVE  b \notin dropped \cup pendingConnects' /\ phase'[b] \in {"open", "closing", "gone"}
    <3>1. CASE b = a
      BY <1>1, <1>2, <1>6, <1>7, <2>0, <2>2, <3>1 DEF ok
    <3>2. CASE b # a
      BY <1>1, <1>2, <1>6, <1>7, <2>2, <3>2 DEF HttpInv
    <3>. QED
      BY <3>1, <3>2
  <2>3. ASSUME NEW b \in Attempts, phase'[b] = "gone"
        PROVE  Ordered(toWindow', b) /\ (conn = b => ClosedIn(toWindow', b))
    <3>1. CASE b = a
      BY <1>2, <1>6, <1>7, <2>0, <2>3, <3>1, OrderedWithout
    <3>2. CASE b # a
      BY <1>2, <1>6, <1>7, <2>3, <3>2 DEF HttpInv, ClosedIn
    <3>. QED
      BY <3>1, <3>2
  <2>. QED
    BY <2>1, <2>2, <2>3
<1>. QED
  BY <1>8, <1>9, <1>10, <1>11, <1>12, <1>13, <1>14

LEMMA ListeningKeeps == ASSUME SessionInv, NEW a \in Attempts, Listening(a) PROVE SessionInv'
<1>1. /\ phase[a] \in {"handshake", "listening"} /\ Established(a)
      /\ UNCHANGED <<window, toMain, transport, dropped, requests, inflight, elicits>>
      /\ UNCHANGED modern
  BY DEF Listening
<1>2. modern' \subseteq Attempts
  BY <1>1 DEF SessionInv, TypeOK
<1>. QED
  BY <1>1, <1>2, EstablishedKeeps

LEMMA HandshakeDoneKeeps ==
    ASSUME SessionInv, NEW a \in Attempts, NEW era, HandshakeDone(a, era)
    PROVE  SessionInv'
<1>. USE DEF SessionInv
<1>1. /\ phase[a] = "handshake" /\ modern' \subseteq Attempts
      /\ UNCHANGED <<window, toMain, transport, dropped, requests, inflight, elicits>>
  BY DEF HandshakeDone, TypeOK
<1>2. CASE era # "listens"
  BY <1>1, <1>2, EstablishedKeeps DEF HandshakeDone
<1>3. CASE era = "listens"
  <2>1. /\ phase' = [phase EXCEPT ![a] = "listening"]
        /\ UNCHANGED <<pendingConnects, trusting, toWindow>>
    BY <1>3 DEF HandshakeDone
  <2>2. phase'[a] = "listening" /\ \A b \in Attempts : b # a => phase'[b] = phase[b]
    BY <2>1 DEF TypeOK
  <2>3. TypeOK'
    BY <1>1, <2>1 DEF TypeOK, window, tabVars
  <2>4. TabInv' /\ MadeInv' /\ CallInv' /\ QuestionInv'
    BY <1>1, <2>1 DEF TabInv, MadeInv, Made, CallInv, Waits, QuestionInv, Pursued, window, tabVars
  <2>5. \A c \in inflight \cup elicits : calls[c].on \in Attempts
    BY DEF MadeInv, Made, TypeOK
  <2>6. PhaseInv'
    BY <1>1, <2>1, <2>2, <2>5 DEF PhaseInv, window, TypeOK
  <2>7. OpenInv' /\ HttpInv'
    BY <1>1, <2>1, <2>2 DEF OpenInv, Kept, HttpInv, window, tabVars
  <2>. QED
    BY <2>3, <2>4, <2>6, <2>7
<1>. QED
  BY <1>2, <1>3

LEMMA HandshakeFailsKeeps == ASSUME SessionInv, NEW a \in Attempts, HandshakeFails(a) PROVE SessionInv'
<1>. USE DEF SessionInv
<1>. DEFINE x == Answer("connected", a, "failed")
<1>1. /\ phase[a] = "handshake" /\ phase' = [phase EXCEPT ![a] = "gone"]
      /\ pendingConnects' = pendingConnects \ {a}
      /\ Post(<<x>>)
      /\ UNCHANGED <<window, toMain, transport, modern, dropped, trusting, requests, inflight, elicits>>
  BY DEF HandshakeFails
<1>2. x \in Tells /\ \A b : x # Answer("connected", b, "ok")
  BY TellsAre, Apart
<1>3. /\ \A o, f : x # Message(o, f) \/ o = "connected"
      /\ \A o, f, w : x # Answer(o, f, w) \/ o = "connected"
  BY MessageFields
<1>. HIDE DEF x
<1>4. /\ toWindow' \in Seq(Tells)
      /\ \A m : In(toWindow', m) <=> In(toWindow, m) \/ m = x
      /\ \A b : Ordered(toWindow, b) => Ordered(toWindow', b)
  BY <1>1, <1>2, OnePosted
<1>5. /\ phase'[a] = "gone" /\ \A b \in Attempts : b # a => phase'[b] = phase[b]
  BY <1>1 DEF TypeOK
<1>6. TypeOK'
  BY <1>1, <1>4 DEF TypeOK, window, tabVars
<1>7. TabInv' /\ MadeInv' /\ CallInv' /\ QuestionInv'
  BY <1>1, <1>3, <1>4 DEF TabInv, MadeInv, Made, CallInv, Waits, QuestionInv, Pursued, window, tabVars
<1>8. \A c \in inflight \cup elicits : calls[c].on \in Attempts
  BY DEF MadeInv, Made, TypeOK
<1>9. PhaseInv'
  BY <1>1, <1>3, <1>4, <1>5, <1>8 DEF PhaseInv, window, TypeOK
<1>10. OpenInv'
  BY <1>1, <1>4, <1>5 DEF OpenInv, Kept, window, tabVars
<1>11. HttpInv'
  <2>1. transport = "http" => conn # a /\ ~In(toWindow', Answer("connected", a, "ok"))
    BY <1>1, <1>2, <1>4 DEF HttpInv
  <2>. QED
    BY <1>1, <1>2, <1>4, <1>5, <2>1, OrderedWithout DEF HttpInv, ClosedIn, window, tabVars
<1>. QED
  BY <1>6, <1>7, <1>9, <1>10, <1>11

LEMMA TrustedKeeps == ASSUME SessionInv, NEW a \in Attempts, Trusted(a) PROVE SessionInv'
<1>. USE DEF SessionInv
<1>. DEFINE x == Answer("connected", a, "ok")
<1>1. /\ a \in trusting /\ trusting' = trusting \ {a} /\ Post(<<x>>)
      /\ UNCHANGED <<window, toMain, transport, phase, modern, pendingConnects, dropped,
                   requests, inflight, elicits>>
  BY DEF Trusted
<1>2. x \in Tells
  BY TellsAre
<1>3. /\ \A o, f : x # Message(o, f) \/ o = "connected"
      /\ \A o, f, w : x # Answer(o, f, w) \/ o = "connected"
  BY MessageFields
<1>4. /\ toWindow' \in Seq(Tells)
      /\ \A m : In(toWindow', m) <=> In(toWindow, m) \/ m = x
  BY <1>1, <1>2, OnePosted
<1>5. OpenInv'
  BY <1>1, <1>4 DEF OpenInv, Kept, window, tabVars
<1>. HIDE DEF x
<1>6. TypeOK'
  BY <1>1, <1>4 DEF TypeOK, window, tabVars
<1>7. TabInv' /\ MadeInv' /\ CallInv' /\ QuestionInv'
  BY <1>1, <1>3, <1>4 DEF TabInv, MadeInv, Made, CallInv, Waits, QuestionInv, Pursued, window, tabVars
<1>8. PhaseInv'
  BY <1>1, <1>3, <1>4 DEF PhaseInv, window
<1>9. HttpInv'
  BY <1>1 DEF HttpInv
<1>. QED
  BY <1>5, <1>6, <1>7, <1>8, <1>9

LEMMA MainCancelConnectKeeps == ASSUME SessionInv, MainCancelConnect PROVE SessionInv'
<1>. USE DEF SessionInv
<1>. DEFINE a == Head(toMain).of
<1>1. /\ toMain' \in Seq(Asks) /\ Once(toMain')
      /\ Head(toMain) = Message("cancelConnect", a) /\ a \in Attempts
      /\ \A m : In(toMain, m) <=> m = Message("cancelConnect", a) \/ In(toMain', m)
  BY ReceivedByMain, AskIs DEF MainCancelConnect, PhaseInv
<1>2. /\ pendingConnects' = pendingConnects \ {a}
      /\ dropped' = IF a \in pendingConnects THEN dropped \cup {a} ELSE dropped
      /\ UNCHANGED <<window, toWindow, transport, phase, modern, trusting, requests, inflight, elicits>>
  BY DEF MainCancelConnect
<1>. HIDE DEF a
<1>3. TypeOK'
  BY <1>1, <1>2 DEF TypeOK, window, tabVars
<1>4. \A op, of : op # "cancelConnect" => (In(toMain, Message(op, of)) <=> In(toMain', Message(op, of)))
  BY <1>1, Apart
<1>5. TabInv' /\ MadeInv' /\ CallInv' /\ PhaseInv'
  BY <1>1, <1>2, <1>4 DEF TabInv, MadeInv, Made, CallInv, Waits, PhaseInv, window, tabVars
<1>6. QuestionInv' /\ OpenInv'
  BY <1>2, <1>4 DEF QuestionInv, Pursued, OpenInv, Kept, window, tabVars
<1>7. HttpInv'
  BY <1>2 DEF HttpInv, window, tabVars
<1>. QED
  BY <1>3, <1>5, <1>6, <1>7

(* A connection that is closed takes its questions with it and answers its *)
(* calls.                                                                  *)
LEMMA HandleCloseKeeps ==
    ASSUME SessionInv, NEW a \in Attempts, phase[a] \in {"open", "closing"},
           NEW why \in {"reason", "none"}, HandleClose(a, why),
           inflight' = inflight \ CallsOn(a), elicits' = elicits \ CallsOn(a),
           UNCHANGED <<window, toMain, transport, modern, pendingConnects, dropped, trusting>>
    PROVE  SessionInv'
<1>. USE DEF SessionInv
<1>. DEFINE R == requests \cap CallsOn(a)
            x == Answer("closed", a, why)
<1>1. PICK q \in SetToSeqs({Answer("answer", c, "error") : c \in R}) : Post(<<x>> \o q)
  BY DEF HandleClose
<1>2. /\ phase' = [phase EXCEPT ![a] = "gone"] /\ requests' = requests \ CallsOn(a)
  BY DEF HandleClose
<1>3. R \subseteq Calls
  BY DEF TypeOK
<1>4. q \in Seq(Tells) /\ \A m : In(q, m) <=> \E c \in R : m = Answer("answer", c, "error")
  BY <1>3, CallsFailed
<1>5. x \in Tells
  BY TellsAre
<1>. HIDE DEF R, x
<1>. DEFINE s == <<x>> \o q
<1>6. s \in Seq(Tells) /\ \A m : In(s, m) <=> m = x \/ \E c \in R : m = Answer("answer", c, "error")
  BY <1>4, <1>5, InOne, InJoined
<1>7. Post(s)
  BY <1>1
<1>. HIDE DEF s
<1>8. ClosedIn(s, a)
  BY <1>6 DEF ClosedIn, x
<1>9. /\ \A o, f : ~In(s, Message(o, f)) \/ o \in {"closed", "answer"}
      /\ \A b, w : ~In(s, Answer("connected", b, w))
      /\ \A b, w : In(s, Answer("closed", b, w)) => b = a
      /\ \A c, w : In(s, Answer("answer", c, w)) => c \in R
  BY <1>6, Apart DEF x
<1>10. /\ toWindow' \in Seq(Tells)
       /\ \A m : In(toWindow', m) <=> In(toWindow, m) \/ In(s, m)
       /\ \A b : Ordered(toWindow, b) => Ordered(toWindow', b)
       /\ Ordered(toWindow', a)
  BY <1>6, <1>7, <1>8, <1>9, PostedToWindow
<1>11. /\ phase'[a] = "gone" /\ \A b \in Attempts : b # a => phase'[b] = phase[b]
  BY <1>2 DEF TypeOK
<1>12. TypeOK'
  BY <1>2, <1>10 DEF TypeOK, window, tabVars
<1>13. TabInv'
  BY DEF TabInv, window, tabVars
<1>14. CallInv'
  <2>. SUFFICES ASSUME NEW j \in CallKinds, slot[j] # 0
                PROVE  calls[slot[j]].at \in {"scripts", "checks"} \/ Waits(slot[j])'
    BY DEF CallInv, window, tabVars
  <2>1. CASE slot[j] \in R
    BY <1>6, <1>10, <2>1 DEF Waits, window, tabVars
  <2>2. CASE slot[j] \notin R
    BY <1>2, <1>10, <2>2 DEF CallInv, Waits, R, window, tabVars
  <2>. QED
    BY <2>1, <2>2
<1>15. MadeInv'
  <2>1. \A c \in R : Made(c) /\ c \in Calls
    BY <1>3 DEF MadeInv, R
  <2>. QED
    BY <1>2, <1>9, <1>10, <2>1 DEF MadeInv, Made, window
<1>16. \A c \in inflight' \cup elicits' : c \in Calls /\ calls[c].on \in Attempts /\ calls[c].on # a
  BY DEF MadeInv, Made, TypeOK, CallsOn
<1>17. PhaseInv'
  <2>1. \A c \in inflight' \cup elicits' : phase'[calls[c].on] = "open"
    BY <1>11, <1>16 DEF PhaseInv
  <2>2. \A b \in Attempts, w \in {"reason", "none"} : In(toWindow', Answer("closed", b, w)) => phase'[b] = "gone"
    BY <1>9, <1>10, <1>11 DEF PhaseInv
  <2>3. \A b \in Attempts : b # a => phase'[b] = phase[b]
    BY <1>11
  <2>4. /\ \A b \in Attempts : In(toMain, Message("connect", b)) => b # a
        /\ \A b \in pendingConnects : b # a /\ b \in Attempts
    BY DEF PhaseInv, TypeOK
  <2>. QED
    BY <2>1, <2>2, <2>3, <2>4 DEF PhaseInv, window
<1>18. QuestionInv'
  BY <1>9, <1>10 DEF QuestionInv, Pursued, window, tabVars
<1>19. OpenInv'
  BY <1>10, <1>11 DEF OpenInv, Kept, window, tabVars
<1>20. ClosedIn(toWindow', a) /\ \A b : ClosedIn(toWindow, b) => ClosedIn(toWindow', b)
  BY <1>8, <1>10 DEF ClosedIn
<1>21. \A b : In(toWindow', Answer("connected", b, "ok")) => In(toWindow, Answer("connected", b, "ok"))
  BY <1>9, <1>10
<1>22. HttpInv'
  BY <1>10, <1>11, <1>20, <1>21 DEF HttpInv, window, tabVars
<1>. QED
  BY <1>12, <1>13, <1>14, <1>15, <1>17, <1>18, <1>19, <1>22

LEMMA ServerClosesKeeps == ASSUME SessionInv, NEW a \in Attempts, ServerCloses(a) PROVE SessionInv'
<1>. USE DEF SessionInv
<1>1. UNCHANGED <<window, toMain, transport, modern, pendingConnects, trusting>>
  BY DEF ServerCloses
<1>2. CASE phase[a] = "open"
  <2>1. /\ inflight' = inflight \ CallsOn(a) /\ elicits' = elicits \ CallsOn(a)
        /\ HandleClose(a, "reason") /\ UNCHANGED dropped
    BY <1>2 DEF ServerCloses
  <2>. QED
    BY <1>1, <1>2, <2>1, HandleCloseKeeps
<1>3. CASE phase[a] # "open"
  <2>1. /\ phase[a] = "listening" /\ dropped' = dropped \cup {a}
        /\ UNCHANGED <<phase, requests, inflight, elicits, toWindow>>
    BY <1>3 DEF ServerCloses
  <2>2. TypeOK'
    BY <1>1, <2>1 DEF TypeOK, window, tabVars
  <2>3. TabInv' /\ MadeInv' /\ CallInv' /\ PhaseInv' /\ QuestionInv' /\ OpenInv'
    BY <1>1, <2>1 DEF TabInv, MadeInv, Made, CallInv, Waits, PhaseInv, QuestionInv, Pursued,
       OpenInv, Kept, window, tabVars
  <2>4. HttpInv'
    BY <1>1, <2>1 DEF HttpInv, window, tabVars
  <2>. QED
    BY <2>2, <2>3, <2>4
<1>. QED
  BY <1>2, <1>3

LEMMA ClosedKeeps == ASSUME SessionInv, NEW a \in Attempts, Closed(a) PROVE SessionInv'
<1>1. /\ phase[a] = "closing" /\ HandleClose(a, "none")
      /\ UNCHANGED <<window, toMain, transport, modern, pendingConnects, dropped, trusting,
                   inflight, elicits>>
  BY DEF Closed
<1>2. inflight \cap CallsOn(a) = {} /\ elicits \cap CallsOn(a) = {}
  BY <1>1 DEF SessionInv, PhaseInv, CallsOn
<1>3. inflight' = inflight \ CallsOn(a) /\ elicits' = elicits \ CallsOn(a)
  BY <1>1, <1>2
<1>. QED
  BY <1>1, <1>3, HandleCloseKeeps

LEMMA MainDisconnectKeeps == ASSUME SessionInv, MainDisconnect PROVE SessionInv'
<1>. USE DEF SessionInv
<1>. DEFINE a == Head(toMain).of
<1>1. /\ toMain' \in Seq(Asks) /\ Once(toMain')
      /\ Head(toMain) = Message("disconnect", a) /\ a \in Attempts
      /\ \A m : In(toMain, m) <=> m = Message("disconnect", a) \/ In(toMain', m)
  BY ReceivedByMain, AskIs DEF MainDisconnect, PhaseInv
<1>2. /\ IF phase[a] = "open"
         THEN /\ phase' = [phase EXCEPT ![a] = "closing"]
              /\ inflight' = inflight \ CallsOn(a) /\ elicits' = elicits \ CallsOn(a)
         ELSE UNCHANGED <<phase, inflight, elicits>>
      /\ UNCHANGED <<window, toWindow, transport, modern, pendingConnects, dropped, trusting, requests>>
  BY DEF MainDisconnect
<1>. HIDE DEF a
<1>3. /\ phase'[a] # "open" /\ (phase'[a] = phase[a] \/ (phase[a] = "open" /\ phase'[a] = "closing"))
      /\ \A b \in Attempts : b # a => phase'[b] = phase[b]
      /\ phase' \in [Attempts -> {"none", "handshake", "listening", "open", "closing", "gone"}]
  BY <1>1, <1>2 DEF TypeOK
<1>4. /\ inflight' \subseteq inflight /\ elicits' \subseteq elicits
      /\ \A c \in inflight' \cup elicits' : c \in Calls /\ calls[c].on \in Attempts /\ calls[c].on # a
  <2>1. \A c \in inflight \cup elicits : c \in Calls /\ calls[c].on \in Attempts /\ phase[calls[c].on] = "open"
    BY DEF MadeInv, Made, TypeOK, PhaseInv
  <2>. QED
    BY <1>2, <2>1 DEF CallsOn
<1>5. TypeOK'
  BY <1>1, <1>2, <1>3, <1>4 DEF TypeOK, window, tabVars
<1>6. \A op, of : op # "disconnect" => (In(toMain, Message(op, of)) <=> In(toMain', Message(op, of)))
  BY <1>1, Apart
<1>7. \A b : b # a => (In(toMain, Message("disconnect", b)) <=> In(toMain', Message("disconnect", b)))
  BY <1>1, Apart
<1>8. TabInv' /\ MadeInv' /\ CallInv'
  BY <1>2, <1>4, <1>6 DEF TabInv, MadeInv, Made, CallInv, Waits, window, tabVars
<1>9. PhaseInv'
  <2>1. \A c \in inflight' \cup elicits' : phase'[calls[c].on] = "open"
    BY <1>3, <1>4 DEF PhaseInv
  <2>2. /\ \A b \in Attempts : In(toMain', Message("connect", b)) => phase'[b] = "none"
        /\ \A b \in pendingConnects : phase'[b] \in {"handshake", "listening"}
        /\ \A b \in Attempts, w \in {"reason", "none"} : In(toWindow, Answer("closed", b, w)) => phase'[b] = "gone"
    BY <1>3, <1>6 DEF PhaseInv, TypeOK
  <2>. QED
    BY <1>1, <1>2, <2>1, <2>2 DEF PhaseInv, window
<1>10. QuestionInv'
  BY <1>2, <1>4, <1>6, <1>7 DEF QuestionInv, Pursued, window, tabVars
<1>11. OpenInv'
  BY <1>2, <1>3, <1>7 DEF OpenInv, Kept, window, tabVars
<1>12. HttpInv'
  BY <1>2, <1>3 DEF HttpInv, window, tabVars
<1>. QED
  BY <1>5, <1>8, <1>9, <1>10, <1>11, <1>12

-----------------------------------------------------------------------------
(* The engine: calls and elicitations.                                     *)

(* What is posted to the window about calls leaves connections alone.      *)
LEMMA PostedAboutCalls ==
    ASSUME SessionInv, NEW x \in Tells, x.op \notin {"connected", "closed"},
           NEW some \in BOOLEAN, Post(IF some THEN <<x>> ELSE <<>>),
           UNCHANGED <<window, transport, connects>>,
           \A op, of : op \in {"connect", "disconnect"} =>
              (In(toMain, Message(op, of)) <=> In(toMain', Message(op, of)))
    PROVE  /\ toWindow' \in Seq(Tells)
           /\ \A m : In(toWindow', m) <=> In(toWindow, m) \/ (some /\ m = x)
           /\ TabInv' /\ OpenInv' /\ HttpInv'
           /\ \A a \in Attempts : In(toMain', Message("connect", a)) => phase'[a] = "none"
           /\ \A a \in Attempts, w \in {"reason", "none"} :
                 In(toWindow', Answer("closed", a, w)) => phase'[a] = "gone"
<1>. USE DEF SessionInv
<1>1. \A a, w : x # Answer("connected", a, w) /\ x # Answer("closed", a, w)
  BY MessageFields
<1>2. /\ toWindow' \in Seq(Tells)
      /\ \A m : In(toWindow', m) <=> In(toWindow, m) \/ (some /\ m = x)
      /\ \A b : Ordered(toWindow, b) => Ordered(toWindow', b)
  <2>1. CASE some
    BY <1>1, <2>1, OnePosted
  <2>2. CASE ~some
    BY <2>2, NonePosted DEF TypeOK
  <2>. QED
    BY <2>1, <2>2
<1>4. TabInv'
  BY DEF TabInv, window, tabVars
<1>5. OpenInv'
  BY <1>2 DEF OpenInv, Kept, window, tabVars, connects
<1>6. HttpInv'
  BY <1>1, <1>2 DEF HttpInv, ClosedIn, window, tabVars, connects
<1>7. /\ \A a \in Attempts : In(toMain', Message("connect", a)) => phase'[a] = "none"
      /\ \A a \in Attempts, w \in {"reason", "none"} :
            In(toWindow', Answer("closed", a, w)) => phase'[a] = "gone"
  BY <1>1, <1>2 DEF PhaseInv, connects
<1>. QED
  BY <1>2, <1>4, <1>5, <1>6, <1>7

LEMMA MainCallKeeps == ASSUME SessionInv, MainCall PROVE SessionInv'
<1>. USE DEF SessionInv
<1>. DEFINE c == Head(toMain).of
            found == phase[calls[c].on] = "open"
            x == Answer("answer", c, "error")
<1>1. /\ toMain' \in Seq(Asks) /\ Once(toMain')
      /\ Head(toMain) = Message("call", c) /\ c \in Calls
      /\ \A m : In(toMain, m) <=> m = Head(toMain) \/ In(toMain', m)
  BY ReceivedByMain, AskIs DEF MainCall, PhaseInv
<1>2. /\ inflight' = IF found THEN inflight \cup {c} ELSE inflight
      /\ requests' = IF found THEN requests \cup {c} ELSE requests
      /\ Post(IF ~found THEN <<x>> ELSE <<>>)
      /\ UNCHANGED <<window, transport, connects, elicits>>
  BY DEF MainCall
<1>3. x \in Tells /\ x.op = "answer" /\ Head(toMain).op = "call"
  BY <1>1, TellsAre, MessageFields
<1>. HIDE DEF c
<1>4. \A op, of : op # "call" \/ of # c =>
         (In(toMain, Message(op, of)) <=> In(toMain', Message(op, of)))
  BY <1>1, Apart
<1>5. Made(c) /\ calls[c].on \in Attempts
  BY <1>1 DEF MadeInv, Made, TypeOK
<1>. DEFINE some == ~found
<1>6. some \in BOOLEAN /\ Post(IF some THEN <<x>> ELSE <<>>)
  BY <1>2
<1>. HIDE DEF x, found, some
<1>7. /\ toWindow' \in Seq(Tells)
      /\ \A m : In(toWindow', m) <=> In(toWindow, m) \/ (some /\ m = x)
      /\ TabInv' /\ OpenInv' /\ HttpInv'
      /\ \A a \in Attempts : In(toMain', Message("connect", a)) => phase'[a] = "none"
      /\ \A a \in Attempts, w \in {"reason", "none"} :
            In(toWindow', Answer("closed", a, w)) => phase'[a] = "gone"
  BY <1>2, <1>3, <1>4, <1>6, PostedAboutCalls
<1>8. TypeOK'
  BY <1>1, <1>2, <1>7 DEF TypeOK, window, tabVars, connects
<1>9. CallInv'
  <2>. SUFFICES ASSUME NEW j \in CallKinds, slot[j] # 0
                PROVE  calls[slot[j]].at \in {"scripts", "checks"} \/ Waits(slot[j])'
    BY <1>2 DEF CallInv, window, tabVars
  <2>1. CASE slot[j] = c
    BY <1>2, <1>7, <2>1 DEF Waits, window, tabVars, x, some
  <2>2. CASE slot[j] # c
    BY <1>2, <1>4, <1>7, <2>2 DEF CallInv, Waits, window, tabVars
  <2>. QED
    BY <2>1, <2>2
<1>10. MadeInv'
  <2>1. \A d, w : x = Answer("answer", d, w) => d = c
    BY Apart DEF x
  <2>. QED
    BY <1>1, <1>2, <1>5, <1>7, <2>1 DEF MadeInv, Made, window
<1>11. PhaseInv'
  BY <1>1, <1>2, <1>5, <1>7 DEF PhaseInv, connects, window, found
<1>12. QuestionInv'
  BY <1>2, <1>3, <1>4, <1>7, MessageFields DEF QuestionInv, Pursued, window, tabVars
<1>. QED
  BY <1>7, <1>8, <1>9, <1>10, <1>11, <1>12

(* A call that leaves the engine has its answer in the channel.            *)
LEMMA AnsweredKeeps ==
    ASSUME SessionInv, NEW c \in requests \cup inflight,
           NEW with \in {"ok", "error", "input", "cancelled"},
           Post(<<Answer("answer", c, with)>>),
           requests' = requests \ {c}, inflight' = inflight \ {c}, elicits' \subseteq elicits,
           UNCHANGED <<window, transport, connects>>,
           toMain' \in Seq(Asks), Once(toMain'),
           \A op, of : op # "cancelCall" =>
              (In(toMain, Message(op, of)) <=> In(toMain', Message(op, of)))
    PROVE  SessionInv'
<1>. USE DEF SessionInv
<1>. DEFINE x == Answer("answer", c, with)
<1>1. x \in Tells /\ x.op = "answer" /\ c \in Calls
  BY TellsAre, MessageFields DEF TypeOK
<1>2. \A d, w : x = Answer("answer", d, w) => d = c
  BY Apart
<1>3. Made(c)
  BY DEF MadeInv
<1>. HIDE DEF x
<1>. DEFINE some == TRUE
<1>4. some \in BOOLEAN /\ Post(IF some THEN <<x>> ELSE <<>>)
  BY DEF x
<1>5. /\ toWindow' \in Seq(Tells)
      /\ \A m : In(toWindow', m) <=> In(toWindow, m) \/ m = x
      /\ TabInv' /\ OpenInv' /\ HttpInv'
      /\ \A a \in Attempts : In(toMain', Message("connect", a)) => phase'[a] = "none"
      /\ \A a \in Attempts, w \in {"reason", "none"} :
            In(toWindow', Answer("closed", a, w)) => phase'[a] = "gone"
  BY <1>1, <1>4, PostedAboutCalls
<1>6. TypeOK'
  BY <1>5 DEF TypeOK, window, tabVars, connects
<1>7. CallInv'
  <2>. SUFFICES ASSUME NEW j \in CallKinds, slot[j] # 0
                PROVE  calls[slot[j]].at \in {"scripts", "checks"} \/ Waits(slot[j])'
    BY DEF CallInv, window, tabVars
  <2>1. CASE slot[j] = c
    BY <1>5, <2>1 DEF Waits, window, tabVars, x
  <2>2. CASE slot[j] # c
    BY <1>5, <2>2 DEF CallInv, Waits, window, tabVars
  <2>. QED
    BY <2>1, <2>2
<1>8. MadeInv'
  BY <1>2, <1>3, <1>5 DEF MadeInv, Made, window
<1>9. PhaseInv'
  BY <1>5 DEF PhaseInv, connects, window
<1>10. QuestionInv'
  BY <1>1, <1>5, MessageFields DEF QuestionInv, Pursued, window, tabVars
<1>. QED
  BY <1>5, <1>6, <1>7, <1>8, <1>9, <1>10

LEMMA ServerAnswersKeeps ==
    ASSUME SessionInv, NEW c \in Calls, NEW with \in {"ok", "error", "input"}, ServerAnswers(c, with)
    PROVE  SessionInv'
<1>1. /\ c \in requests /\ requests' = requests \ {c} /\ inflight' = inflight \ {c}
      /\ Post(<<Answer("answer", c, with)>>)
      /\ UNCHANGED <<window, toMain, transport, connects, elicits>>
  BY DEF ServerAnswers
<1>2. toMain' \in Seq(Asks) /\ Once(toMain')
  BY <1>1 DEF SessionInv, TypeOK, PhaseInv
<1>3. elicits' \subseteq elicits
  BY <1>1
<1>4. \A op, of : op # "cancelCall" =>
         (In(toMain, Message(op, of)) <=> In(toMain', Message(op, of)))
  BY <1>1
<1>. QED
  BY <1>1, <1>2, <1>3, <1>4, AnsweredKeeps

LEMMA MainCancelCallKeeps == ASSUME SessionInv, MainCancelCall PROVE SessionInv'
<1>. DEFINE c == Head(toMain).of
            found == c \in inflight
<1>1. /\ toMain' \in Seq(Asks) /\ Once(toMain')
      /\ Head(toMain) = Message("cancelCall", c) /\ c \in Calls
      /\ \A m : In(toMain, m) <=> m = Head(toMain) \/ In(toMain', m)
  BY ReceivedByMain, AskIs DEF MainCancelCall, SessionInv, PhaseInv
<1>2. /\ requests' = IF found THEN requests \ {c} ELSE requests
      /\ inflight' = inflight \ {c}
      /\ elicits' = IF found THEN elicits \ CallsOn(calls[c].on) ELSE elicits
      /\ Post(IF found THEN <<Answer("answer", c, "cancelled")>> ELSE <<>>)
      /\ UNCHANGED <<window, transport, connects>>
  BY DEF MainCancelCall
<1>. HIDE DEF c
<1>3. \A op, of : op # "cancelCall" =>
         (In(toMain, Message(op, of)) <=> In(toMain', Message(op, of)))
  BY <1>1, Apart
<1>4. CASE found
  <2>1. requests' = requests \ {c} /\ elicits' \subseteq elicits
        /\ Post(<<Answer("answer", c, "cancelled")>>)
    BY <1>2, <1>4
  <2>. QED
    BY <1>1, <1>2, <1>3, <1>4, <2>1, AnsweredKeeps
<1>5. CASE ~found
  <2>1. UNCHANGED <<requests, inflight, elicits>> /\ Post(<<>>)
    BY <1>2, <1>5
  <2>2. toWindow' = toWindow
    BY <2>1, NonePosted DEF SessionInv, TypeOK
  <2>. HIDE DEF found
  <2>3. TypeOK' /\ PhaseInv'
    BY <1>1, <1>2, <1>3, <2>1, <2>2 DEF SessionInv, TypeOK, PhaseInv, window, tabVars, connects
  <2>4. TabInv' /\ MadeInv' /\ CallInv' /\ QuestionInv' /\ OpenInv' /\ HttpInv'
    BY <1>2, <1>3, <2>1, <2>2 DEF SessionInv, TabInv, MadeInv, Made, CallInv, Waits, QuestionInv,
      Pursued, OpenInv, Kept, HttpInv, window, tabVars, connects
  <2>. QED
    BY <2>3, <2>4 DEF SessionInv
<1>. QED
  BY <1>4, <1>5

LEMMA ServerElicitsKeeps == ASSUME SessionInv, NEW c \in Calls, ServerElicits(c) PROVE SessionInv'
<1>. USE DEF SessionInv
<1>. DEFINE x == Message("elicitation", c)
<1>1. /\ c \in inflight /\ elicits' = elicits \cup {c} /\ Unasked(c)
      /\ UNCHANGED <<window, toMain, transport, connects, requests, inflight>>
      /\ Post(<<x>>)
  BY DEF ServerElicits
<1>2. x \in Tells /\ x.op = "elicitation" /\ \A a, w, op : x # Answer(op, a, w) \/ op = "elicitation"
  BY TellsAre, MessageFields
<1>3. \A d : x # Message("elicited", d)
  BY Apart
<1>4. ~In(toWindow, Message("elicited", c))
  BY <1>1, MessageFields DEF Unasked, In
<1>. HIDE DEF x
<1>. DEFINE some == TRUE
<1>5. some \in BOOLEAN /\ Post(IF some THEN <<x>> ELSE <<>>)
  BY <1>1
<1>6. /\ toWindow' \in Seq(Tells)
      /\ \A m : In(toWindow', m) <=> In(toWindow, m) \/ m = x
      /\ TabInv' /\ OpenInv' /\ HttpInv'
      /\ \A a \in Attempts, w \in {"reason", "none"} :
            In(toWindow', Answer("closed", a, w)) => phase'[a] = "gone"
  BY <1>1, <1>2, <1>5, PostedAboutCalls
<1>7. TypeOK'
  BY <1>1, <1>6 DEF TypeOK, window, tabVars, connects
<1>8. MadeInv' /\ CallInv'
  BY <1>1, <1>2, <1>6 DEF MadeInv, Made, CallInv, Waits, window, tabVars
<1>9. PhaseInv'
  BY <1>1, <1>6 DEF PhaseInv, window, connects
<1>10. QuestionInv'
  <2>. SUFFICES ASSUME NEW d \in elicits'
                PROVE  Pursued(d)' /\ ~In(toWindow', Message("elicited", d))
    BY DEF QuestionInv
  <2>1. CASE d = c
    BY <1>3, <1>4, <1>6, <2>1 DEF Pursued, x
  <2>2. CASE d # c
    BY <1>1, <1>3, <1>6, <2>2 DEF QuestionInv, Pursued, window, tabVars
  <2>. QED
    BY <2>1, <2>2
<1>. QED
  BY <1>6, <1>7, <1>8, <1>9, <1>10

LEMMA ElicitationEndsKeeps == ASSUME SessionInv, NEW c \in Calls, ElicitationEnds(c) PROVE SessionInv'
BY DEF ElicitationEnds, SessionInv, TypeOK, TabInv, MadeInv, Made, CallInv, Waits, PhaseInv,
  QuestionInv, Pursued, OpenInv, Kept, HttpInv, window, tabVars, connects

LEMMA MainRespondElicitationKeeps ==
    ASSUME SessionInv, NEW op \in {"answerElicitation", "cancelElicitation"},
           MainRespondElicitation(op)
    PROVE  SessionInv'
<1>. USE DEF SessionInv
<1>. DEFINE c == Head(toMain).of
            some == op = "answerElicitation"
            x == Message("elicited", c)
<1>1. /\ toMain' \in Seq(Asks) /\ Once(toMain')
      /\ Head(toMain) = Message(op, c) /\ c \in Calls
      /\ \A m : In(toMain, m) <=> m = Head(toMain) \/ In(toMain', m)
  BY ReceivedByMain, AskIs DEF MainRespondElicitation, PhaseInv
<1>2. /\ elicits' = elicits \ {c}
      /\ UNCHANGED <<window, transport, connects, requests, inflight>>
      /\ Post(IF some THEN <<x>> ELSE <<>>)
  BY DEF MainRespondElicitation
<1>3. x \in Tells /\ x.op = "elicited" /\ \A a, w, o : x # Answer(o, a, w) \/ o = "elicited"
  BY <1>1, TellsAre, MessageFields
<1>4. (\A d : x = Message("elicited", d) => d = c) /\ \A d : x # Message("elicitation", d)
  BY Apart
<1>. HIDE DEF c
<1>5. \A o, of : o # op \/ of # c =>
         (In(toMain, Message(o, of)) <=> In(toMain', Message(o, of)))
  BY <1>1, Apart
<1>6. some \in BOOLEAN /\ \A of : op # "connect" /\ op # "disconnect" /\ op # "call"
  OBVIOUS
<1>. HIDE DEF x, some
<1>7. /\ toWindow' \in Seq(Tells)
      /\ \A m : In(toWindow', m) <=> In(toWindow, m) \/ (some /\ m = x)
      /\ TabInv' /\ OpenInv' /\ HttpInv'
      /\ \A a \in Attempts : In(toMain', Message("connect", a)) => phase'[a] = "none"
      /\ \A a \in Attempts, w \in {"reason", "none"} :
            In(toWindow', Answer("closed", a, w)) => phase'[a] = "gone"
  BY <1>2, <1>3, <1>5, <1>6, PostedAboutCalls
<1>8. TypeOK'
  BY <1>1, <1>2, <1>7 DEF TypeOK, window, tabVars, connects
<1>9. MadeInv' /\ CallInv'
  BY <1>2, <1>3, <1>5, <1>6, <1>7 DEF MadeInv, Made, CallInv, Waits, window, tabVars
<1>10. PhaseInv'
  BY <1>1, <1>2, <1>7 DEF PhaseInv, window, connects
<1>11. QuestionInv'
  BY <1>2, <1>4, <1>5, <1>7 DEF QuestionInv, Pursued, window, tabVars
<1>. QED
  BY <1>7, <1>8, <1>9, <1>10, <1>11

-----------------------------------------------------------------------------
(* The behaviours.                                                         *)

LEMMA SessionBegins == ASSUME Init PROVE SessionInv
<1>. USE DEF Init
<1>1. TypeOK
  BY EmptySeq DEF TypeOK, Started, CallKinds
<1>2. TabInv /\ CallInv /\ QuestionInv /\ MadeInv
  BY InNone DEF TabInv, CallInv, QuestionInv, MadeInv, Made, Started, CallKinds
<1>3. Once(toMain)
  BY DEF Once
<1>4. PhaseInv /\ OpenInv
  BY InNone, <1>3 DEF PhaseInv, OpenInv
<1>5. HttpInv
  BY InNone, NoZero DEF HttpInv
<1>. QED
  BY <1>1, <1>2, <1>4, <1>5 DEF SessionInv

(* One case for each operation of the window, of main and of the server.   *)
LEMMA SessionStep == ASSUME SessionInv, [Next]_vars PROVE SessionInv'
<1>1. CASE UserNext
  BY <1>1, DisconnectKeeps, CloseTabKeeps, DismissInputKeeps, ConnectKeeps, RespondInputKeeps,
     RespondElicitationKeeps, CallKeeps, CancelCallKeeps DEF UserNext
<1>2. CASE WindowGoesOn
  BY <1>2, ConnectReplyKeeps, ClosedArrivesKeeps, CallReplyKeeps, ElicitationArrivesKeeps,
     ElicitationReplyKeeps DEF WindowGoesOn
<1>3. CASE MainGoesOn
  BY <1>3, MainConnectKeeps, MainCancelConnectKeeps, MainDisconnectKeeps, MainCallKeeps,
     MainCancelCallKeeps, MainRespondElicitationKeeps DEF MainGoesOn
<1>4. CASE ServerNext
  BY <1>4, ServerClosesKeeps, ServerAnswersKeeps, ServerElicitsKeeps, ElicitationEndsKeeps
     DEF ServerNext
<1>5. ASSUME NEW c \in Calls, Checks(c) PROVE SessionInv'
  BY <1>5, ChecksEndKeeps, ScriptsEndKeeps DEF Checks
<1>6. ASSUME NEW a \in Attempts, HandshakeEnds(a) \/ Trusted(a) \/ Closed(a) PROVE SessionInv'
  BY <1>6, HandshakeFailsKeeps, ListeningKeeps, HandshakeDoneKeeps, TrustedKeeps, ClosedKeeps
     DEF HandshakeEnds
<1>7. CASE UNCHANGED vars
  BY <1>7 DEF vars, main, SessionInv, TypeOK, TabInv, MadeInv, Made, CallInv, Waits, PhaseInv,
     QuestionInv, Pursued, OpenInv, Kept, HttpInv, window, tabVars, connects
<1>. QED
  BY <1>1, <1>2, <1>3, <1>4, <1>5, <1>6, <1>7 DEF Next


(* The inductive invariant holds throughout: every message, request and    *)
(* card of the session is accounted for, whatever order they come in.      *)
THEOREM SessionInvHolds == Spec => []SessionInv
<1>1. Init => SessionInv
  BY SessionBegins
<1>2. SessionInv /\ [Next]_vars => SessionInv'
  BY SessionStep
<1>. QED
  BY <1>1, <1>2, PTL DEF Spec

(* The window, the two channels and the engine keep their types: what the  *)
(* handlers of main/ipc/mcp.handler.ts pass on is an attempt or a call.    *)
THEOREM SessionTypeCorrect == Spec => []TypeOK
<1>1. SessionInv => TypeOK
  BY DEF SessionInv
<1>. QED
  BY <1>1, SessionInvHolds, PTL

(* A call that has its place on the tab is given it back: with nothing     *)
(* under way its scripts or checks run, or the engine still has its        *)
(* request, whatever was cancelled, closed or lost meanwhile (callTool and *)
(* readResource of mcp.store.ts, inflightCalls of mcp.engine.ts).          *)
THEOREM CallsAreAnswered == Spec => []EveryCallIsAnswered
<1>1. SessionInv => EveryCallIsAnswered
  BY InNone DEF SessionInv, EveryCallIsAnswered, CallInv, Waits, Quiet
<1>. QED
  BY <1>1, SessionInvHolds, PTL

(* No elicitation the engine holds open is out of the user's sight: with   *)
(* nothing under way it is on a card of the tab that owns its connection   *)
(* (pendingElicitations of mcp.engine.ts and of mcp.store.ts).             *)
THEOREM QuestionsHaveCards == Spec => []QuestionHasItsCard
<1>1. SessionInv => QuestionHasItsCard
  BY InNone DEF SessionInv, QuestionHasItsCard, QuestionInv, Pursued, Quiet
<1>. QED
  BY <1>1, SessionInvHolds, PTL

(* No connection is left behind, and no tab of an HTTP server is left      *)
(* saying it is connected: with nothing under way an open connection is    *)
(* the tab's, or its command line is being recorded, and the tab's is open *)
(* or closing (connect and disconnect of mcp.store.ts against mcpConnect,  *)
(* mcpCancelConnect and mcpDisconnect of mcp.engine.ts).                   *)
THEOREM ConnectionsAgree == Spec => []ConnectionsMatch
<1>1. ASSUME SessionInv, Quiet PROVE \A a \in Attempts : phase[a] = "open" => conn = a \/ a \in trusting
  BY <1>1, InNone DEF SessionInv, OpenInv, Kept, Quiet
<1>2. ASSUME SessionInv, Quiet, transport = "http", conn # 0
      PROVE  phase[conn] \in {"open", "closing"} /\ conn \notin dropped
  <2>1. conn \in Attempts
    BY <1>2 DEF SessionInv, TypeOK
  <2>2. ~ClosedIn(toWindow, conn)
    BY <1>2, InNone DEF ClosedIn, Quiet
  <2>. QED
    BY <1>2, <2>1, <2>2 DEF SessionInv, HttpInv
<1>3. SessionInv => ConnectionsMatch
  BY <1>1, <1>2 DEF ConnectionsMatch
<1>. QED
  BY <1>3, SessionInvHolds, PTL

=============================================================================
