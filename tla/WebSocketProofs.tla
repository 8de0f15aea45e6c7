--------------------------- MODULE WebSocketProofs ---------------------------
(* What holds of the connections for every set of tabs, number of attempts *)
(* and retries.                                                            *)
EXTENDS WebSocket, FiniteSetTheorems, SequenceTheorems, TLAPS

(* The messages and calls the actions send are typed.                      *)
LEMMA MessagesAreTyped ==
    /\ \A type \in EventTypes, a \in Attempts : Event(type, a) \in WindowMessage
    /\ \A a \in Attempts, ok \in BOOLEAN : Connected(a, ok) \in WindowMessage
    /\ \A k \in Continuation : Done(k) \in WindowMessage
    /\ \A op \in {"connect", "cancel", "disconnect"}, a \in Attempts,
          k \in Continuation \cup {NoThen} : Call(op, a, k) \in MainCall
BY DEF Event, Connected, Done, Call, WindowMessage, MainCall, EventTypes

(* What answers a call of the window.                                      *)
LEMMA FinishedIsTyped ==
    ASSUME NEW k \in Continuation \cup {NoThen}
    PROVE  Finished(k) \in Seq(WindowMessage)
BY MessagesAreTyped DEF Finished

(* Three messages.                                                         *)
LEMMA TripleIsSequence ==
    ASSUME NEW S, NEW x \in S, NEW y \in S, NEW z \in S
    PROVE  <<x, y, z>> \in Seq(S) /\ Len(<<x, y, z>>) = 3
OBVIOUS

(* One message is a sequence of messages; so are two, and three.           *)
LEMMA SingleIsSequence ==
    ASSUME NEW S, NEW x \in S
    PROVE  <<x>> \in Seq(S) /\ Len(<<x>>) = 1
OBVIOUS

(* Two messages.                                                           *)
LEMMA PairIsSequence ==
    ASSUME NEW S, NEW x \in S, NEW y \in S
    PROVE  <<x, y>> \in Seq(S) /\ Len(<<x, y>>) = 2
OBVIOUS

(* What a failed handshake sends.                                          *)
LEMMA HandshakeFailedIsTyped ==
    ASSUME NEW a \in Attempts
    PROVE  HandshakeFailed(a) \in Seq(WindowMessage)
<1>1. /\ Event("error", a) \in WindowMessage
      /\ Event("close", a) \in WindowMessage
      /\ Connected(a, FALSE) \in WindowMessage
  BY MessagesAreTyped DEF EventTypes
<1>. QED
  BY <1>1, TripleIsSequence, Zenon DEF HandshakeFailed

(* Pushing messages to the window keeps its channel typed.                 *)
LEMMA PushIsTyped ==
    ASSUME toWindow \in Seq(WindowMessage),
           NEW msgs \in Seq(WindowMessage), Push(msgs)
    PROVE  toWindow' \in Seq(WindowMessage)
BY ConcatProperties DEF Push

(* The first message to the window, and the rest.                          *)
LEMMA HeadOfWindow ==
    ASSUME toWindow \in Seq(WindowMessage), toWindow # <<>>
    PROVE  /\ Head(toWindow) \in WindowMessage
           /\ Tail(toWindow) \in Seq(WindowMessage)
           /\ Head(toWindow).type = "done"
                => Head(toWindow).then \in Continuation
           /\ Head(toWindow).type # "done" => Head(toWindow).id \in Attempts
<1>1. /\ Head(toWindow) \in WindowMessage
      /\ Tail(toWindow) \in Seq(WindowMessage)
  OBVIOUS
<1>. QED
  BY <1>1 DEF WindowMessage, EventTypes

(* The first call to main, and the rest.                                   *)
LEMMA HeadOfMain ==
    ASSUME toMain \in Seq(MainCall), toMain # <<>>
    PROVE  /\ Head(toMain) \in MainCall
           /\ Tail(toMain) \in Seq(MainCall)
           /\ Head(toMain).id \in Attempts
           /\ Head(toMain).then \in Continuation \cup {NoThen}
<1>1. Head(toMain) \in MainCall /\ Tail(toMain) \in Seq(MainCall)
  OBVIOUS
<1>. QED
  BY <1>1 DEF MainCall

(* Releasing a slice sends a call that is not ws:connect.                  *)
LEMMA ReleaseCallIsTyped ==
    ASSUME TypeOK, NEW t \in Tabs, Held(t)
    PROVE  /\ ReleaseCall(tab[t]) \in MainCall
           /\ ReleaseCall(tab[t]).op # "connect"
<1>1. tab[t] \in Slice
  BY DEF TypeOK
<1>2. tab[t].conn \in Ids /\ tab[t].pending \in Ids
  BY <1>1 DEF Slice
<1>3. CASE tab[t].conn # None
  <2>1. tab[t].conn \in Attempts
    BY <1>2, <1>3 DEF Ids
  <2>. QED
    BY <1>3, <2>1, MessagesAreTyped DEF ReleaseCall, Call
<1>4. CASE tab[t].conn = None
  <2>1. tab[t].pending \in Attempts
    BY <1>2, <1>4 DEF Ids, Held
  <2>. QED
    BY <1>4, <2>1, MessagesAreTyped DEF ReleaseCall, Call
<1>. QED
  BY <1>3, <1>4

(* The calls of a project that is left form a sequence.                    *)
LEMMA OrdersAreSequences ==
    ASSUME WebSocketConstants, NEW S \in SUBSET Tabs, NEW order \in Orders(S)
    PROVE  /\ Cardinality(S) \in Nat
           /\ DOMAIN order = 1..Cardinality(S)
           /\ \A n \in DOMAIN order : order[n] \in S
<1>1. IsFiniteSet(S)
  BY FS_Subset DEF WebSocketConstants
<1>2. Cardinality(S) \in Nat
  BY <1>1, FS_CardinalityType
<1>. QED
  BY <1>2 DEF Orders

(* They are typed, too.                                                    *)
LEMMA LeaveCallsAreTyped ==
    ASSUME TypeOK, WebSocketConstants, NEW S \in SUBSET {t \in Tabs : Held(t)},
           NEW order \in Orders(S)
    PROVE  [n \in DOMAIN order |-> ReleaseCall(tab[order[n]])] \in Seq(MainCall)
<1>. DEFINE calls == [n \in DOMAIN order |-> ReleaseCall(tab[order[n]])]
<1>1. /\ Cardinality(S) \in Nat
      /\ DOMAIN order = 1..Cardinality(S)
      /\ \A n \in DOMAIN order : order[n] \in S
  BY OrdersAreSequences
<1>2. \A n \in DOMAIN order : ReleaseCall(tab[order[n]]) \in MainCall
  BY <1>1, ReleaseCallIsTyped
<1>3. calls \in [1..Cardinality(S) -> MainCall]
  BY <1>1, <1>2
<1>. HIDE DEF calls
<1>4. calls \in Seq(MainCall)
  BY <1>1, <1>3
<1>. QED
  BY <1>4 DEF calls

(* The state a socket ends in by closing keeps the types.                   *)
LEMMA OnSocketClosedKeepsTypes ==
    ASSUME TypeOK, WebSocketConstants, NEW a \in Attempts, OnSocketClosed(a)
    PROVE  TypeOK'
<1>1. /\ Event("reconnecting", a) \in WindowMessage
      /\ Event("close", a) \in WindowMessage
  BY MessagesAreTyped DEF EventTypes
<1>2. toWindow' \in Seq(WindowMessage)
  <2>1. /\ <<Event("reconnecting", a)>> \in Seq(WindowMessage)
        /\ <<Event("close", a)>> \in Seq(WindowMessage)
    BY <1>1
  <2>2. \/ Push(<<Event("reconnecting", a)>>)
        \/ Push(<<Event("close", a)>>)
    BY DEF OnSocketClosed
  <2>. QED
    BY <2>1, <2>2, PushIsTyped DEF TypeOK
<1>3. sock' \in [Attempts -> SockStates]
  BY DEF OnSocketClosed, TypeOK, SockStates
<1>4. attempts' \in [Attempts -> 0..RetryCount]
  <2>1. CASE Retries(a)
    <3>1. attempts[a] \in Nat /\ attempts[a] + 1 \in 0..RetryCount
      BY <2>1 DEF Retries, TypeOK, WebSocketConstants
    <3>2. attempts' = [attempts EXCEPT ![a] = attempts[a] + 1]
      BY <2>1 DEF OnSocketClosed
    <3>. QED
      BY <3>1, <3>2 DEF TypeOK
  <2>2. CASE ~Retries(a)
    BY <2>2 DEF OnSocketClosed, TypeOK
  <2>. QED
    BY <2>1, <2>2
<1>5. connections' \subseteq Attempts
  BY DEF OnSocketClosed, TypeOK
<1>. QED
  BY <1>2, <1>3, <1>4, <1>5
  DEF TypeOK, OnSocketClosed, Network, window

(* Every variable has its type at the start.                               *)
LEMMA InitIsTyped == WebSocketConstants /\ Init => TypeOK
<1> SUFFICES ASSUME WebSocketConstants, Init PROVE TypeOK
  OBVIOUS
<1>1. Idle \in Slice
  BY DEF Idle, Slice, Ids
<1>2. tab \in [Tabs -> Slice]
  BY <1>1 DEF Init
<1>3. owner \in Seq(Tabs) /\ Len(owner) <= MaxAttempts
  BY DEF Init, WebSocketConstants
<1>4. attempts \in [Attempts -> 0..RetryCount]
  BY DEF Init, WebSocketConstants
<1>. QED
  BY <1>2, <1>3, <1>4 DEF Init, TypeOK, SockStates

(* What the user does keeps the types.                                     *)
LEMMA UserStepKeepsTypes ==
    ASSUME TypeOK, WebSocketConstants, UserStep
    PROVE  TypeOK'
<1>. USE DEF engine
<1>0. \A r \in Slice : /\ r.state \in {"disconnected", "connecting",
                                       "connected", "error", "gone"}
                       /\ r.conn \in Ids /\ r.pending \in Ids /\ r.sub \in Ids
  BY DEF Slice
<1>1. Idle \in Slice /\ [Idle EXCEPT !.state = "gone"] \in Slice
  BY DEF Idle, Slice, Ids
<1>2. ASSUME NEW t \in Tabs, Connect(t)
      PROVE  TypeOK'
  <2>. DEFINE a == Len(owner) + 1
              r == [tab[t] EXCEPT !.state = "connecting",
                                  !.pending = a, !.sub = a]
  <2>1. /\ a \in Attempts
        /\ owner' = Append(owner, t)
        /\ tab' = [tab EXCEPT ![t] = r]
        /\ listening' = (listening \ {tab[t].sub}) \cup {a}
        /\ loading' = loading \cup {a}
        /\ UNCHANGED <<forgotten, toMain, toWindow, engine>>
    BY <1>2 DEF Connect
  <2>2. r \in Slice
    BY <2>1 DEF TypeOK, Slice, Ids
  <2>3. tab' \in [Tabs -> Slice]
    BY <2>1, <2>2 DEF TypeOK
  <2>4. owner' \in Seq(Tabs) /\ Len(owner') <= MaxAttempts
    BY <2>1 DEF TypeOK, Attempts, WebSocketConstants
  <2>. QED
    BY <2>1, <2>3, <2>4 DEF TypeOK
<1>3. ASSUME NEW t \in Tabs, ConnectRefused(t)
      PROVE  TypeOK'
  <2>1. [tab[t] EXCEPT !.state = "error"] \in Slice
    BY DEF TypeOK, Slice
  <2>2. tab' \in [Tabs -> Slice]
    BY <1>3, <2>1 DEF ConnectRefused, TypeOK
  <2>. QED
    BY <1>3, <2>2 DEF ConnectRefused, TypeOK
<1>4. ASSUME NEW t \in Tabs, Disconnect(t)
      PROVE  TypeOK'
  <2>. DEFINE r == tab[t]
              cancels == r.state = "connecting" /\ r.pending # None
              k == [tab |-> t, conn |-> r.conn, sub |-> r.sub]
              j == [k EXCEPT !.conn = None]
  <2>1. r \in Slice
    BY DEF TypeOK
  <2>2. k \in Continuation /\ j \in Continuation
    BY <1>0, <2>1 DEF Continuation, Ids
  <2>3. cancels => Call("cancel", r.pending, k) \in MainCall
    BY <1>0, <2>1, <2>2, MessagesAreTyped DEF Ids
  <2>4. r.conn # None => Call("disconnect", r.conn, j) \in MainCall
    BY <1>0, <2>1, <2>2, MessagesAreTyped DEF Ids
  <2>5. /\ IF cancels \/ r.conn # None
           THEN /\ toMain' = Append(toMain,
                       IF cancels THEN Call("cancel", r.pending, k)
                                  ELSE Call("disconnect", r.conn, j))
                /\ UNCHANGED <<tab, listening, forgotten>>
           ELSE Reset(k) /\ UNCHANGED toMain
        /\ UNCHANGED <<owner, loading, toWindow, engine>>
    BY <1>4 DEF Disconnect
  <2>. HIDE DEF cancels, k, j
  <2>6. CASE cancels \/ r.conn # None
    <3>1. CASE cancels
      <4>1. toMain' = Append(toMain, Call("cancel", r.pending, k))
        BY <2>5, <2>6, <3>1, Zenon
      <4>. QED
        BY <2>3, <2>5, <2>6, <3>1, <4>1 DEF TypeOK
    <3>2. CASE ~cancels
      <4>1. /\ r.conn # None
            /\ toMain' = Append(toMain, Call("disconnect", r.conn, j))
        BY <2>5, <2>6, <3>2, Zenon
      <4>. QED
        BY <2>4, <2>5, <2>6, <3>2, <4>1 DEF TypeOK
    <3>. QED
      BY <3>1, <3>2
  <2>7. CASE ~(cancels \/ r.conn # None)
    <3>1. Reset(k) /\ UNCHANGED toMain
      BY <2>5, <2>7
    <3>2. tab' \in [Tabs -> Slice] /\ listening' \subseteq Attempts
      BY <1>1, <3>1 DEF Reset, TypeOK
    <3>3. forgotten' \subseteq Attempts
      BY <3>1 DEF Reset, Dropped, TypeOK
    <3>. QED
      BY <2>5, <3>1, <3>2, <3>3 DEF TypeOK
  <2>. QED
    BY <2>6, <2>7
<1>5. ASSUME NEW t \in Tabs, CloseTab(t)
      PROVE  TypeOK'
  <2>1. toMain' \in Seq(MainCall)
    BY <1>5, ReleaseCallIsTyped DEF CloseTab, TypeOK
  <2>2. tab' \in [Tabs -> Slice] /\ listening' \subseteq Attempts
    BY <1>1, <1>5 DEF CloseTab, TypeOK
  <2>. QED
    BY <1>5, <2>1, <2>2 DEF CloseTab, TypeOK
<1>6. ASSUME LeaveProject
      PROVE  TypeOK'
  <2>. DEFINE holders == {t \in Tabs : Held(t)}
  <2>1. PICK order \in Orders(holders) :
             toMain' = toMain \o [n \in DOMAIN order |->
                                     ReleaseCall(tab[order[n]])]
    BY <1>6 DEF LeaveProject
  <2>. DEFINE calls == [n \in DOMAIN order |-> ReleaseCall(tab[order[n]])]
  <2>2. calls \in Seq(MainCall)
    BY LeaveCallsAreTyped
  <2>3. toMain' \in Seq(MainCall)
    BY <2>1, <2>2, ConcatProperties DEF TypeOK
  <2>4. tab' \in [Tabs -> Slice] /\ listening' \subseteq Attempts
    BY <1>1, <1>6 DEF LeaveProject, TypeOK
  <2>. QED
    BY <1>6, <2>3, <2>4 DEF LeaveProject, TypeOK
<1>. QED
  BY <1>2, <1>3, <1>4, <1>5, <1>6 DEF UserStep

(* What the window does with a message of main keeps the types.            *)
LEMMA WindowStepKeepsTypes ==
    ASSUME TypeOK, WebSocketConstants, WindowStep
    PROVE  TypeOK'
<1>. USE DEF engine
<1>1. toWindow # <<>> /\ toWindow' = Tail(toWindow)
  BY DEF WindowStep, EventArrives, ConnectSucceeds, ConnectFails,
         DisconnectGoesOn, Reply
<1>2. /\ toWindow' \in Seq(WindowMessage)
      /\ Head(toWindow).type = "done" => Head(toWindow).then \in Continuation
      /\ Head(toWindow).type # "done" => Head(toWindow).id \in Attempts
  BY <1>1, HeadOfWindow DEF TypeOK
<1>3. CASE EventArrives
  <2>1. \A r \in Slice : Patched(r, Head(toWindow).type) \in Slice
    <3>. TAKE r \in Slice
    <3>1. /\ [r EXCEPT !.state = "connected"] \in Slice
          /\ [r EXCEPT !.state = "disconnected", !.conn = None] \in Slice
          /\ [r EXCEPT !.state = "error"] \in Slice
      BY DEF Slice, Ids
    <3>. QED
      BY <3>1 DEF Patched
  <2>2. tab' \in [Tabs -> Slice]
    BY <1>3, <2>1 DEF EventArrives, TypeOK
  <2>. QED
    BY <1>2, <1>3, <2>2 DEF EventArrives, TypeOK
<1>4. CASE ConnectSucceeds
  <2>. DEFINE a == Head(toWindow).id
              t == owner[a]
              r == [tab[t] EXCEPT !.conn = a, !.pending = None,
                                  !.state = IF tab[t].state = "connected"
                                            THEN "connected"
                                            ELSE "connecting"]
  <2>1. a \in Attempts
    BY <1>2, <1>4 DEF ConnectSucceeds, Reply
  <2>2. CASE tab[t].pending = a
    <3>1. tab' = [tab EXCEPT ![t] = r] /\ Dropped(t)
          /\ UNCHANGED <<listening, toMain, owner, loading, engine>>
      BY <1>4, <2>2 DEF ConnectSucceeds
    <3>2. t \in Tabs => r \in Slice
      <4>. SUFFICES ASSUME t \in Tabs PROVE r \in Slice
        OBVIOUS
      <4>1. tab[t] \in Slice
        BY DEF TypeOK
      <4>. QED
        BY <2>1, <4>1 DEF Slice, Ids
    <3>3. tab' \in [Tabs -> Slice]
      BY <3>1, <3>2 DEF TypeOK
    <3>4. forgotten' \subseteq Attempts
      BY <3>1 DEF Dropped, TypeOK
    <3>. QED
      BY <1>2, <3>1, <3>3, <3>4 DEF TypeOK
  <2>3. CASE tab[t].pending # a
    <3>1. /\ toMain' = Append(toMain, Call("disconnect", a, NoThen))
          /\ listening' = listening \ {a}
          /\ UNCHANGED <<tab, forgotten, owner, loading, engine>>
      BY <1>4, <2>3 DEF ConnectSucceeds
    <3>2. toMain' \in Seq(MainCall)
      BY <2>1, <3>1, MessagesAreTyped DEF TypeOK
    <3>. QED
      BY <1>2, <3>1, <3>2 DEF TypeOK
  <2>. QED
    BY <2>2, <2>3
<1>5. CASE ConnectFails
  <2>. DEFINE t == owner[Head(toWindow).id]
              r == [tab[t] EXCEPT !.state = "error",
                                  !.pending = None, !.sub = None]
  <2>1. t \in Tabs => r \in Slice
    BY DEF TypeOK, Slice, Ids
  <2>2. tab' = IF Exists(t) THEN [tab EXCEPT ![t] = r] ELSE tab
    BY <1>5 DEF ConnectFails
  <2>. HIDE DEF t, r
  <2>3. tab' \in [Tabs -> Slice]
    BY <2>1, <2>2 DEF TypeOK
  <2>. QED
    BY <1>2, <1>5, <2>3 DEF ConnectFails, TypeOK
<1>6. CASE DisconnectGoesOn
  <2>. DEFINE k == Head(toWindow).then
              j == [k EXCEPT !.conn = None]
  <2>1. k \in Continuation
    BY <1>2, <1>6 DEF DisconnectGoesOn, Reply
  <2>2. j \in Continuation /\ k.conn \in Ids
    BY <2>1 DEF Continuation, Ids
  <2>3. CASE k.conn # None
    <3>1. /\ toMain' = Append(toMain, Call("disconnect", k.conn, j))
          /\ UNCHANGED <<tab, listening, owner, loading, forgotten, engine>>
      BY <1>6, <2>3 DEF DisconnectGoesOn
    <3>2. Call("disconnect", k.conn, j) \in MainCall
      BY <2>2, <2>3, MessagesAreTyped DEF Ids
    <3>3. toMain' \in Seq(MainCall)
      BY <3>1, <3>2 DEF TypeOK
    <3>. QED
      BY <1>2, <3>1, <3>3 DEF TypeOK
  <2>4. CASE k.conn = None
    <3>1. Reset(k) /\ UNCHANGED <<toMain, owner, loading, engine>>
      BY <1>6, <2>4 DEF DisconnectGoesOn
    <3>2. Idle \in Slice
      BY DEF Idle, Slice, Ids
    <3>3. tab' \in [Tabs -> Slice] /\ listening' \subseteq Attempts
      BY <3>1, <3>2 DEF Reset, TypeOK
    <3>4. forgotten' \subseteq Attempts
      BY <3>1 DEF Reset, Dropped, TypeOK
    <3>. QED
      BY <1>2, <3>1, <3>3, <3>4 DEF TypeOK
  <2>. QED
    BY <2>3, <2>4
<1>. QED
  BY <1>3, <1>4, <1>5, <1>6 DEF WindowStep

(* What main does with a call keeps the types.                             *)
LEMMA MainStepKeepsTypes ==
    ASSUME TypeOK, WebSocketConstants, MainStep
    PROVE  TypeOK'
<1>. DEFINE a == Head(toMain).id
            done == Finished(Head(toMain).then)
<1>1. toMain # <<>> /\ toMain' = Tail(toMain) /\ UNCHANGED window
  BY DEF MainStep, MainConnects, MainCancels, MainDisconnects, Take
<1>2. /\ a \in Attempts /\ toMain' \in Seq(MainCall)
      /\ done \in Seq(WindowMessage)
  BY <1>1, HeadOfMain, FinishedIsTyped DEF TypeOK
<1>. HIDE DEF a, done
<1>3. /\ <<Connected(a, FALSE)>> \in Seq(WindowMessage)
      /\ <<Event("error", a), Event("close", a)>> \in Seq(WindowMessage)
      /\ HandshakeFailed(a) \in Seq(WindowMessage)
  <2>1. /\ Event("error", a) \in WindowMessage
        /\ Event("close", a) \in WindowMessage
        /\ Connected(a, FALSE) \in WindowMessage
    BY <1>2, MessagesAreTyped DEF EventTypes
  <2>. QED
    BY <1>2, <2>1, SingleIsSequence, PairIsSequence, HandshakeFailedIsTyped,
       Zenon
<1>4. CASE MainConnects
  <2>1. toWindow' \in Seq(WindowMessage)
    BY <1>3, <1>4, PushIsTyped DEF MainConnects, TypeOK, a
  <2>2. sock' \in [Attempts -> SockStates] /\ pendingConnects' \subseteq Attempts
    BY <1>2, <1>4 DEF MainConnects, TypeOK, SockStates, a
  <2>. QED
    BY <1>1, <1>2, <1>4, <2>1, <2>2 DEF MainConnects, TypeOK, window
<1>5. CASE MainCancels
  <2>1. toWindow' \in Seq(WindowMessage)
    <3>1. /\ done \o HandshakeFailed(a) \in Seq(WindowMessage)
          /\ <<Event("error", a), Event("close", a)>> \o done
                \in Seq(WindowMessage)
      BY <1>2, <1>3, ConcatProperties
    <3>2. (<<Event("error", a), Event("close", a)>> \o done)
              \o <<Connected(a, FALSE)>> \in Seq(WindowMessage)
      BY <1>3, <3>1, ConcatProperties
    <3>3. \/ Push(done \o HandshakeFailed(a))
          \/ Push(<<Event("error", a), Event("close", a)>> \o done
                             \o <<Connected(a, FALSE)>>)
          \/ Push(done)
      BY <1>5 DEF MainCancels, a, done
    <3>. QED
      BY <1>2, <3>1, <3>2, <3>3, PushIsTyped DEF TypeOK
  <2>2. sock' \in [Attempts -> SockStates] /\ pendingConnects' \subseteq Attempts
    BY <1>2, <1>5 DEF MainCancels, TypeOK, SockStates, a
  <2>. QED
    BY <1>1, <1>2, <1>5, <2>1, <2>2 DEF MainCancels, TypeOK, window
<1>6. CASE MainDisconnects
  <2>1. toWindow' \in Seq(WindowMessage)
    BY <1>2, <1>6, PushIsTyped DEF MainDisconnects, TypeOK, done
  <2>2. /\ sock' \in [Attempts -> SockStates]
        /\ connections' \subseteq Attempts /\ userClosed' \subseteq Attempts
    BY <1>2, <1>6 DEF MainDisconnects, TypeOK, SockStates, a
  <2>. QED
    BY <1>1, <1>2, <1>6, <2>1, <2>2 DEF MainDisconnects, TypeOK, window
<1>. QED
  BY <1>4, <1>5, <1>6 DEF MainStep

(* What a socket or its timer does keeps the types.                        *)
LEMMA SocketKeepsTypes ==
    ASSUME TypeOK, WebSocketConstants, NEW a \in Attempts,
           SocketStep(a) \/ SocketErrs(a) \/ ServerCloses(a)
    PROVE  TypeOK'
<1>1. /\ \A type \in EventTypes : Event(type, a) \in WindowMessage
      /\ Connected(a, TRUE) \in WindowMessage
      /\ HandshakeFailed(a) \in Seq(WindowMessage)
  BY MessagesAreTyped, HandshakeFailedIsTyped
<1>2. CASE HandshakeOpens(a)
  <2>1. <<Event("open", a), Connected(a, TRUE)>> \in Seq(WindowMessage)
    BY <1>1, PairIsSequence DEF EventTypes
  <2>2. toWindow' \in Seq(WindowMessage)
    BY <1>2, <2>1, PushIsTyped DEF HandshakeOpens, TypeOK
  <2>. QED
    BY <1>2, <2>2 DEF HandshakeOpens, TypeOK, SockStates, Network, window
<1>3. CASE HandshakeFails(a)
  <2>1. toWindow' \in Seq(WindowMessage)
    BY <1>1, <1>3, PushIsTyped DEF HandshakeFails, TypeOK
  <2>. QED
    BY <1>3, <2>1 DEF HandshakeFails, TypeOK, SockStates, Network, window
<1>4. CASE SocketErrs(a)
  <2>1. <<Event("error", a)>> \in Seq(WindowMessage)
    BY <1>1 DEF EventTypes
  <2>2. toWindow' \in Seq(WindowMessage)
    BY <1>4, <2>1, PushIsTyped DEF SocketErrs, TypeOK
  <2>. QED
    BY <1>4, <2>2 DEF SocketErrs, TypeOK, SockStates, Network, window
<1>5. CASE Reconnect(a)
  BY <1>5 DEF Reconnect, TypeOK, SockStates, Network, window
<1>6. CASE ReconnectOpens(a)
  <2>1. <<Event("open", a)>> \in Seq(WindowMessage)
    BY <1>1 DEF EventTypes
  <2>2. toWindow' \in Seq(WindowMessage)
    BY <1>6, <2>1, PushIsTyped DEF ReconnectOpens, TypeOK
  <2>3. attempts' \in [Attempts -> 0..RetryCount]
    BY <1>6 DEF ReconnectOpens, TypeOK, WebSocketConstants
  <2>. QED
    BY <1>6, <2>2, <2>3 DEF ReconnectOpens, TypeOK, SockStates, Network, window
<1>7. CASE OnSocketClosed(a)
  BY <1>7, OnSocketClosedKeepsTypes
<1>. QED
  BY <1>2, <1>3, <1>4, <1>5, <1>6, <1>7
  DEF SocketStep, BrokenCloses, ClosingEnds, ReconnectFails, ServerCloses

(* Every step keeps the types.                                             *)
LEMMA NextKeepsTypes ==
    WebSocketConstants /\ TypeOK /\ [Next]_vars => TypeOK'
<1> SUFFICES ASSUME WebSocketConstants, TypeOK, [Next]_vars PROVE TypeOK'
  OBVIOUS
<1>1. ASSUME NEW a \in Attempts, SettingsLoaded(a)
      PROVE  TypeOK'
  <2>1. Call("connect", a, NoThen) \in MainCall
    BY MessagesAreTyped
  <2>2. toMain' \in Seq(MainCall)
    BY <1>1, <2>1 DEF SettingsLoaded, TypeOK
  <2>. QED
    BY <1>1, <2>2 DEF SettingsLoaded, TypeOK, engine
<1>2. CASE UNCHANGED vars
  BY <1>2 DEF TypeOK, vars, window, engine
<1>. QED
  BY <1>1, <1>2, UserStepKeepsTypes, WindowStepKeepsTypes, MainStepKeepsTypes,
     SocketKeepsTypes DEF Next

(* Every variable of the store and the engine keeps its type.              *)
THEOREM WebSocketTypeCorrect == Spec => []TypeOK
<1>1. Init => TypeOK
  BY InitIsTyped, WebSocketConstants
<1>2. TypeOK /\ [Next]_vars => TypeOK'
  BY NextKeepsTypes, WebSocketConstants
<1>. QED
  BY <1>1, <1>2, PTL DEF Spec

-----------------------------------------------------------------------------
(* The engine and the calls that are on their way to it.                   *)

IsConnect(n) == toMain[n].op = "connect"

(* An attempt is asked of the engine once: until its call is served it has *)
(* no socket, and it either waits for the settings or has one call.        *)
ConnectsAreFresh ==
    /\ loading \subseteq 1..Len(owner)
    /\ \A a \in Attempts : a > Len(owner) => sock[a] = "none"
    /\ \A a \in loading : sock[a] = "none"
    /\ \A n \in 1..Len(toMain) : IsConnect(n) =>
          /\ toMain[n].id <= Len(owner) /\ toMain[n].id \notin loading
          /\ sock[toMain[n].id] = "none"
    /\ \A m, n \in 1..Len(toMain) :
          IsConnect(m) /\ IsConnect(n) /\ toMain[m].id = toMain[n].id => m = n

(* What the user closed is closed, or closing.                             *)
ClosedAreClosed == \A a \in userClosed : sock[a] \in {"ending", "closing", "closed"}

EngineInv == TypeOK /\ MapsMatchSockets /\ ClosedAreClosed /\ ConnectsAreFresh

(* Every call that is on its way is about an attempt.                      *)
LEMMA CallsHaveIds ==
    ASSUME TypeOK
    PROVE  \A n \in 1..Len(toMain) : toMain[n].id \in Attempts
<1>1. \A n \in 1..Len(toMain) : toMain[n] \in MainCall
  BY DEF TypeOK
<1>. QED
  BY <1>1 DEF MainCall

(* Calls other than ws:connect do not disturb what is on its way.          *)
LEMMA OtherCallsKeepFresh ==
    ASSUME TypeOK, ConnectsAreFresh,
           NEW msgs \in Seq(MainCall), toMain' = toMain \o msgs,
           \A n \in 1..Len(msgs) : msgs[n].op # "connect",
           \A a \in Attempts : sock[a] = "none" => sock'[a] = "none",
           UNCHANGED <<owner, loading>>
    PROVE  ConnectsAreFresh'
<1>1. toMain \in Seq(MainCall)
  BY DEF TypeOK
<1>2. /\ Len(toMain') = Len(toMain) + Len(msgs)
      /\ Len(toMain) \in Nat /\ Len(msgs) \in Nat
      /\ \A n \in 1..Len(toMain) : toMain'[n] = toMain[n]
      /\ \A n \in 1..Len(toMain') :
            n > Len(toMain) => /\ n - Len(toMain) \in 1..Len(msgs)
                               /\ toMain'[n] = msgs[n - Len(toMain)]
  BY <1>1
<1>3. \A n \in 1..Len(toMain') : IsConnect(n)' =>
          n \in 1..Len(toMain) /\ toMain'[n] = toMain[n] /\ IsConnect(n)
  BY <1>2 DEF IsConnect
<1>4. \A n \in 1..Len(toMain) : toMain[n].id \in Attempts
  BY CallsHaveIds
<1>5. loading \subseteq Attempts
  BY DEF TypeOK
<1>6. \A a \in Attempts : a > Len(owner) => sock'[a] = "none"
  BY DEF ConnectsAreFresh
<1>7. \A a \in loading : sock'[a] = "none"
  BY <1>5 DEF ConnectsAreFresh
<1>8. \A n \in 1..Len(toMain') : IsConnect(n)' =>
          /\ toMain'[n].id <= Len(owner) /\ toMain'[n].id \notin loading
          /\ sock'[toMain'[n].id] = "none"
  BY <1>3, <1>4 DEF ConnectsAreFresh
<1>9. \A m, n \in 1..Len(toMain') :
          IsConnect(m)' /\ IsConnect(n)' /\ toMain'[m].id = toMain'[n].id
              => m = n
  BY <1>3 DEF ConnectsAreFresh
<1>. QED
  BY <1>6, <1>7, <1>8, <1>9 DEF ConnectsAreFresh

(* A call that is served leaves the others as they are.                    *)
LEMMA ServedCallKeepsFresh ==
    ASSUME TypeOK, ConnectsAreFresh, toMain # <<>>, toMain' = Tail(toMain),
           \A a \in Attempts : sock[a] = "none" =>
              \/ sock'[a] = "none"
              \/ IsConnect(1) /\ a = Head(toMain).id,
           UNCHANGED <<owner, loading>>
    PROVE  ConnectsAreFresh'
<1>1. toMain \in Seq(MainCall) /\ owner \in Seq(Tabs)
  BY DEF TypeOK
<1>2. /\ Len(toMain) \in Nat /\ 1 \in 1..Len(toMain)
      /\ Len(toMain') = Len(toMain) - 1
      /\ Head(toMain) = toMain[1]
      /\ \A n \in 1..Len(toMain') :
            n + 1 \in 1..Len(toMain) /\ toMain'[n] = toMain[n + 1]
  BY <1>1
<1>3. \A n \in 1..Len(toMain') : IsConnect(n)' => IsConnect(n + 1)
  BY <1>2 DEF IsConnect
<1>4. \A n \in 1..Len(toMain) : toMain[n].id \in Attempts
  BY CallsHaveIds
<1>5. /\ loading \subseteq Attempts /\ Len(owner) \in Nat
      /\ Attempts \subseteq Int
  BY <1>1 DEF TypeOK, Attempts
<1>6. IsConnect(1) => /\ toMain[1].id <= Len(owner)
                      /\ toMain[1].id \notin loading
  BY <1>2 DEF ConnectsAreFresh
<1>7. \A n \in 1..Len(toMain') : IsConnect(n)' /\ IsConnect(1) =>
          toMain'[n].id # toMain[1].id
  BY <1>2, <1>3 DEF ConnectsAreFresh
<1>8. \A a \in Attempts : a > Len(owner) => sock'[a] = "none"
  BY <1>2, <1>4, <1>5, <1>6 DEF ConnectsAreFresh
<1>9. \A a \in loading : sock'[a] = "none"
  BY <1>2, <1>5, <1>6 DEF ConnectsAreFresh
<1>10. \A n \in 1..Len(toMain') : IsConnect(n)' =>
           /\ toMain'[n].id <= Len(owner) /\ toMain'[n].id \notin loading
           /\ sock'[toMain'[n].id] = "none"
  BY <1>2, <1>3, <1>4, <1>7 DEF ConnectsAreFresh
<1>11. \A m, n \in 1..Len(toMain') :
          IsConnect(m)' /\ IsConnect(n)' /\ toMain'[m].id = toMain'[n].id
              => m = n
  <2>. TAKE m, n \in 1..Len(toMain')
  <2>. HAVE IsConnect(m)' /\ IsConnect(n)' /\ toMain'[m].id = toMain'[n].id
  <2>1. m + 1 = n + 1
    BY <1>2, <1>3 DEF ConnectsAreFresh
  <2>. QED
    BY <1>2, <2>1
<1>. QED
  BY <1>8, <1>9, <1>10, <1>11 DEF ConnectsAreFresh

(* A step of the window that sends nothing, or one call that is not        *)
(* ws:connect, keeps the invariant.                                        *)
LEMMA WindowKeepsInv ==
    ASSUME EngineInv, TypeOK', UNCHANGED <<owner, loading, engine>>,
           \/ UNCHANGED toMain
           \/ \E c \in MainCall : c.op # "connect" /\ toMain' = Append(toMain, c)
    PROVE  EngineInv'
<1>. USE DEF EngineInv
<1>1. MapsMatchSockets' /\ ClosedAreClosed'
  BY DEF MapsMatchSockets, ClosedAreClosed, engine
<1>2. CASE UNCHANGED toMain
  BY <1>1, <1>2 DEF ConnectsAreFresh, IsConnect, engine
<1>3. ASSUME NEW c \in MainCall, c.op # "connect",
             toMain' = Append(toMain, c)
      PROVE  EngineInv'
  <2>1. /\ <<c>> \in Seq(MainCall) /\ toMain' = toMain \o <<c>>
        /\ \A n \in 1..Len(<<c>>) : <<c>>[n].op # "connect"
    BY <1>3 DEF TypeOK
  <2>2. ConnectsAreFresh'
    BY <2>1, OtherCallsKeepFresh DEF engine
  <2>. QED
    BY <1>1, <2>2
<1>. QED
  BY <1>2, <1>3

(* What the user does keeps the invariant.                                 *)
LEMMA UserStepKeepsInv ==
    ASSUME EngineInv, WebSocketConstants, UserStep
    PROVE  EngineInv'
<1>1. TypeOK /\ TypeOK'
  BY UserStepKeepsTypes DEF EngineInv
<1>2. ASSUME NEW t \in Tabs, Connect(t)
      PROVE  EngineInv'
  <2>. DEFINE a == Len(owner) + 1
  <2>1. /\ a \in Attempts
        /\ owner' = Append(owner, t)
        /\ loading' = loading \cup {a}
        /\ UNCHANGED <<toMain, engine>>
    BY <1>2 DEF Connect
  <2>2. Len(owner') = Len(owner) + 1 /\ Len(owner) \in Nat
    BY <1>1, <2>1 DEF TypeOK
  <2>3. sock[a] = "none" /\ sock' = sock
    BY <2>1, <2>2 DEF EngineInv, ConnectsAreFresh, engine
  <2>4. \A n \in 1..Len(toMain) : IsConnect(n) => toMain[n].id # a
    BY <2>2 DEF EngineInv, ConnectsAreFresh
  <2>5. \A b \in Attempts : b > Len(owner') => b > Len(owner)
    BY <2>2 DEF Attempts
  <2>6. \A n \in 1..Len(toMain) : IsConnect(n) => toMain[n].id <= Len(owner')
    <3>1. \A n \in 1..Len(toMain) : toMain[n].id \in Int
      BY <1>1, CallsHaveIds DEF Attempts
    <3>. QED
      BY <2>2, <3>1 DEF EngineInv, ConnectsAreFresh
  <2>7. loading' \subseteq 1..Len(owner')
    <3>1. loading \subseteq 1..Len(owner)
      BY DEF EngineInv, ConnectsAreFresh
    <3>2. a \in 1..(Len(owner) + 1) /\ 1..Len(owner) \subseteq 1..(Len(owner) + 1)
      BY <2>2
    <3>. HIDE DEF a
    <3>. QED
      BY <2>1, <2>2, <3>1, <3>2
  <2>8. ConnectsAreFresh'
    BY <2>1, <2>3, <2>4, <2>5, <2>6, <2>7
    DEF EngineInv, ConnectsAreFresh, IsConnect
  <2>. QED
    BY <1>1, <2>1, <2>8
    DEF EngineInv, MapsMatchSockets, ClosedAreClosed, engine
<1>3. ASSUME NEW t \in Tabs, ConnectRefused(t)
      PROVE  EngineInv'
  BY <1>1, <1>3, WindowKeepsInv DEF ConnectRefused
<1>4. ASSUME NEW t \in Tabs, Disconnect(t)
      PROVE  EngineInv'
  <2>. DEFINE r == tab[t]
              cancels == r.state = "connecting" /\ r.pending # None
              k == [tab |-> t, conn |-> r.conn, sub |-> r.sub]
              j == [k EXCEPT !.conn = None]
  <2>1. r.conn \in Ids /\ r.pending \in Ids /\ r.sub \in Ids
    BY <1>1 DEF TypeOK, Slice
  <2>2. k \in Continuation /\ j \in Continuation
    BY <2>1 DEF Continuation, Ids
  <2>3. /\ cancels => Call("cancel", r.pending, k) \in MainCall
        /\ r.conn # None => Call("disconnect", r.conn, j) \in MainCall
    BY <2>1, <2>2, MessagesAreTyped DEF Ids
  <2>4. /\ Call("cancel", r.pending, k).op # "connect"
        /\ Call("disconnect", r.conn, j).op # "connect"
    BY DEF Call
  <2>5. /\ IF cancels \/ r.conn # None
           THEN toMain' = Append(toMain,
                       IF cancels THEN Call("cancel", r.pending, k)
                                  ELSE Call("disconnect", r.conn, j))
           ELSE UNCHANGED toMain
        /\ UNCHANGED <<owner, loading, engine>>
    BY <1>4 DEF Disconnect
  <2>. HIDE DEF cancels, k, j
  <2>6. CASE cancels
    <3>1. toMain' = Append(toMain, Call("cancel", r.pending, k))
      BY <2>5, <2>6, Zenon
    <3>. QED
      BY <1>1, <2>3, <2>4, <2>5, <2>6, <3>1, WindowKeepsInv
  <2>7. CASE ~cancels /\ r.conn # None
    <3>1. toMain' = Append(toMain, Call("disconnect", r.conn, j))
      BY <2>5, <2>7, Zenon
    <3>. QED
      BY <1>1, <2>3, <2>4, <2>5, <2>7, <3>1, WindowKeepsInv
  <2>8. CASE ~(cancels \/ r.conn # None)
    BY <1>1, <2>5, <2>8, WindowKeepsInv
  <2>. QED
    BY <2>6, <2>7, <2>8
<1>5. ASSUME NEW t \in Tabs, CloseTab(t)
      PROVE  EngineInv'
  <2>1. UNCHANGED <<owner, loading, engine>>
    BY <1>5 DEF CloseTab
  <2>2. CASE Held(t)
    <3>1. toMain' = Append(toMain, ReleaseCall(tab[t]))
      BY <1>5, <2>2 DEF CloseTab
    <3>. QED
      BY <1>1, <2>1, <2>2, <3>1, ReleaseCallIsTyped, WindowKeepsInv
  <2>3. CASE ~Held(t)
    BY <1>1, <1>5, <2>1, <2>3, WindowKeepsInv DEF CloseTab
  <2>. QED
    BY <2>2, <2>3
<1>6. ASSUME LeaveProject
      PROVE  EngineInv'
  <2>. DEFINE holders == {t \in Tabs : Held(t)}
  <2>1. UNCHANGED <<owner, loading, engine>>
    BY <1>6 DEF LeaveProject
  <2>2. PICK order \in Orders(holders) :
             toMain' = toMain \o [n \in DOMAIN order |->
                                     ReleaseCall(tab[order[n]])]
    BY <1>6 DEF LeaveProject
  <2>. DEFINE calls == [n \in DOMAIN order |-> ReleaseCall(tab[order[n]])]
  <2>3. /\ Cardinality(holders) \in Nat
        /\ DOMAIN order = 1..Cardinality(holders)
        /\ \A n \in DOMAIN order : order[n] \in holders
    BY OrdersAreSequences
  <2>4. \A n \in DOMAIN order : /\ ReleaseCall(tab[order[n]]) \in MainCall
                                /\ ReleaseCall(tab[order[n]]).op # "connect"
    BY <1>1, <2>3, ReleaseCallIsTyped
  <2>5. /\ calls \in [1..Cardinality(holders) -> MainCall]
        /\ \A n \in 1..Cardinality(holders) : calls[n].op # "connect"
    BY <2>3, <2>4
  <2>6. toMain' = toMain \o calls
    BY <2>2
  <2>. HIDE DEF calls, holders
  <2>7. calls \in Seq(MainCall) /\ Len(calls) = Cardinality(holders)
    BY <2>3, <2>5
  <2>8. ConnectsAreFresh'
    BY <1>1, <2>1, <2>5, <2>6, <2>7, OtherCallsKeepFresh
    DEF EngineInv, engine
  <2>. QED
    BY <1>1, <2>1, <2>8
    DEF EngineInv, MapsMatchSockets, ClosedAreClosed, engine
<1>. QED
  BY <1>2, <1>3, <1>4, <1>5, <1>6 DEF UserStep

(* What the window does with a message of main keeps the invariant.        *)
LEMMA WindowStepKeepsInv ==
    ASSUME EngineInv, WebSocketConstants, WindowStep
    PROVE  EngineInv'
<1>1. TypeOK /\ TypeOK'
  BY WindowStepKeepsTypes DEF EngineInv
<1>2. UNCHANGED <<owner, loading, engine>>
  BY DEF WindowStep, EventArrives, ConnectSucceeds, ConnectFails,
         DisconnectGoesOn
<1>3. toWindow # <<>>
  BY DEF WindowStep, EventArrives, ConnectSucceeds, ConnectFails,
         DisconnectGoesOn, Reply
<1>4. CASE EventArrives \/ ConnectFails
  BY <1>1, <1>2, <1>4, WindowKeepsInv DEF EventArrives, ConnectFails
<1>5. CASE ConnectSucceeds
  <2>. DEFINE a == Head(toWindow).id
  <2>1. a \in Attempts
    BY <1>1, <1>3, <1>5, HeadOfWindow DEF ConnectSucceeds, Reply, TypeOK
  <2>2. /\ Call("disconnect", a, NoThen) \in MainCall
        /\ Call("disconnect", a, NoThen).op # "connect"
    BY <2>1, MessagesAreTyped DEF Call
  <2>3. \/ UNCHANGED toMain
        \/ toMain' = Append(toMain, Call("disconnect", a, NoThen))
    BY <1>5 DEF ConnectSucceeds
  <2>. QED
    BY <1>1, <1>2, <2>2, <2>3, WindowKeepsInv
<1>6. CASE DisconnectGoesOn
  <2>. DEFINE k == Head(toWindow).then
              j == [k EXCEPT !.conn = None]
  <2>1. k \in Continuation
    BY <1>1, <1>3, <1>6, HeadOfWindow DEF DisconnectGoesOn, Reply, TypeOK
  <2>2. j \in Continuation /\ k.conn \in Ids
    BY <2>1 DEF Continuation, Ids
  <2>3. CASE k.conn # None
    <3>1. /\ Call("disconnect", k.conn, j) \in MainCall
          /\ Call("disconnect", k.conn, j).op # "connect"
      BY <2>2, <2>3, MessagesAreTyped DEF Call, Ids
    <3>2. toMain' = Append(toMain, Call("disconnect", k.conn, j))
      BY <1>6, <2>3 DEF DisconnectGoesOn
    <3>. QED
      BY <1>1, <1>2, <3>1, <3>2, WindowKeepsInv
  <2>4. CASE k.conn = None
    <3>1. UNCHANGED toMain
      BY <1>6, <2>4 DEF DisconnectGoesOn
    <3>. QED
      BY <1>1, <1>2, <3>1, WindowKeepsInv
  <2>. QED
    BY <2>3, <2>4
<1>. QED
  BY <1>4, <1>5, <1>6 DEF WindowStep

(* A socket or its timer keeps the invariant: it has left "none" before.   *)
LEMMA SocketKeepsInv ==
    ASSUME EngineInv, WebSocketConstants, NEW a \in Attempts,
           SocketStep(a) \/ SocketErrs(a) \/ ServerCloses(a)
    PROVE  EngineInv'
<1>1. TypeOK /\ TypeOK'
  BY SocketKeepsTypes DEF EngineInv
<1>2. /\ UNCHANGED <<owner, loading, toMain>>
      /\ sock[a] # "none"
      /\ \A b \in Attempts : b # a => sock'[b] = sock[b]
  BY <1>1 DEF SocketStep, SocketErrs, ServerCloses, HandshakeOpens,
     HandshakeFails, BrokenCloses, ClosingEnds, Reconnect, ReconnectOpens,
     ReconnectFails, OnSocketClosed, Network, window, TypeOK
<1>3. ConnectsAreFresh'
  <2>1. \A b \in Attempts : sock[b] = "none" => sock'[b] = "none"
    BY <1>2
  <2>2. /\ <<>> \in Seq(MainCall) /\ toMain' = toMain \o <<>>
        /\ \A n \in 1..Len(<<>>) : <<>>[n].op # "connect"
    BY <1>1, <1>2 DEF TypeOK
  <2>. QED
    BY <1>1, <1>2, <2>1, <2>2, OtherCallsKeepFresh DEF EngineInv
<1>4. MapsMatchSockets' /\ ClosedAreClosed'
  <2>1. CASE HandshakeOpens(a)
    BY <1>1, <2>1 DEF EngineInv, HandshakeOpens, MapsMatchSockets,
       ClosedAreClosed, TypeOK
  <2>2. CASE HandshakeFails(a)
    BY <1>1, <2>2 DEF EngineInv, HandshakeFails, MapsMatchSockets,
       ClosedAreClosed, TypeOK
  <2>3. CASE SocketErrs(a)
    BY <1>1, <2>3 DEF EngineInv, SocketErrs, MapsMatchSockets,
       ClosedAreClosed, TypeOK
  <2>4. CASE Reconnect(a)
    BY <1>1, <2>4 DEF EngineInv, Reconnect, MapsMatchSockets,
       ClosedAreClosed, TypeOK
  <2>5. CASE ReconnectOpens(a)
    BY <1>1, <2>5 DEF EngineInv, ReconnectOpens, MapsMatchSockets,
       ClosedAreClosed, TypeOK
  <2>6. CASE OnSocketClosed(a) /\ sock[a] # "opening"
    <3>1. CASE Retries(a)
      BY <1>1, <2>6, <3>1 DEF EngineInv, OnSocketClosed, Retries,
         MapsMatchSockets, ClosedAreClosed, TypeOK
    <3>2. CASE ~Retries(a)
      BY <1>1, <2>6, <3>2 DEF EngineInv, OnSocketClosed,
         MapsMatchSockets, ClosedAreClosed, TypeOK
    <3>. QED
      BY <3>1, <3>2
  <2>. QED
    BY <2>1, <2>2, <2>3, <2>4, <2>5, <2>6
    DEF SocketStep, BrokenCloses, ClosingEnds, ReconnectFails, ServerCloses
<1>. QED
  BY <1>1, <1>3, <1>4 DEF EngineInv

(* A call that is served keeps the invariant.                              *)
LEMMA MainStepKeepsInv ==
    ASSUME EngineInv, WebSocketConstants, MainStep
    PROVE  EngineInv'
<1>. DEFINE a == Head(toMain).id
<1>1. TypeOK /\ TypeOK'
  BY MainStepKeepsTypes DEF EngineInv
<1>2. toMain # <<>> /\ toMain' = Tail(toMain) /\ UNCHANGED <<owner, loading>>
  BY DEF MainStep, MainConnects, MainCancels, MainDisconnects, Take, window
<1>3. a \in Attempts /\ Head(toMain) = toMain[1] /\ 1 \in 1..Len(toMain)
  BY <1>1, <1>2, HeadOfMain DEF TypeOK
<1>. HIDE DEF a
<1>4. CASE MainConnects
  <2>1. IsConnect(1) /\ sock[a] = "none"
    BY <1>3, <1>4
    DEF MainConnects, Take, IsConnect, EngineInv, ConnectsAreFresh, a
  <2>2. /\ \/ /\ sock' = [sock EXCEPT ![a] = "closed"]
              /\ UNCHANGED pendingConnects
           \/ /\ sock' = [sock EXCEPT ![a] = "opening"]
              /\ pendingConnects' = pendingConnects \cup {a}
        /\ UNCHANGED <<connections, userClosed>>
    BY <1>4 DEF MainConnects, a
  <2>3. \A b \in Attempts : b # a => sock'[b] = sock[b]
    BY <1>1, <2>2 DEF TypeOK
  <2>4. ConnectsAreFresh'
    <3>1. \A b \in Attempts : sock[b] = "none" =>
              sock'[b] = "none" \/ (IsConnect(1) /\ b = Head(toMain).id)
      BY <2>1, <2>3 DEF a
    <3>. QED
      BY <1>1, <1>2, <3>1, ServedCallKeepsFresh DEF EngineInv
  <2>5. MapsMatchSockets'
    <3>1. CASE sock' = [sock EXCEPT ![a] = "closed"] /\ UNCHANGED pendingConnects
      BY <1>1, <1>3, <2>1, <2>2, <3>1 DEF EngineInv, MapsMatchSockets, TypeOK
    <3>2. CASE /\ sock' = [sock EXCEPT ![a] = "opening"]
               /\ pendingConnects' = pendingConnects \cup {a}
      BY <1>1, <1>3, <2>1, <2>2, <3>2 DEF EngineInv, MapsMatchSockets, TypeOK
    <3>. QED
      BY <2>2, <3>1, <3>2
  <2>6. ClosedAreClosed'
    <3>1. a \notin userClosed
      BY <2>1 DEF EngineInv, ClosedAreClosed
    <3>. QED
      BY <1>1, <2>2, <2>3, <3>1 DEF EngineInv, ClosedAreClosed, TypeOK
  <2>. QED
    BY <1>1, <2>4, <2>5, <2>6 DEF EngineInv
<1>5. CASE MainCancels
  <2>1. /\ IF a \in pendingConnects
           THEN /\ pendingConnects' = pendingConnects \ {a}
                /\ sock' = [sock EXCEPT ![a] = "closed"]
           ELSE UNCHANGED <<pendingConnects, sock>>
        /\ UNCHANGED <<connections, userClosed>>
    BY <1>5 DEF MainCancels, a
  <2>2. a \in pendingConnects => sock[a] = "opening"
    BY DEF EngineInv, MapsMatchSockets
  <2>3. \A b \in Attempts : sock[b] = "none" => sock'[b] = "none"
    BY <1>1, <2>1, <2>2 DEF TypeOK
  <2>4. ConnectsAreFresh'
    BY <1>1, <1>2, <2>3, ServedCallKeepsFresh DEF EngineInv
  <2>5. MapsMatchSockets' /\ ClosedAreClosed'
    BY <1>1, <1>3, <2>1, <2>2
    DEF EngineInv, MapsMatchSockets, ClosedAreClosed, TypeOK
  <2>. QED
    BY <1>1, <2>4, <2>5 DEF EngineInv
<1>6. CASE MainDisconnects
  <2>1. /\ IF a \in connections
           THEN /\ connections' = connections \ {a}
                /\ userClosed' = userClosed \cup {a}
                /\ sock' = [sock EXCEPT ![a] =
                      CASE sock[a] = "waiting" -> "closed"
                        [] sock[a] = "open"    -> "ending"
                        [] OTHER               -> "closing"]
           ELSE UNCHANGED <<connections, userClosed, sock>>
        /\ UNCHANGED pendingConnects
    BY <1>6 DEF MainDisconnects, a
  <2>2. a \in connections => sock[a] \in {"open", "broken", "waiting",
                                          "reopening", "reopened"}
    BY DEF EngineInv, MapsMatchSockets
  <2>3. \A b \in Attempts : sock[b] = "none" => sock'[b] = "none"
    BY <1>1, <2>1, <2>2 DEF TypeOK
  <2>4. ConnectsAreFresh'
    BY <1>1, <1>2, <2>3, ServedCallKeepsFresh DEF EngineInv
  <2>5. MapsMatchSockets' /\ ClosedAreClosed'
    <3>1. CASE a \in connections
      <4>1. MapsMatchSockets'
        BY <1>1, <1>3, <2>1, <2>2, <3>1 DEF EngineInv, MapsMatchSockets, TypeOK
      <4>2. ClosedAreClosed'
        <5>1. sock'[a] \in {"ending", "closing", "closed"}
          BY <1>1, <1>3, <2>1, <3>1 DEF TypeOK
        <5>2. \A b \in userClosed : sock'[b] \in {"ending", "closing", "closed"}
          <6>1. \A b \in Attempts : b # a => sock'[b] = sock[b]
            BY <1>1, <2>1, <3>1 DEF TypeOK
          <6>. QED
            BY <1>1, <5>1, <6>1 DEF EngineInv, ClosedAreClosed, TypeOK
        <5>. QED
          BY <2>1, <3>1, <5>1, <5>2 DEF ClosedAreClosed
      <4>. QED
        BY <4>1, <4>2
    <3>2. CASE a \notin connections
      BY <2>1, <2>2, <3>2
      DEF EngineInv, MapsMatchSockets, ClosedAreClosed
    <3>. QED
      BY <2>2, <3>1, <3>2
  <2>. QED
    BY <1>1, <2>4, <2>5 DEF EngineInv
<1>. QED
  BY <1>4, <1>5, <1>6 DEF MainStep

(* An attempt that is sent to main is not waiting any more.                *)
LEMMA SettingsLoadedKeepsInv ==
    ASSUME EngineInv, TypeOK', NEW a \in Attempts, SettingsLoaded(a)
    PROVE  EngineInv'
<1>1. /\ a \in loading /\ loading' = loading \ {a}
      /\ \/ UNCHANGED toMain
         \/ toMain' = Append(toMain, Call("connect", a, NoThen))
      /\ UNCHANGED <<owner, engine>>
  BY DEF SettingsLoaded
<1>2. MapsMatchSockets' /\ ClosedAreClosed'
  BY <1>1 DEF EngineInv, MapsMatchSockets, ClosedAreClosed, engine
<1>3. CASE UNCHANGED toMain
  BY <1>1, <1>2, <1>3 DEF EngineInv, ConnectsAreFresh, IsConnect, engine
<1>4. CASE toMain' = Append(toMain, Call("connect", a, NoThen))
  <2>1. toMain \in Seq(MainCall) /\ owner \in Seq(Tabs)
    BY DEF EngineInv, TypeOK
  <2>2. /\ Len(toMain) \in Nat /\ Len(toMain') = Len(toMain) + 1
        /\ \A n \in 1..Len(toMain) : toMain'[n] = toMain[n]
        /\ toMain'[Len(toMain')] = Call("connect", a, NoThen)
    BY <1>4, <2>1
  <2>3. toMain'[Len(toMain')].id = a
    BY <2>2 DEF Call
  <2>4. \A n \in 1..Len(toMain') : n # Len(toMain') => n \in 1..Len(toMain)
    BY <2>2
  <2>5. \A n \in 1..Len(toMain') : IsConnect(n)' =>
            \/ n = Len(toMain')
            \/ n \in 1..Len(toMain) /\ IsConnect(n) /\ toMain'[n] = toMain[n]
    BY <2>2, <2>4 DEF IsConnect
  <2>6. sock' = sock /\ owner' = owner /\ sock[a] = "none"
    BY <1>1 DEF EngineInv, ConnectsAreFresh, engine
  <2>7. a <= Len(owner) /\ a \notin loading'
    <3>1. a \in 1..Len(owner)
      BY <1>1 DEF EngineInv, ConnectsAreFresh
    <3>. QED
      BY <1>1, <3>1
  <2>8. \A n \in 1..Len(toMain) : IsConnect(n) => toMain[n].id # a
    BY <1>1 DEF EngineInv, ConnectsAreFresh
  <2>9. \A n \in 1..Len(toMain') : IsConnect(n)' =>
            /\ toMain'[n].id <= Len(owner') /\ toMain'[n].id \notin loading'
            /\ sock'[toMain'[n].id] = "none"
    BY <1>1, <2>3, <2>5, <2>6, <2>7 DEF EngineInv, ConnectsAreFresh
  <2>10. \A m, n \in 1..Len(toMain') :
            IsConnect(m)' /\ IsConnect(n)' /\ toMain'[m].id = toMain'[n].id
                => m = n
    BY <2>3, <2>5, <2>8 DEF EngineInv, ConnectsAreFresh
  <2>11. ConnectsAreFresh'
    BY <1>1, <2>6, <2>9, <2>10 DEF EngineInv, ConnectsAreFresh
  <2>. QED
    BY <1>2, <2>11 DEF EngineInv
<1>. QED
  BY <1>1, <1>3, <1>4

(* Every step keeps the invariant.                                         *)
LEMMA NextKeepsInv ==
    WebSocketConstants /\ EngineInv /\ [Next]_vars => EngineInv'
<1> SUFFICES ASSUME WebSocketConstants, EngineInv, [Next]_vars
             PROVE  EngineInv'
  OBVIOUS
<1>1. TypeOK'
  BY NextKeepsTypes DEF EngineInv
<1>2. CASE UNCHANGED vars
  BY <1>1, <1>2 DEF EngineInv, MapsMatchSockets, ClosedAreClosed,
     ConnectsAreFresh, IsConnect, vars, window, engine
<1>. QED
  BY <1>1, <1>2, UserStepKeepsInv, WindowStepKeepsInv, MainStepKeepsInv,
     SocketKeepsInv, SettingsLoadedKeepsInv DEF Next

(* The invariant holds from the start.                                     *)
LEMMA InitKeepsInv == WebSocketConstants /\ Init => EngineInv
<1> SUFFICES ASSUME WebSocketConstants, Init PROVE EngineInv
  OBVIOUS
<1>1. TypeOK
  BY InitIsTyped
<1>2. MapsMatchSockets /\ ClosedAreClosed
  BY DEF Init, MapsMatchSockets, ClosedAreClosed
<1>3. ConnectsAreFresh
  BY DEF Init, ConnectsAreFresh
<1>. QED
  BY <1>1, <1>2, <1>3 DEF EngineInv

(* The invariant holds in every state.                                     *)
LEMMA EngineInvariant == Spec => []EngineInv
<1>1. Init => EngineInv
  BY InitKeepsInv, WebSocketConstants
<1>2. EngineInv /\ [Next]_vars => EngineInv'
  BY NextKeepsInv, WebSocketConstants
<1>. QED
  BY <1>1, <1>2, PTL DEF Spec

(* The maps of the engine always say what its sockets are.                 *)
THEOREM MapsAreCurrent == Spec => []MapsMatchSockets
<1>1. EngineInv => MapsMatchSockets
  BY DEF EngineInv
<1>. QED
  BY <1>1, EngineInvariant, PTL

-----------------------------------------------------------------------------
(* What the window is told of a connection the user closed.                *)

(* The last message that is pushed is the last of the channel.             *)
LEMMA LastOfOne ==
    ASSUME toWindow \in Seq(WindowMessage), NEW m \in WindowMessage, Push(<<m>>)
    PROVE  toWindow'[Len(toWindow')] = m
BY DEF Push

(* The last of two messages.                                               *)
LEMMA LastOfTwo ==
    ASSUME toWindow \in Seq(WindowMessage), NEW m \in WindowMessage,
           NEW n \in WindowMessage, Push(<<m, n>>)
    PROVE  toWindow'[Len(toWindow')] = n
BY DEF Push

(* The last of three messages.                                             *)
LEMMA LastOfThree ==
    ASSUME toWindow \in Seq(WindowMessage), NEW l \in WindowMessage,
           NEW m \in WindowMessage, NEW n \in WindowMessage, Push(<<l, m, n>>)
    PROVE  toWindow'[Len(toWindow')] = n
BY DEF Push

(* The last message that is new in the window's channel says more of a     *)
(* connection than that it fails or is closed.                             *)
SaysMore(a) == /\ Len(toWindow') > Len(toWindow)
               /\ toWindow'[Len(toWindow')].id = a
               /\ toWindow'[Len(toWindow')].type \notin {"error", "close"}

(* The end of a socket the user closed is told as its close.               *)
LEMMA OnSocketClosedSaysClose ==
    ASSUME EngineInv, WebSocketConstants, NEW a \in Attempts,
           OnSocketClosed(a), NEW b \in userClosed
    PROVE  ~SaysMore(b)
<1>1. TypeOK
  BY DEF EngineInv
<1>2. CASE Retries(a)
  <2>1. a # b
    BY <1>2 DEF Retries
  <2>2. Push(<<Event("reconnecting", a)>>)
    BY <1>2 DEF OnSocketClosed
  <2>3. Event("reconnecting", a) \in WindowMessage
    BY MessagesAreTyped DEF EventTypes
  <2>4. toWindow'[Len(toWindow')] = Event("reconnecting", a)
    BY <1>1, <2>2, <2>3, LastOfOne, Zenon DEF TypeOK
  <2>. QED
    BY <2>1, <2>4 DEF SaysMore, Event
<1>3. CASE ~Retries(a)
  <2>1. Push(<<Event("close", a)>>)
    BY <1>3 DEF OnSocketClosed
  <2>2. Event("close", a) \in WindowMessage
    BY MessagesAreTyped DEF EventTypes
  <2>3. toWindow'[Len(toWindow')] = Event("close", a)
    BY <1>1, <2>1, <2>2, LastOfOne, Zenon DEF TypeOK
  <2>. QED
    BY <2>3 DEF SaysMore, Event
<1>. QED
  BY <1>2, <1>3

(* A step of a socket is about another one, or says no more than that.     *)
LEMMA SocketSaysClose ==
    ASSUME EngineInv, WebSocketConstants, NEW a \in Attempts,
           SocketStep(a) \/ SocketErrs(a) \/ ServerCloses(a),
           NEW b \in userClosed
    PROVE  ~SaysMore(b)
<1>1. toWindow \in Seq(WindowMessage)
      /\ sock[b] \in {"ending", "closing", "closed"}
  BY DEF EngineInv, TypeOK, ClosedAreClosed
<1>2. CASE HandshakeOpens(a)
  <2>1. a # b /\ Push(<<Event("open", a), Connected(a, TRUE)>>)
    BY <1>1, <1>2 DEF HandshakeOpens
  <2>2. Event("open", a) \in WindowMessage /\ Connected(a, TRUE) \in WindowMessage
    BY MessagesAreTyped DEF EventTypes
  <2>3. toWindow'[Len(toWindow')] = Connected(a, TRUE)
    BY <1>1, <2>1, <2>2, LastOfTwo, Zenon
  <2>. QED
    BY <2>1, <2>3 DEF SaysMore, Connected
<1>3. CASE HandshakeFails(a)
  <2>1. a # b /\ Push(HandshakeFailed(a))
    BY <1>1, <1>3 DEF HandshakeFails
  <2>2. /\ Event("error", a) \in WindowMessage
        /\ Event("close", a) \in WindowMessage
        /\ Connected(a, FALSE) \in WindowMessage
    BY MessagesAreTyped DEF EventTypes
  <2>3. toWindow'[Len(toWindow')] = Connected(a, FALSE)
    BY <1>1, <2>1, <2>2, LastOfThree, Zenon DEF HandshakeFailed
  <2>. QED
    BY <2>1, <2>3 DEF SaysMore, Connected
<1>4. CASE SocketErrs(a)
  <2>1. Push(<<Event("error", a)>>)
    BY <1>4 DEF SocketErrs
  <2>2. Event("error", a) \in WindowMessage
    BY MessagesAreTyped DEF EventTypes
  <2>3. toWindow'[Len(toWindow')] = Event("error", a)
    BY <1>1, <2>1, <2>2, LastOfOne, Zenon
  <2>. QED
    BY <2>3 DEF SaysMore, Event
<1>5. CASE Reconnect(a)
  BY <1>1, <1>5 DEF Reconnect, SaysMore
<1>6. CASE ReconnectOpens(a)
  <2>1. a # b /\ Push(<<Event("open", a)>>)
    BY <1>1, <1>6 DEF ReconnectOpens
  <2>2. Event("open", a) \in WindowMessage
    BY MessagesAreTyped DEF EventTypes
  <2>3. toWindow'[Len(toWindow')] = Event("open", a)
    BY <1>1, <2>1, <2>2, LastOfOne, Zenon
  <2>. QED
    BY <2>1, <2>3 DEF SaysMore, Event
<1>7. CASE OnSocketClosed(a)
  BY <1>7, OnSocketClosedSaysClose
<1>. QED
  BY <1>2, <1>3, <1>4, <1>5, <1>6, <1>7
  DEF SocketStep, BrokenCloses, ClosingEnds, ReconnectFails, ServerCloses

(* The last message, when others come before three.                        *)
LEMMA LastAfterThree ==
    ASSUME toWindow \in Seq(WindowMessage), NEW p \in Seq(WindowMessage),
           NEW l \in WindowMessage, NEW m \in WindowMessage,
           NEW n \in WindowMessage, Push(p \o <<l, m, n>>)
    PROVE  toWindow'[Len(toWindow')] = n
<1>. DEFINE q == p \o <<l, m, n>>
<1>1. q \in Seq(WindowMessage) /\ Len(q) = Len(p) + 3 /\ q[Len(p) + 3] = n
  OBVIOUS
<1>2. toWindow' = toWindow \o q
  BY DEF Push
<1>. HIDE DEF q
<1>3. Len(toWindow) \in Nat /\ Len(p) \in Nat
  OBVIOUS
<1>4. Len(toWindow') = Len(toWindow) + Len(q)
  BY <1>1, <1>2, ConcatProperties
<1>. QED
  BY <1>1, <1>2, <1>3, <1>4

(* The last message, when others come before it.                           *)
LEMMA LastAfter ==
    ASSUME toWindow \in Seq(WindowMessage), NEW p \in Seq(WindowMessage),
           NEW n \in WindowMessage, Push(p \o <<n>>)
    PROVE  toWindow'[Len(toWindow')] = n
<1>. DEFINE q == p \o <<n>>
<1>1. q \in Seq(WindowMessage) /\ Len(q) = Len(p) + 1 /\ q[Len(p) + 1] = n
  OBVIOUS
<1>2. toWindow' = toWindow \o q
  BY DEF Push
<1>. HIDE DEF q
<1>3. Len(toWindow) \in Nat /\ Len(p) \in Nat
  OBVIOUS
<1>4. Len(toWindow') = Len(toWindow) + Len(q)
  BY <1>1, <1>2, ConcatProperties
<1>. QED
  BY <1>1, <1>2, <1>3, <1>4

(* A call that is served is answered about another connection, or about    *)
(* none.                                                                   *)
LEMMA MainSaysClose ==
    ASSUME EngineInv, WebSocketConstants, MainStep, NEW b \in userClosed
    PROVE  ~SaysMore(b)
<1>. DEFINE a == Head(toMain).id
            k == Head(toMain).then
            done == Finished(k)
<1>1. /\ toWindow \in Seq(WindowMessage) /\ toMain \in Seq(MainCall)
      /\ sock[b] \in {"ending", "closing", "closed"} /\ b \in Attempts
  BY DEF EngineInv, TypeOK, ClosedAreClosed
<1>2. toMain # <<>>
  BY DEF MainStep, MainConnects, MainCancels, MainDisconnects, Take
<1>3. /\ a \in Attempts /\ k \in Continuation \cup {NoThen}
      /\ done \in Seq(WindowMessage)
  BY <1>1, <1>2, HeadOfMain, FinishedIsTyped
<1>4. b # None
  BY <1>1 DEF Attempts, None
<1>5. /\ Event("error", a) \in WindowMessage
      /\ Event("close", a) \in WindowMessage
      /\ Connected(a, FALSE) \in WindowMessage
  BY <1>3, MessagesAreTyped DEF EventTypes
<1>6. Push(done) => ~SaysMore(b)
  <2>1. CASE k = NoThen
    BY <1>1, <2>1 DEF Finished, Push, SaysMore
  <2>2. CASE k # NoThen
    <3>1. done = <<Done(k)>> /\ Done(k) \in WindowMessage
      BY <1>3, <2>2, MessagesAreTyped DEF Finished
    <3>2. Push(done) => toWindow'[Len(toWindow')] = Done(k)
      BY <1>1, <3>1, LastOfOne, Zenon
    <3>. QED
      BY <1>4, <3>2 DEF SaysMore, Done
  <2>. QED
    BY <2>1, <2>2
<1>7. toWindow'[Len(toWindow')] = Connected(a, FALSE) /\ a # b
         => ~SaysMore(b)
  BY DEF SaysMore, Connected
<1>. HIDE DEF a, k, done
<1>8. CASE MainConnects
  <2>1. sock[a] = "none"
    BY <1>1, <1>2, <1>8
    DEF MainConnects, Take, EngineInv, ConnectsAreFresh, IsConnect, a
  <2>2. Push(<<Connected(a, FALSE)>>) \/ UNCHANGED toWindow
    BY <1>8 DEF MainConnects, a
  <2>3. CASE Push(<<Connected(a, FALSE)>>)
    <3>1. toWindow'[Len(toWindow')] = Connected(a, FALSE)
      BY <1>1, <1>5, <2>3, LastOfOne, Zenon
    <3>. QED
      BY <1>1, <1>7, <2>1, <3>1
  <2>4. CASE UNCHANGED toWindow
    BY <1>1, <2>4 DEF SaysMore
  <2>. QED
    BY <2>2, <2>3, <2>4
<1>9. CASE MainCancels
  <2>1. CASE a \notin pendingConnects
    BY <1>6, <1>9, <2>1 DEF MainCancels, a, k, done
  <2>2. CASE a \in pendingConnects
    <3>1. a # b
      BY <1>1, <2>2 DEF EngineInv, MapsMatchSockets
    <3>2. CASE Push(done \o HandshakeFailed(a))
      <4>1. toWindow'[Len(toWindow')] = Connected(a, FALSE)
        BY <1>1, <1>3, <1>5, <3>2, LastAfterThree, Zenon DEF HandshakeFailed
      <4>. QED
        BY <1>7, <3>1, <4>1
    <3>3. CASE Push(<<Event("error", a), Event("close", a)>> \o done
                        \o <<Connected(a, FALSE)>>)
      <4>1. <<Event("error", a), Event("close", a)>> \o done
                \in Seq(WindowMessage)
        BY <1>3, <1>5, PairIsSequence, ConcatProperties
      <4>2. toWindow'[Len(toWindow')] = Connected(a, FALSE)
        BY <1>1, <1>5, <3>3, <4>1, LastAfter, Zenon
      <4>. QED
        BY <1>7, <3>1, <4>2
    <3>. QED
      BY <1>9, <2>2, <3>2, <3>3 DEF MainCancels, a, k, done
  <2>. QED
    BY <2>1, <2>2
<1>10. CASE MainDisconnects
  BY <1>6, <1>10 DEF MainDisconnects, k, done
<1>. QED
  BY <1>8, <1>9, <1>10 DEF MainStep

(* Once the user closed a connection nothing opens it again, and main says *)
(* no more of it than that it fails or is closed.                          *)
THEOREM UserCloseIsFinal == Spec => UserClosedStaysClosed
<1>1. ASSUME EngineInv, EngineInv', [Next]_vars, NEW b \in userClosed
      PROVE  /\ sock'[b] \in {"ending", "closing", "closed"}
             /\ (Len(toWindow') > Len(toWindow)
                   /\ toWindow'[Len(toWindow')].id = b)
                   => toWindow'[Len(toWindow')].type \in {"error", "close"}
  <2>1. toWindow \in Seq(WindowMessage)
    BY <1>1 DEF EngineInv, TypeOK
  <2>2. b \in userClosed'
    <3>1. \/ UNCHANGED userClosed
          \/ MainDisconnects
      BY <1>1 DEF Next, vars, engine, UserStep, Connect, ConnectRefused,
         Disconnect, CloseTab, LeaveProject, WindowStep, EventArrives,
         ConnectSucceeds, ConnectFails, DisconnectGoesOn, MainStep,
         MainConnects, MainCancels, SettingsLoaded, SocketStep, SocketErrs,
         ServerCloses, HandshakeOpens, HandshakeFails, BrokenCloses,
         ClosingEnds, Reconnect, ReconnectOpens, ReconnectFails,
         OnSocketClosed
    <3>. QED
      BY <1>1, <3>1 DEF MainDisconnects
  <2>3. sock'[b] \in {"ending", "closing", "closed"}
    BY <1>1, <2>2 DEF EngineInv, ClosedAreClosed
  <2>4. ~SaysMore(b)
    <3>1. CASE UNCHANGED toWindow
      BY <2>1, <3>1 DEF SaysMore
    <3>2. CASE WindowStep
      <4>1. toWindow # <<>> /\ toWindow' = Tail(toWindow)
        BY <3>2 DEF WindowStep, EventArrives, ConnectSucceeds, ConnectFails,
           DisconnectGoesOn, Reply
      <4>2. ~(Len(toWindow') > Len(toWindow))
        BY <2>1, <4>1
      <4>. QED
        BY <4>2 DEF SaysMore
    <3>3. CASE MainStep
      BY <1>1, <3>3, MainSaysClose, WebSocketConstants
    <3>4. ASSUME NEW a \in Attempts,
                 SocketStep(a) \/ SocketErrs(a) \/ ServerCloses(a)
          PROVE  ~SaysMore(b)
      BY <1>1, <3>4, SocketSaysClose, WebSocketConstants
    <3>. QED
      BY <1>1, <3>1, <3>2, <3>3, <3>4
      DEF Next, vars, window, engine, UserStep, Connect, ConnectRefused,
          Disconnect, CloseTab, LeaveProject, SettingsLoaded
  <2>. QED
    BY <2>3, <2>4 DEF SaysMore
<1>2. EngineInv /\ EngineInv' /\ [Next]_vars
         => [\A a \in userClosed :
               /\ sock'[a] \in {"ending", "closing", "closed"}
               /\ (Len(toWindow') > Len(toWindow)
                     /\ toWindow'[Len(toWindow')].id = a)
                     => toWindow'[Len(toWindow')].type \in {"error", "close"}]_vars
  BY <1>1
<1>. QED
  BY <1>2, EngineInvariant, PTL DEF Spec, UserClosedStaysClosed

-----------------------------------------------------------------------------
(* Whose a connection is.                                                  *)

Holds(a) == \E t \in Tabs : tab[t].conn = a

(* A close that is told is the end of its socket, for good.                *)
ClosesAreLast ==
    \A n \in 1..Len(toWindow) :
        toWindow[n].type = "close" => sock[toWindow[n].id] = "closed"

OwnerInv == EngineInv /\ ClosesAreLast /\ OpenIsSomebodys

(* A socket that is closed stays closed.                                   *)
LEMMA ClosedForGood ==
    ASSUME EngineInv, WebSocketConstants, [Next]_vars,
           NEW a \in Attempts, sock[a] = "closed"
    PROVE  sock'[a] = "closed"
<1>1. /\ sock \in [Attempts -> SockStates]
      /\ a \notin pendingConnects /\ a \notin connections
  BY DEF EngineInv, TypeOK, MapsMatchSockets
<1>2. CASE UNCHANGED sock
  BY <1>2
<1>3. CASE MainStep
  <2>1. CASE MainConnects
    <3>1. sock[Head(toMain).id] = "none"
      <4>1. toMain # <<>> /\ Head(toMain) = toMain[1] /\ 1 \in 1..Len(toMain)
        BY <2>1 DEF MainConnects, Take, EngineInv, TypeOK
      <4>. QED
        BY <2>1, <4>1 DEF MainConnects, Take, IsConnect, EngineInv, ConnectsAreFresh
    <3>. QED
      BY <1>1, <2>1, <3>1 DEF MainConnects
  <2>2. CASE MainCancels
    BY <1>1, <2>2 DEF MainCancels
  <2>3. CASE MainDisconnects
    BY <1>1, <2>3 DEF MainDisconnects
  <2>. QED
    BY <1>3, <2>1, <2>2, <2>3 DEF MainStep
<1>4. ASSUME NEW b \in Attempts,
             SocketStep(b) \/ SocketErrs(b) \/ ServerCloses(b)
      PROVE  sock'[a] = "closed"
  BY <1>1, <1>4 DEF SocketStep, SocketErrs, ServerCloses, HandshakeOpens,
     HandshakeFails, BrokenCloses, ClosingEnds, Reconnect, ReconnectOpens,
     ReconnectFails, OnSocketClosed
<1>. QED
  BY <1>2, <1>3, <1>4 DEF Next, vars, window, engine, UserStep, Connect,
     ConnectRefused, Disconnect, CloseTab, LeaveProject, WindowStep,
     EventArrives, ConnectSucceeds, ConnectFails, DisconnectGoesOn,
     SettingsLoaded

(* What main pushes, and that a close among it is the end of its socket.   *)
Appended == \E msgs \in Seq(WindowMessage) :
    /\ toWindow' = toWindow \o msgs
    /\ \A n \in 1..Len(msgs) :
          msgs[n].type = "close" => sock'[msgs[n].id] = "closed"

(* Messages that tell no close, or that of one socket.                     *)
Quiet(msgs) == msgs \in Seq(WindowMessage) /\ \A n \in 1..Len(msgs) : msgs[n].type # "close"
Tells(msgs, a) ==
    /\ msgs \in Seq(WindowMessage)
    /\ \A n \in 1..Len(msgs) : msgs[n].type = "close" => msgs[n].id = a

(* No message, one message, and messages after others.                     *)
LEMMA NoMessage == Quiet(<<>>)
BY DEF Quiet

LEMMA OneMessage ==
    ASSUME NEW m \in WindowMessage, NEW a
    PROVE  /\ m.type # "close" => Quiet(<<m>>)
           /\ (m.type = "close" => m.id = a) => Tells(<<m>>, a)
<1>1. <<m>> \in Seq(WindowMessage) /\ Len(<<m>>) = 1 /\ <<m>>[1] = m
  OBVIOUS
<1>2. \A n \in 1..Len(<<m>>) : <<m>>[n] = m
  BY <1>1
<1>. HIDE DEF WindowMessage
<1>. QED
  BY <1>1, <1>2 DEF Quiet, Tells

LEMMA MoreMessages ==
    ASSUME NEW s, NEW t, NEW a, Quiet(s) \/ Tells(s, a), Quiet(t) \/ Tells(t, a)
    PROVE  Tells(s \o t, a)
<1>1. s \in Seq(WindowMessage) /\ t \in Seq(WindowMessage)
  BY DEF Quiet, Tells
<1>2. s \o t \in Seq(WindowMessage)
  BY <1>1, ConcatProperties
<1>3. \A n \in 1..Len(s \o t) :
         \/ n \in 1..Len(s) /\ (s \o t)[n] = s[n]
         \/ n - Len(s) \in 1..Len(t) /\ (s \o t)[n] = t[n - Len(s)]
  BY <1>1
<1>. QED
  BY <1>2, <1>3 DEF Quiet, Tells

(* Messages that tell no close can be pushed, and the close of a socket    *)
(* that is closed.                                                         *)
LEMMA QuietAppended ==
    ASSUME NEW msgs, Quiet(msgs), Push(msgs)
    PROVE  Appended
BY DEF Push, Appended, Quiet

LEMMA CloseAppended ==
    ASSUME NEW msgs, NEW a, Tells(msgs, a), Push(msgs), sock'[a] = "closed"
    PROVE  Appended
BY DEF Push, Appended, Tells

LEMMA NothingAppended ==
    ASSUME toWindow \in Seq(WindowMessage), UNCHANGED toWindow
    PROVE  Appended
<1>1. Push(<<>>)
  BY DEF Push
<1>. QED
  BY <1>1, NoMessage, QuietAppended

(* What each message tells.                                                *)
LEMMA MessagesTell ==
    ASSUME NEW a \in Attempts
    PROVE  /\ \A type \in EventTypes \ {"close"} : Quiet(<<Event(type, a)>>)
           /\ Tells(<<Event("close", a)>>, a)
           /\ \A ok \in BOOLEAN : Quiet(<<Connected(a, ok)>>)
           /\ Quiet(<<Event("open", a), Connected(a, TRUE)>>)
           /\ Tells(<<Event("error", a), Event("close", a)>>, a)
           /\ Tells(HandshakeFailed(a), a)
<1>1. /\ \A type \in EventTypes : Event(type, a) \in WindowMessage
      /\ \A ok \in BOOLEAN : Connected(a, ok) \in WindowMessage
  BY MessagesAreTyped
<1>2. /\ \A type \in EventTypes : Event(type, a).type = type /\ Event(type, a).id = a
      /\ \A ok \in BOOLEAN : Connected(a, ok).type = "connected"
  BY DEF Event, Connected
<1>3. /\ \A type \in EventTypes \ {"close"} : Quiet(<<Event(type, a)>>)
      /\ Tells(<<Event("close", a)>>, a)
  BY <1>1, <1>2, OneMessage DEF EventTypes
<1>4. \A ok \in BOOLEAN : Quiet(<<Connected(a, ok)>>)
  BY <1>1, <1>2, OneMessage
<1>5. Quiet(<<Event("open", a), Connected(a, TRUE)>>)
  <2>. DEFINE m == Event("open", a)
              c == Connected(a, TRUE)
  <2>1. /\ m \in WindowMessage /\ c \in WindowMessage
        /\ m.type # "close" /\ c.type # "close"
    BY <1>1, <1>2 DEF EventTypes
  <2>. HIDE DEF m, c
  <2>2. <<m, c>> \in Seq(WindowMessage) /\ Len(<<m, c>>) = 2
    BY <2>1, PairIsSequence
  <2>3. \A n \in 1..Len(<<m, c>>) : <<m, c>>[n] = m \/ <<m, c>>[n] = c
    BY <2>2
  <2>4. Quiet(<<m, c>>)
    BY <2>1, <2>2, <2>3 DEF Quiet
  <2>. QED
    BY <2>4 DEF m, c
<1>6. /\ Tells(<<Event("error", a), Event("close", a)>>, a)
      /\ Tells(HandshakeFailed(a), a)
  <2>. DEFINE e == Event("error", a)
              m == Event("close", a)
              c == Connected(a, FALSE)
  <2>1. /\ e \in WindowMessage /\ m \in WindowMessage /\ c \in WindowMessage
        /\ e.type # "close" /\ c.type # "close" /\ m.id = a
    BY <1>1, <1>2 DEF EventTypes
  <2>2. HandshakeFailed(a) = <<e, m, c>>
    BY DEF HandshakeFailed
  <2>. HIDE DEF e, m, c
  <2>3. /\ <<e, m>> \in Seq(WindowMessage) /\ Len(<<e, m>>) = 2
        /\ <<e, m, c>> \in Seq(WindowMessage) /\ Len(<<e, m, c>>) = 3
    BY <2>1, PairIsSequence, TripleIsSequence
  <2>4. /\ \A n \in 1..Len(<<e, m>>) : <<e, m>>[n] = e \/ <<e, m>>[n] = m
        /\ \A n \in 1..Len(<<e, m, c>>) : \/ <<e, m, c>>[n] = e
                                          \/ <<e, m, c>>[n] = m
                                          \/ <<e, m, c>>[n] = c
    BY <2>3
  <2>5. Tells(<<e, m>>, a) /\ Tells(<<e, m, c>>, a)
    BY <2>1, <2>3, <2>4 DEF Tells
  <2>. QED
    BY <2>2, <2>5 DEF e, m
<1>. QED
  BY <1>3, <1>4, <1>5, <1>6

(* An answer of a call tells no close.                                     *)
LEMMA FinishedTellsNoClose ==
    ASSUME NEW k \in Continuation \cup {NoThen}
    PROVE  Quiet(Finished(k))
<1>1. CASE k = NoThen
  BY <1>1, NoMessage DEF Finished
<1>2. CASE k # NoThen
  <2>1. Done(k) \in WindowMessage /\ Done(k).type = "done"
    BY <1>2, MessagesAreTyped DEF Done
  <2>2. Quiet(<<Done(k)>>)
    BY <2>1, OneMessage
  <2>. QED
    BY <1>2, <2>2 DEF Finished
<1>. QED
  BY <1>1, <1>2

(* What main does with a call only tells the close of a socket it closed.  *)
LEMMA MainAppends ==
    ASSUME EngineInv, WebSocketConstants, MainStep
    PROVE  Appended
<1>. DEFINE a == Head(toMain).id
            done == Finished(Head(toMain).then)
<1>1. /\ toMain # <<>> /\ toMain \in Seq(MainCall) /\ sock \in [Attempts -> SockStates]
      /\ toWindow \in Seq(WindowMessage)
  BY DEF MainStep, MainConnects, MainCancels, MainDisconnects, Take,
         EngineInv, TypeOK
<1>2. a \in Attempts /\ Quiet(done)
  BY <1>1, HeadOfMain, FinishedTellsNoClose
<1>3. CASE MainConnects
  <2>1. Push(<<Connected(a, FALSE)>>) \/ UNCHANGED toWindow
    BY <1>3 DEF MainConnects
  <2>2. Quiet(<<Connected(a, FALSE)>>)
    BY <1>2, MessagesTell
  <2>. QED
    BY <1>1, <2>1, <2>2, NothingAppended, QuietAppended
<1>4. CASE MainCancels
  <2>1. CASE a \notin pendingConnects
    BY <1>2, <1>4, <2>1, QuietAppended DEF MainCancels
  <2>2. CASE a \in pendingConnects
    <3>1. sock'[a] = "closed"
      BY <1>1, <1>2, <1>4, <2>2 DEF MainCancels
    <3>. DEFINE p == <<Event("error", a), Event("close", a)>>
                c == <<Connected(a, FALSE)>>
    <3>2. Push(done \o HandshakeFailed(a)) \/ Push(p \o done \o c)
      BY <1>4, <2>2 DEF MainCancels
    <3>3. Tells(p, a) /\ Quiet(c) /\ Tells(HandshakeFailed(a), a)
      BY <1>2, MessagesTell
    <3>. HIDE DEF p, c, done, a
    <3>4. Tells(done \o HandshakeFailed(a), a) /\ Tells(p \o done, a)
      BY <1>2, <3>3, MoreMessages
    <3>5. Tells((p \o done) \o c, a)
      BY <3>3, <3>4, MoreMessages
    <3>. QED
      BY <3>1, <3>2, <3>4, <3>5, CloseAppended
  <2>. QED
    BY <2>1, <2>2
<1>5. CASE MainDisconnects
  BY <1>2, <1>5, QuietAppended DEF MainDisconnects
<1>. QED
  BY <1>3, <1>4, <1>5 DEF MainStep

(* So does what a socket or its timer does.                                *)
LEMMA SocketAppends ==
    ASSUME EngineInv, WebSocketConstants, NEW a \in Attempts,
           SocketStep(a) \/ SocketErrs(a) \/ ServerCloses(a)
    PROVE  Appended
<1>1. sock \in [Attempts -> SockStates] /\ toWindow \in Seq(WindowMessage)
  BY DEF EngineInv, TypeOK
<1>2. CASE HandshakeOpens(a)
  BY <1>2, MessagesTell, QuietAppended DEF HandshakeOpens
<1>3. CASE HandshakeFails(a)
  <2>1. Push(HandshakeFailed(a)) /\ sock'[a] = "closed"
    BY <1>1, <1>3 DEF HandshakeFails
  <2>. QED
    BY <2>1, MessagesTell, CloseAppended
<1>4. CASE SocketErrs(a)
  <2>1. Push(<<Event("error", a)>>) /\ Quiet(<<Event("error", a)>>)
    BY <1>4, MessagesTell DEF SocketErrs, EventTypes
  <2>. QED
    BY <2>1, QuietAppended
<1>5. CASE ReconnectOpens(a)
  <2>1. Push(<<Event("open", a)>>) /\ Quiet(<<Event("open", a)>>)
    BY <1>5, MessagesTell DEF ReconnectOpens, EventTypes
  <2>. QED
    BY <2>1, QuietAppended
<1>6. CASE Reconnect(a)
  BY <1>1, <1>6, NothingAppended DEF Reconnect
<1>7. CASE OnSocketClosed(a)
  <2>1. CASE Retries(a)
    <3>1. Push(<<Event("reconnecting", a)>>) /\ Quiet(<<Event("reconnecting", a)>>)
      BY <1>7, <2>1, MessagesTell DEF OnSocketClosed, EventTypes
    <3>. QED
      BY <3>1, QuietAppended
  <2>2. CASE ~Retries(a)
    <3>1. Push(<<Event("close", a)>>) /\ sock'[a] = "closed"
      BY <1>1, <1>7, <2>2 DEF OnSocketClosed
    <3>. QED
      BY <3>1, MessagesTell, CloseAppended
  <2>. QED
    BY <2>1, <2>2
<1>. QED
  BY <1>2, <1>3, <1>4, <1>5, <1>6, <1>7
  DEF SocketStep, BrokenCloses, ClosingEnds, ReconnectFails, ServerCloses

(* The window only takes the first message of its channel.                 *)
LEMMA WindowChannel ==
    ASSUME EngineInv, WebSocketConstants, [Next]_vars
    PROVE  \/ Appended
           \/ WindowStep /\ toWindow # <<>> /\ toWindow' = Tail(toWindow)
<1>1. CASE UNCHANGED toWindow
  BY <1>1, NothingAppended DEF EngineInv, TypeOK
<1>2. CASE WindowStep
  BY <1>2 DEF WindowStep, EventArrives, ConnectSucceeds, ConnectFails,
     DisconnectGoesOn, Reply
<1>. QED
  BY <1>1, <1>2, MainAppends, SocketAppends DEF Next, vars, UserStep,
     Connect, ConnectRefused, Disconnect, CloseTab, LeaveProject, SettingsLoaded

(* A close in the channel stays the end of its socket.                     *)
LEMMA NextKeepsCloses ==
    ASSUME EngineInv, WebSocketConstants, ClosesAreLast, [Next]_vars
    PROVE  ClosesAreLast'
<1>1. toWindow \in Seq(WindowMessage)
  BY DEF EngineInv, TypeOK
<1>2. \A n \in 1..Len(toWindow) :
          toWindow[n].type = "close" => /\ toWindow[n].id \in Attempts
                                        /\ sock[toWindow[n].id] = "closed"
  <2>1. \A n \in 1..Len(toWindow) : toWindow[n] \in WindowMessage
    BY <1>1
  <2>. QED
    BY <2>1 DEF ClosesAreLast, WindowMessage
<1>3. \A n \in 1..Len(toWindow) :
          toWindow[n].type = "close" => sock'[toWindow[n].id] = "closed"
  BY <1>2, ClosedForGood
<1>4. CASE Appended
  <2>1. PICK msgs \in Seq(WindowMessage) :
             /\ toWindow' = toWindow \o msgs
             /\ \A n \in 1..Len(msgs) :
                   msgs[n].type = "close" => sock'[msgs[n].id] = "closed"
    BY <1>4 DEF Appended
  <2>2. \A n \in 1..Len(toWindow') :
           \/ n \in 1..Len(toWindow) /\ toWindow'[n] = toWindow[n]
           \/ /\ n - Len(toWindow) \in 1..Len(msgs)
              /\ toWindow'[n] = msgs[n - Len(toWindow)]
    BY <1>1, <2>1
  <2>. QED
    BY <1>3, <2>1, <2>2 DEF ClosesAreLast
<1>5. CASE toWindow # <<>> /\ toWindow' = Tail(toWindow)
  <2>1. \A n \in 1..Len(toWindow') :
            n + 1 \in 1..Len(toWindow) /\ toWindow'[n] = toWindow[n + 1]
    BY <1>1, <1>5
  <2>. QED
    BY <1>3, <2>1 DEF ClosesAreLast
<1>. QED
  BY <1>4, <1>5, WindowChannel

(* What is pushed comes after what was on its way.                         *)
LEMMA ComingStays ==
    ASSUME toWindow \in Seq(WindowMessage), Appended, NEW a, Coming(a)
    PROVE  Coming(a)'
<1>1. PICK msgs \in Seq(WindowMessage) : toWindow' = toWindow \o msgs
  BY DEF Appended
<1>2. /\ 1..Len(toWindow) \subseteq 1..Len(toWindow')
      /\ \A n \in 1..Len(toWindow) : toWindow'[n] = toWindow[n]
  BY <1>1
<1>. QED
  BY <1>2 DEF Coming, Connected

(* A reply that is on its way is the first message, or stays on its way.   *)
LEMMA ComingOrFirst ==
    ASSUME toWindow \in Seq(WindowMessage), toWindow # <<>>,
           toWindow' = Tail(toWindow), NEW a, Coming(a)
    PROVE  Coming(a)' \/ Head(toWindow) = Connected(a, TRUE)
<1>1. PICK n \in 1..Len(toWindow) : toWindow[n] = Connected(a, TRUE)
  BY DEF Coming
<1>2. CASE n = 1
  <2>1. Head(toWindow) = toWindow[1]
    OBVIOUS
  <2>. QED
    BY <1>1, <1>2, <2>1
<1>3. CASE n # 1
  <2>1. n - 1 \in 1..Len(toWindow') /\ toWindow'[n - 1] = toWindow[n]
    BY <1>3
  <2>. QED
    BY <1>1, <2>1 DEF Coming, Connected
<1>. QED
  BY <1>2, <1>3

(* What the window sends comes after what was on its way.                  *)
LEMMA ClosingStays ==
    ASSUME toMain \in Seq(MainCall), NEW calls \in Seq(MainCall),
           toMain' = toMain \o calls, NEW a,
           Closing(a) \/ \E n \in 1..Len(calls) :
                             calls[n].op = "disconnect" /\ calls[n].id = a
    PROVE  Closing(a)'
<1>1. /\ 1..Len(toMain) \subseteq 1..Len(toMain')
      /\ \A n \in 1..Len(toMain) : toMain'[n] = toMain[n]
      /\ \A n \in 1..Len(calls) : /\ n + Len(toMain) \in 1..Len(toMain')
                                  /\ toMain'[n + Len(toMain)] = calls[n]
  OBVIOUS
<1>. QED
  BY <1>1 DEF Closing

(* A call that is sent is on its way, and those before it stay so.         *)
LEMMA ClosingSent ==
    ASSUME toMain \in Seq(MainCall), NEW c,
           toMain' = Append(toMain, c), c.op = "disconnect"
    PROVE  Closing(c.id)'
<1>1. Len(toMain') \in 1..Len(toMain') /\ toMain'[Len(toMain')] = c
  OBVIOUS
<1>. QED
  BY <1>1 DEF Closing

LEMMA ClosingRemains ==
    ASSUME toMain \in Seq(MainCall),
           UNCHANGED toMain \/ \E c : toMain' = Append(toMain, c), NEW a, Closing(a)
    PROVE  Closing(a)'
<1>1. CASE UNCHANGED toMain
  BY <1>1 DEF Closing
<1>2. ASSUME NEW c, toMain' = Append(toMain, c)
      PROVE  Closing(a)'
  <2>1. /\ 1..Len(toMain) \subseteq 1..Len(toMain')
        /\ \A n \in 1..Len(toMain) : toMain'[n] = toMain[n]
    BY <1>2
  <2>. QED
    BY <2>1 DEF Closing
<1>. QED
  BY <1>1, <1>2

(* A call that closes is the first one, or stays on its way.               *)
LEMMA ClosingOrFirst ==
    ASSUME toMain \in Seq(MainCall), toMain # <<>>, toMain' = Tail(toMain),
           NEW a, Closing(a)
    PROVE  \/ Closing(a)'
           \/ Head(toMain).op = "disconnect" /\ Head(toMain).id = a
<1>1. PICK n \in 1..Len(toMain) : toMain[n].op = "disconnect" /\ toMain[n].id = a
  BY DEF Closing
<1>2. CASE n = 1
  BY <1>1, <1>2
<1>3. CASE n # 1
  <2>1. n - 1 \in 1..Len(toMain') /\ toMain'[n - 1] = toMain[n]
    BY <1>3
  <2>. QED
    BY <1>1, <2>1 DEF Closing
<1>. QED
  BY <1>2, <1>3

(* A step of the window leaves an open connection with somebody, when each *)
(* tab that gives one up sends its close or is seen to drop it, and a reply*)
(* that is taken is held or closed.                                        *)
LEMMA WindowKeepsOwners ==
    ASSUME OpenIsSomebodys, UNCHANGED connections,
           forgotten \subseteq forgotten',
           \A a \in connections : Coming(a) => Coming(a)' \/ Holds(a)' \/ Closing(a)',
           \A a \in connections : Closing(a) => Closing(a)',
           \A a \in connections, t \in Tabs :
              tab[t].conn = a => tab'[t].conn = a \/ Closing(a)' \/ a \in forgotten'
    PROVE  OpenIsSomebodys'
<1>. SUFFICES ASSUME NEW a \in connections
              PROVE  Holds(a)' \/ Coming(a)' \/ Closing(a)' \/ a \in forgotten'
  BY DEF OpenIsSomebodys, Holds
<1>1. Holds(a) \/ Coming(a) \/ Closing(a) \/ a \in forgotten
  BY DEF OpenIsSomebodys, Holds
<1>2. CASE Holds(a)
  <2>1. PICK t \in Tabs : tab[t].conn = a
    BY <1>2 DEF Holds
  <2>2. tab'[t].conn = a \/ Closing(a)' \/ a \in forgotten'
    BY <2>1
  <2>. QED
    BY <2>2 DEF Holds
<1>. QED
  BY <1>1, <1>2

(* What the user does leaves every open connection with somebody.          *)
LEMMA UserStepKeepsOwners ==
    ASSUME OwnerInv, WebSocketConstants, UserStep
    PROVE  OpenIsSomebodys'
<1>1. /\ TypeOK /\ toMain \in Seq(MainCall)
      /\ \A t \in Tabs : tab[t] \in Slice
  BY DEF OwnerInv, EngineInv, TypeOK
<1>2. UNCHANGED <<toWindow, connections>>
  BY DEF UserStep, Connect, ConnectRefused, Disconnect, CloseTab, LeaveProject,
         engine
<1>3. \A a : Coming(a) => Coming(a)'
  BY <1>2 DEF Coming, Connected
<1>4. connections \subseteq Attempts /\ None \notin connections
  BY <1>1 DEF TypeOK, Attempts, None
<1>5. ASSUME \A a : Closing(a) => Closing(a)', forgotten \subseteq forgotten',
             \A a \in connections, t \in Tabs :
                tab[t].conn = a => tab'[t].conn = a \/ Closing(a)' \/ a \in forgotten'
      PROVE  OpenIsSomebodys'
  BY <1>2, <1>3, <1>5, WindowKeepsOwners DEF OwnerInv
<1>6. ASSUME UNCHANGED toMain \/ \E c : toMain' = Append(toMain, c)
      PROVE  \A a : Closing(a) => Closing(a)'
  BY <1>1, <1>6, ClosingRemains
<1>7. ASSUME NEW u \in Tabs, Connect(u) \/ ConnectRefused(u)
      PROVE  OpenIsSomebodys'
  <2>1. UNCHANGED <<toMain, forgotten>>
    BY <1>7 DEF Connect, ConnectRefused
  <2>2. \/ tab' = [tab EXCEPT ![u] = [tab[u] EXCEPT !.state = "connecting",
                     !.pending = Len(owner) + 1, !.sub = Len(owner) + 1]]
        \/ tab' = [tab EXCEPT ![u] = [tab[u] EXCEPT !.state = "error"]]
    BY <1>7 DEF Connect, ConnectRefused
  <2>3. ASSUME NEW t \in Tabs PROVE tab'[t].conn = tab[t].conn
    <3>1. tab \in [Tabs -> Slice]
      BY <1>1 DEF TypeOK
    <3>2. CASE t # u
      BY <2>2, <3>1, <3>2
    <3>3. CASE t = u
      <4>1. PICK x : x = tab[u] /\ x \in Slice
        BY <1>1
      <4>2. \/ tab'[u] = [x EXCEPT !.state = "connecting", !.pending = Len(owner) + 1,
                                   !.sub = Len(owner) + 1]
            \/ tab'[u] = [x EXCEPT !.state = "error"]
        BY <2>2, <3>1, <4>1
      <4>3. tab'[u].conn = x.conn
        BY <4>1, <4>2 DEF Slice
      <4>. QED
        BY <3>3, <4>1, <4>3
    <3>. QED
      BY <3>2, <3>3
  <2>. QED
    BY <1>5, <1>6, <2>1, <2>3
<1>8. ASSUME NEW u \in Tabs, Disconnect(u)
      PROVE  OpenIsSomebodys'
  <2>1. UNCHANGED toMain \/ \E c : toMain' = Append(toMain, c)
    BY <1>8 DEF Disconnect
  <2>2. CASE UNCHANGED <<tab, forgotten>>
    BY <1>5, <1>6, <2>1, <2>2
  <2>3. ASSUME NEW k, Reset(k), k.tab = u
        PROVE  OpenIsSomebodys'
    <3>1. forgotten' = forgotten \cup ({tab[u].conn} \cap Attempts)
      BY <2>3 DEF Reset, Dropped
    <3>2. tab' = [tab EXCEPT ![u] = Idle] \/ tab' = tab
      BY <2>3 DEF Reset
    <3>3. \A a \in connections, t \in Tabs :
              tab[t].conn = a => tab'[t].conn = a \/ a \in forgotten'
      BY <1>1, <1>4, <3>1, <3>2 DEF TypeOK
    <3>. QED
      BY <1>5, <1>6, <2>1, <3>1, <3>3
  <2>. QED
    BY <1>8, <2>2, <2>3 DEF Disconnect
<1>9. ASSUME NEW u \in Tabs, CloseTab(u)
      PROVE  OpenIsSomebodys'
  <2>1. /\ UNCHANGED toMain \/ \E c : toMain' = Append(toMain, c)
        /\ UNCHANGED forgotten
    BY <1>9 DEF CloseTab
  <2>2. ASSUME NEW a \in connections, NEW t \in Tabs, tab[t].conn = a
        PROVE  tab'[t].conn = a \/ Closing(a)'
    <3>1. CASE t # u
      BY <1>1, <1>9, <2>2, <3>1 DEF CloseTab, TypeOK
    <3>2. CASE t = u
      <4>1. Held(u) /\ ReleaseCall(tab[u]) = Call("disconnect", a, NoThen)
        BY <1>4, <2>2, <3>2 DEF Held, ReleaseCall
      <4>2. toMain' = Append(toMain, Call("disconnect", a, NoThen))
        BY <1>9, <4>1 DEF CloseTab
      <4>. QED
        BY <1>1, <4>2, ClosingSent DEF Call
    <3>. QED
      BY <3>1, <3>2
  <2>. QED
    BY <1>5, <1>6, <2>1, <2>2
<1>10. CASE LeaveProject
  <2>. DEFINE holders == {u \in Tabs : Held(u)}
  <2>1. UNCHANGED forgotten
    BY <1>10 DEF LeaveProject
  <2>2. PICK order \in Orders(holders) :
             toMain' = toMain \o [n \in DOMAIN order |->
                                     ReleaseCall(tab[order[n]])]
    BY <1>10 DEF LeaveProject
  <2>3. [n \in DOMAIN order |-> ReleaseCall(tab[order[n]])] \in Seq(MainCall)
    BY <1>1, <2>2, LeaveCallsAreTyped, WebSocketConstants
  <2>4. PICK calls \in Seq(MainCall) :
             /\ calls = [n \in DOMAIN order |-> ReleaseCall(tab[order[n]])]
             /\ toMain' = toMain \o calls
    BY <2>2, <2>3
  <2>5. \A a : Closing(a) => Closing(a)'
    BY <1>1, <2>4, ClosingStays
  <2>6. ASSUME NEW a \in connections, NEW t \in Tabs, tab[t].conn = a
        PROVE  Closing(a)'
    <3>1. t \in holders /\ ReleaseCall(tab[t]) = Call("disconnect", a, NoThen)
      BY <1>4, <2>6 DEF Held, ReleaseCall
    <3>2. PICK n \in DOMAIN order : order[n] = t
      BY <2>2, <3>1 DEF Orders
    <3>3. /\ DOMAIN calls = DOMAIN order
          /\ calls[n] = ReleaseCall(tab[order[n]])
      BY <2>4, <3>2
    <3>4. calls[n].op = "disconnect" /\ calls[n].id = a
      BY <3>1, <3>2, <3>3 DEF Call
    <3>5. n \in 1..Len(calls)
      BY <2>4, <3>2, <3>3
    <3>. QED
      BY <1>1, <2>4, <3>4, <3>5, ClosingStays
  <2>. QED
    BY <1>5, <2>1, <2>5, <2>6
<1>. QED
  BY <1>7, <1>8, <1>9, <1>10 DEF UserStep

(* What the window does with a message leaves every open connection with   *)
(* somebody: a close is of a connection that is gone, a reply that is taken*)
(* is held or its connection is closed.                                    *)
LEMMA WindowStepKeepsOwners ==
    ASSUME OwnerInv, WebSocketConstants, WindowStep
    PROVE  OpenIsSomebodys'
<1>1. /\ EngineInv /\ TypeOK /\ TypeOK' /\ EngineInv'
      /\ toMain \in Seq(MainCall) /\ toWindow \in Seq(WindowMessage)
  BY WindowStepKeepsTypes, WindowStepKeepsInv DEF OwnerInv, EngineInv, TypeOK
<1>2. UNCHANGED engine /\ toWindow # <<>> /\ toWindow' = Tail(toWindow)
  BY DEF WindowStep, EventArrives, ConnectSucceeds, ConnectFails,
         DisconnectGoesOn, Reply
<1>3. \A a : Coming(a) => Coming(a)' \/ Head(toWindow) = Connected(a, TRUE)
  BY <1>1, <1>2, ComingOrFirst
<1>4. \A a : Closing(a) => Closing(a)'
  <2>1. UNCHANGED toMain \/ \E c : toMain' = Append(toMain, c)
    BY DEF WindowStep, EventArrives, ConnectSucceeds, ConnectFails,
       DisconnectGoesOn
  <2>. QED
    BY <1>1, <2>1, ClosingRemains
<1>5. \A t \in Tabs : tab[t] \in Slice /\ tab[t].conn \in Ids
  BY <1>1 DEF TypeOK, Slice
<1>6. /\ connections \subseteq Attempts /\ None \notin connections
      /\ \A a \in connections : sock[a] \notin {"none", "closed"}
  <2>1. connections \subseteq Attempts /\ None \notin connections
    BY <1>1 DEF TypeOK, Attempts, None
  <2>2. MapsMatchSockets
    BY <1>1 DEF EngineInv
  <2>. QED
    BY <2>1, <2>2 DEF MapsMatchSockets
<1>7. Head(toWindow) = toWindow[1] /\ 1 \in 1..Len(toWindow)
  BY <1>1, <1>2
<1>8. ASSUME Head(toWindow).type # "connected" \/ ~Head(toWindow).ok
      PROVE  \A a : Coming(a) => Coming(a)'
  BY <1>3, <1>8 DEF Connected
<1>9. CASE EventArrives
  <2>1. Head(toWindow).type # "connected"
    BY <1>9 DEF EventArrives, EventTypes
  <2>2. ASSUME NEW t \in Tabs, tab[t].conn \in connections
        PROVE  tab'[t].conn = tab[t].conn
    <3>1. CASE Head(toWindow).type = "close"
      <4>1. sock[Head(toWindow).id] = "closed"
        BY <1>7, <3>1 DEF OwnerInv, ClosesAreLast
      <4>2. ~Hears(t, Head(toWindow).id)
        BY <1>6, <2>2, <4>1 DEF Hears
      <4>. QED
        BY <1>1, <1>9, <4>2 DEF EventArrives, TypeOK
    <3>2. CASE Head(toWindow).type # "close"
      <4>1. Patched(tab[t], Head(toWindow).type).conn = tab[t].conn
        BY <1>5, <3>2 DEF Patched, Slice
      <4>. QED
        BY <1>1, <1>9, <4>1 DEF EventArrives, TypeOK
    <3>. QED
      BY <3>1, <3>2
  <2>3. UNCHANGED <<connections, forgotten>>
    BY <1>9 DEF EventArrives, engine
  <2>. QED
    BY <1>4, <1>8, <2>1, <2>2, <2>3, WindowKeepsOwners DEF OwnerInv
<1>10. CASE ConnectFails
  <2>1. ~Head(toWindow).ok /\ UNCHANGED <<connections, forgotten>>
    BY <1>10 DEF ConnectFails, Reply, engine
  <2>2. \A t \in Tabs : tab'[t].conn = tab[t].conn
    BY <1>1, <1>5, <1>10 DEF ConnectFails, TypeOK, Slice
  <2>. QED
    BY <1>4, <1>8, <2>1, <2>2, WindowKeepsOwners DEF OwnerInv
<1>11. CASE DisconnectGoesOn
  <2>. DEFINE k == Head(toWindow).then
  <2>1. Head(toWindow).type # "connected" /\ UNCHANGED connections
    BY <1>11 DEF DisconnectGoesOn, Reply, engine
  <2>2. CASE UNCHANGED <<tab, forgotten>>
    BY <1>4, <1>8, <2>1, <2>2, WindowKeepsOwners DEF OwnerInv
  <2>3. CASE Reset(k)
    <3>1. forgotten \subseteq forgotten'
      BY <2>3 DEF Reset, Dropped
    <3>2. \A t \in Tabs : tab[t].conn \in connections =>
              tab'[t].conn = tab[t].conn \/ tab[t].conn \in forgotten'
      <4>1. /\ forgotten' = forgotten \cup ({tab[k.tab].conn} \cap Attempts)
            /\ tab' = [tab EXCEPT ![k.tab] = Idle] \/ tab' = tab
        BY <2>3 DEF Reset, Dropped
      <4>. QED
        BY <1>1, <1>6, <4>1 DEF TypeOK
    <3>. QED
      BY <1>4, <1>8, <2>1, <3>1, <3>2, WindowKeepsOwners DEF OwnerInv
  <2>. QED
    BY <1>11, <2>2, <2>3 DEF DisconnectGoesOn
<1>12. CASE ConnectSucceeds
  <2>1. Head(toWindow).id \in Attempts /\ UNCHANGED connections
    BY <1>1, <1>2, <1>12, HeadOfWindow DEF ConnectSucceeds, Reply, engine
  <2>2. PICK a \in Attempts : a = Head(toWindow).id
    BY <2>1
  <2>3. PICK t : t = owner[a]
    OBVIOUS
  <2>4. a \in connections => t \in Tabs
    <3>1. a \in connections => a \in 1..Len(owner)
      <4>1. ConnectsAreFresh
        BY <1>1 DEF EngineInv
      <4>2. Len(owner) \in Nat /\ a \in Nat /\ 1 <= a
        BY <1>1 DEF TypeOK, Attempts
      <4>3. a \in connections => ~(a > Len(owner))
        BY <1>6, <4>1 DEF ConnectsAreFresh
      <4>. QED
        BY <4>2, <4>3
    <3>. QED
      BY <1>1, <2>3, <3>1 DEF TypeOK
  <2>5. \A b : Coming(b) => Coming(b)' \/ b = a
    BY <1>3, <2>2 DEF Connected
  <2>6. CASE tab[t].pending = a
    <3>1. /\ forgotten' = forgotten \cup ({tab[t].conn} \cap Attempts)
          /\ tab' = [tab EXCEPT ![t] =
                       [tab[t] EXCEPT !.conn = a, !.pending = None,
                                      !.state = IF tab[t].state = "connected"
                                                THEN "connected"
                                                ELSE "connecting"]]
      BY <1>12, <2>2, <2>3, <2>6 DEF ConnectSucceeds, Dropped
    <3>2. a \in connections => Holds(a)'
      <4>1. t \in Tabs => tab'[t].conn = a
        BY <1>1, <1>5, <3>1 DEF TypeOK, Slice
      <4>. QED
        BY <2>4, <4>1 DEF Holds
    <3>3. \A b \in connections, u \in Tabs :
              tab[u].conn = b => tab'[u].conn = b \/ b \in forgotten'
      BY <1>1, <1>6, <3>1 DEF TypeOK
    <3>. QED
      BY <1>4, <2>1, <2>5, <3>1, <3>2, <3>3, WindowKeepsOwners DEF OwnerInv
  <2>7. CASE tab[t].pending # a
    <3>1. /\ toMain' = Append(toMain, Call("disconnect", a, NoThen))
          /\ UNCHANGED <<tab, forgotten>>
      BY <1>12, <2>2, <2>3, <2>7 DEF ConnectSucceeds
    <3>2. Closing(a)'
      BY <1>1, <3>1, ClosingSent DEF Call
    <3>. QED
      BY <1>4, <2>1, <2>5, <3>1, <3>2, WindowKeepsOwners DEF OwnerInv
  <2>. QED
    BY <2>6, <2>7
<1>. QED
  BY <1>9, <1>10, <1>11, <1>12 DEF WindowStep

(* What main and its sockets do leaves every open connection with somebody:*)
(* one that opens is announced with its reply, and a call that closes one  *)
(* is served only by closing it.                                           *)
LEMMA EngineKeepsOwners ==
    ASSUME OwnerInv, WebSocketConstants,
           \/ MainStep
           \/ \E a \in Attempts : SocketStep(a) \/ SocketErrs(a) \/ ServerCloses(a)
    PROVE  OpenIsSomebodys'
<1>1. /\ EngineInv /\ TypeOK
      /\ toMain \in Seq(MainCall) /\ toWindow \in Seq(WindowMessage)
  BY DEF OwnerInv, EngineInv, TypeOK
<1>2. Appended /\ UNCHANGED window
  BY <1>1, MainAppends, SocketAppends DEF MainStep, MainConnects, MainCancels,
     MainDisconnects, Take, SocketStep, SocketErrs, ServerCloses,
     HandshakeOpens, HandshakeFails, BrokenCloses, ClosingEnds, Reconnect,
     ReconnectOpens, ReconnectFails, OnSocketClosed, Network
<1>3. \A a : Coming(a) => Coming(a)'
  BY <1>1, <1>2, ComingStays
<1>4. \A a \in connections : a \in connections' /\ Closing(a) => Closing(a)'
  <2>1. CASE MainStep
    <3>1. toMain # <<>> /\ toMain' = Tail(toMain)
      BY <2>1 DEF MainStep, MainConnects, MainCancels, MainDisconnects, Take
    <3>2. \A a : Closing(a) =>
             \/ Closing(a)'
             \/ Head(toMain).op = "disconnect" /\ Head(toMain).id = a
      BY <1>1, <3>1, ClosingOrFirst
    <3>3. Head(toMain).op = "disconnect" => Head(toMain).id \notin connections'
      BY <2>1 DEF MainStep, MainConnects, MainCancels, MainDisconnects, Take
    <3>. QED
      BY <3>2, <3>3
  <2>2. CASE UNCHANGED toMain
    BY <2>2 DEF Closing
  <2>. QED
    BY <2>1, <2>2 DEF SocketStep, SocketErrs, ServerCloses, HandshakeOpens,
       HandshakeFails, BrokenCloses, ClosingEnds, Reconnect, ReconnectOpens,
       ReconnectFails, OnSocketClosed, Network
<1>5. \A a \in connections' : a \in connections \/ Coming(a)'
  <2>1. ASSUME NEW a \in Attempts, HandshakeOpens(a)
        PROVE  Coming(a)' /\ connections' = connections \cup {a}
    <3>1. PICK e, c \in WindowMessage :
                 toWindow' = toWindow \o <<e, c>> /\ c = Connected(a, TRUE)
      BY <2>1, MessagesAreTyped DEF HandshakeOpens, Push, EventTypes
    <3>2. <<e, c>> \in Seq(WindowMessage) /\ Len(<<e, c>>) = 2
      BY <3>1, PairIsSequence
    <3>3. /\ Len(toWindow') \in 1..Len(toWindow')
          /\ toWindow'[Len(toWindow')] = c
      <4>. DEFINE m == <<e, c>>
      <4>1. m \in Seq(WindowMessage) /\ Len(m) = 2 /\ m[2] = c
        BY <3>2
      <4>. HIDE DEF m
      <4>2. toWindow' = toWindow \o m
        BY <3>1 DEF m
      <4>3. PICK msgs \in Seq(WindowMessage) : msgs = m
        BY <4>1
      <4>4. /\ Len(toWindow') = Len(toWindow) + Len(msgs)
            /\ Len(toWindow) \in Nat /\ Len(msgs) \in Nat
            /\ \A n \in 1..Len(msgs) : toWindow'[n + Len(toWindow)] = msgs[n]
        BY <1>1, <4>2, <4>3
      <4>. QED
        BY <4>1, <4>3, <4>4
    <3>. QED
      BY <2>1, <3>1, <3>3 DEF Coming, Connected, HandshakeOpens
  <2>2. \/ connections' \subseteq connections
        \/ \E a \in Attempts : HandshakeOpens(a)
    BY DEF MainStep, MainConnects, MainCancels, MainDisconnects, SocketStep,
       SocketErrs, ServerCloses, HandshakeFails, BrokenCloses, ClosingEnds,
       Reconnect, ReconnectOpens, ReconnectFails, OnSocketClosed
  <2>. QED
    BY <2>1, <2>2
<1>. SUFFICES ASSUME NEW a \in connections'
              PROVE  \/ \E t \in Tabs : tab[t].conn = a
                     \/ Coming(a)' \/ Closing(a)' \/ a \in forgotten
  BY <1>2 DEF OpenIsSomebodys, window
<1>. QED
  BY <1>3, <1>4, <1>5 DEF OwnerInv, OpenIsSomebodys

(* Every step leaves every open connection with somebody.                  *)
LEMMA NextKeepsOwners ==
    WebSocketConstants /\ OwnerInv /\ [Next]_vars => OwnerInv'
<1> SUFFICES ASSUME WebSocketConstants, OwnerInv, [Next]_vars
             PROVE  OwnerInv'
  OBVIOUS
<1>1. EngineInv' /\ ClosesAreLast'
  BY NextKeepsInv, NextKeepsCloses DEF OwnerInv
<1>2. ASSUME UNCHANGED vars
      PROVE  OpenIsSomebodys'
  <2>1. UNCHANGED <<tab, connections, toMain, toWindow, forgotten>>
    BY <1>2 DEF vars, window, engine
  <2>. QED
    BY <2>1 DEF OwnerInv, OpenIsSomebodys, Coming, Closing, Connected
<1>3. ASSUME NEW a \in Attempts, SettingsLoaded(a)
      PROVE  OpenIsSomebodys'
  <2>1. UNCHANGED <<tab, connections, toWindow, forgotten>>
    BY <1>3 DEF SettingsLoaded, engine
  <2>2. toMain \in Seq(MainCall)
    BY DEF OwnerInv, EngineInv, TypeOK
  <2>3. UNCHANGED toMain \/ \E c : toMain' = Append(toMain, c)
    BY <1>3 DEF SettingsLoaded
  <2>4. \A b : Closing(b) => Closing(b)'
    BY <2>2, <2>3, ClosingRemains
  <2>. QED
    BY <2>1, <2>4 DEF OwnerInv, OpenIsSomebodys, Coming, Connected
<1>. QED
  BY <1>1, <1>2, <1>3, UserStepKeepsOwners, WindowStepKeepsOwners,
     EngineKeepsOwners DEF Next, OwnerInv

(* Every open connection is held by a tab, brought to it or being closed,  *)
(* unless a slice that held it dropped it.                                 *)
THEOREM OpenHasAnOwner == Spec => []OpenIsSomebodys
<1>1. Init => OwnerInv
  <2>. SUFFICES ASSUME Init PROVE OwnerInv
    OBVIOUS
  <2>1. EngineInv
    BY InitKeepsInv, WebSocketConstants
  <2>. QED
    BY <2>1 DEF OwnerInv, ClosesAreLast, OpenIsSomebodys, Init
<1>2. OwnerInv /\ [Next]_vars => OwnerInv'
  BY NextKeepsOwners, WebSocketConstants
<1>3. OwnerInv => OpenIsSomebodys
  BY DEF OwnerInv
<1>. QED
  BY <1>1, <1>2, <1>3, PTL DEF Spec

=============================================================================
