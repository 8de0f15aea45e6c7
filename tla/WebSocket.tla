------------------------------ MODULE WebSocket ------------------------------
(***************************************************************************)
(* WebSocket connections in their two processes: the store of the window   *)
(* (renderer/stores/websocket.store.ts and lib/realtime-connections.ts),   *)
(* which keeps a slice for every tab, and the engine in the main process   *)
(* (main/protocols/websocket.engine.ts behind main/ipc/websocket.handler)  *)
(* with the sockets it opens.                                              *)
(*                                                                         *)
(* The processes talk over IPC: calls and their replies, and events that   *)
(* main pushes to every listener of the window.  Each direction is a       *)
(* channel in order.  What follows an await in the window is a step of its *)
(* own: the reply carries what the code captured before the await.         *)
(* The traffic on an open connection is left out.                          *)
(***************************************************************************)
EXTENDS Integers, Sequences, FiniteSets

CONSTANTS
    Tabs,
    MaxAttempts,    \* bound: how often the user clicks Connect, in all tabs
    Backlog,        \* bound: messages under way when the user or a server acts
    RetryCount,     \* settings: reconnection attempts after a lost connection
    LiveErrors,     \* whether an open socket may report an error before it
                    \* closes (a frame above the size limit, a bad frame)
    NoThen

(* connect() is called once per attempt: the attempt stands for the        *)
(* pendingConnectId of the store and the connectionId of the engine.       *)
Attempts == 1..MaxAttempts
None == 0
Ids == Attempts \cup {None}

(* disconnect() awaits a reply, having captured its tab, the connection it *)
(* still has to close and the listener it will remove.                     *)
Continuation == [tab : Tabs, conn : Ids, sub : Ids]

ASSUME WebSocketConstants ==
    /\ MaxAttempts \in Nat /\ Backlog \in Nat /\ RetryCount \in Nat
    /\ IsFiniteSet(Tabs) /\ LiveErrors \in BOOLEAN
    /\ NoThen \notin Continuation

VARIABLES
    \* the window
    tab,        \* per tab: connectionState (or "gone"), connectionId,
                \* _pendingConnectId and the listener _unsubscribe removes
    owner,      \* the tab each attempt was made in
    loading,    \* attempts waiting for the proxy settings
    listening,  \* attempts whose listener gets the events of main
    \* between the processes
    toMain, toWindow,
    \* the main process
    sock,       \* per attempt: its socket, or the retry timer in its place
    connections, pendingConnects,
    attempts,   \* per connection: reconnection attempts since it was open
    userClosed, \* connections closed by disconnect()
    forgotten   \* (observed only) connections a slice dropped when it was
                \* reset or given another one

window == <<tab, owner, loading, listening, forgotten>>
engine == <<sock, connections, pendingConnects, attempts, userClosed>>
vars == <<window, toMain, toWindow, engine>>

Idle == [state |-> "disconnected", conn |-> None, pending |-> None, sub |-> None]

Init ==
    /\ tab = [t \in Tabs |-> Idle]
    /\ owner = <<>> /\ loading = {} /\ listening = {} /\ forgotten = {}
    /\ toMain = <<>> /\ toWindow = <<>>
    /\ sock = [a \in Attempts |-> "none"]
    /\ connections = {} /\ pendingConnects = {} /\ userClosed = {}
    /\ attempts = [a \in Attempts |-> 0]

Call(op, a, then) == [op |-> op, id |-> a, then |-> then]
Event(type, a) == [type |-> type, id |-> a, ok |-> TRUE, then |-> NoThen]
Connected(a, ok) == [type |-> "connected", id |-> a, ok |-> ok, then |-> NoThen]
Done(then) == [type |-> "done", id |-> None, ok |-> TRUE, then |-> then]
EventTypes == {"open", "close", "error", "reconnecting"}

-----------------------------------------------------------------------------
(* The window: what the user does.                                         *)

Exists(t) == tab[t].state # "gone"
Quick == Len(toMain) + Len(toWindow) < Backlog

(* connect(), up to the await for the proxy settings.  The button offers   *)
(* it when the tab shows neither "connecting" nor "connected".  The slice  *)
(* keeps the connectionId it has.                                          *)
Connect(t) ==
    LET a == Len(owner) + 1
    IN  /\ a \in Attempts /\ Quick
        /\ tab[t].state \in {"disconnected", "error"}
        /\ owner' = Append(owner, t)
        /\ tab' = [tab EXCEPT ![t] = [@ EXCEPT !.state = "connecting",
                                               !.pending = a, !.sub = a]]
        /\ listening' = (listening \ {tab[t].sub}) \cup {a}
        /\ loading' = loading \cup {a}
        /\ UNCHANGED <<forgotten, toMain, toWindow, engine>>

(* connect() finds masked credentials: nothing is tried.                   *)
ConnectRefused(t) ==
    /\ tab[t].state \in {"disconnected", "error"}
    /\ tab' = [tab EXCEPT ![t].state = "error"]
    /\ UNCHANGED <<owner, loading, listening, forgotten, toMain, toWindow, engine>>

(* connect(), after the settings: unless the attempt was given up          *)
(* meanwhile, main is called.                                              *)
SettingsLoaded(a) ==
    /\ a \in loading
    /\ loading' = loading \ {a}
    /\ toMain' = IF tab[owner[a]].pending = a
                 THEN Append(toMain, Call("connect", a, NoThen)) ELSE toMain
    /\ UNCHANGED <<tab, owner, listening, forgotten, toWindow, engine>>

(* The connection a slice holds is given up, closed before or not.         *)
Dropped(t) == forgotten' = forgotten \cup ({tab[t].conn} \cap Attempts)

(* disconnect(), after its awaits.                                         *)
Reset(k) ==
    /\ listening' = listening \ {k.sub}
    /\ Dropped(k.tab)
    /\ tab' = IF Exists(k.tab) THEN [tab EXCEPT ![k.tab] = Idle] ELSE tab

(* disconnect(): a pending handshake is cancelled, then an open connection *)
(* is closed; the button offers it as Cancel and as Disconnect.            *)
Disconnect(t) ==
    LET r == tab[t]
        cancels == r.state = "connecting" /\ r.pending # None
        k == [tab |-> t, conn |-> r.conn, sub |-> r.sub]
    IN  /\ r.state \in {"connecting", "connected"} /\ Quick
        /\ IF cancels \/ r.conn # None
           THEN /\ toMain' = Append(toMain,
                       IF cancels THEN Call("cancel", r.pending, k)
                       ELSE Call("disconnect", r.conn, [k EXCEPT !.conn = None]))
                /\ UNCHANGED <<tab, listening, forgotten>>
           ELSE Reset(k) /\ UNCHANGED toMain
        /\ UNCHANGED <<owner, loading, toWindow, engine>>

(* releaseConnection: what is sent for the slices of some tabs that go.    *)
Orders(S) == {f \in [1..Cardinality(S) -> S] :
                \A x \in S : \E n \in DOMAIN f : f[n] = x}
Held(t) == tab[t].conn # None \/ tab[t].pending # None
ReleaseCall(r) == IF r.conn # None THEN Call("disconnect", r.conn, NoThen)
                                   ELSE Call("cancel", r.pending, NoThen)

(* Closing a tab ends what it holds.                                       *)
CloseTab(t) ==
    /\ Exists(t) /\ Quick
    /\ toMain' = IF Held(t) THEN Append(toMain, ReleaseCall(tab[t])) ELSE toMain
    /\ listening' = listening \ {tab[t].sub}
    /\ tab' = [tab EXCEPT ![t] = [Idle EXCEPT !.state = "gone"]]
    /\ UNCHANGED <<owner, loading, forgotten, toWindow, engine>>

(* Leaving the project ends what any of its tabs holds; the tabs stay.     *)
LeaveProject ==
    LET holders == {t \in Tabs : Held(t)}
    IN  /\ holders # {} /\ Quick
        /\ \E order \in Orders(holders) :
              toMain' = toMain \o [n \in DOMAIN order |->
                                     ReleaseCall(tab[order[n]])]
        /\ listening' = listening \ {tab[t].sub : t \in holders}
        /\ tab' = [t \in Tabs |-> IF t \in holders THEN Idle ELSE tab[t]]
        /\ UNCHANGED <<owner, loading, forgotten, toWindow, engine>>

-----------------------------------------------------------------------------
(* The window: what comes from main.                                       *)

(* An event goes to every listener.  A listener looks up the connection of *)
(* the tab it was made in and lets every event pass while there is none.   *)
Hears(t, a) == \E b \in listening : owner[b] = t /\ tab[t].conn \in {None, a}

Patched(r, type) ==
    CASE type = "open"  -> [r EXCEPT !.state = "connected"]
      [] type = "close" -> [r EXCEPT !.state = "disconnected", !.conn = None]
      [] type = "error" -> [r EXCEPT !.state = "error"]
      [] OTHER          -> r

EventArrives ==
    /\ toWindow # <<>> /\ Head(toWindow).type \in EventTypes
    /\ toWindow' = Tail(toWindow)
    /\ tab' = [t \in Tabs |-> IF Exists(t) /\ Hears(t, Head(toWindow).id)
                              THEN Patched(tab[t], Head(toWindow).type)
                              ELSE tab[t]]
    /\ UNCHANGED <<owner, loading, listening, forgotten, toMain, engine>>

Reply(type, ok) ==
    /\ toWindow # <<>> /\ Head(toWindow).type = type /\ Head(toWindow).ok = ok
    /\ toWindow' = Tail(toWindow)

ConnectSucceeds_LeavesOpen ==    \* mutant: a late connection is not closed
    LET a == Head(toWindow).id
        t == owner[a]
        r == tab[t]
    IN  /\ Reply("connected", TRUE)
        /\ IF r.pending = a
           THEN /\ tab' = [tab EXCEPT ![t] =
                             [r EXCEPT !.conn = a, !.pending = None,
                                       !.state = IF r.state = "connected"
                                                 THEN "connected"
                                                 ELSE "connecting"]]
                /\ Dropped(t)
                /\ UNCHANGED listening
           ELSE /\ listening' = listening \ {a}
                /\ UNCHANGED <<tab, forgotten>>
        /\ UNCHANGED <<owner, loading, toMain, engine>>

(* connect(), after main opened the connection: the tab takes it, unless   *)
(* the attempt was given up meanwhile.                                     *)
ConnectSucceeds ==
    LET a == Head(toWindow).id
        t == owner[a]
        r == tab[t]
    IN  /\ Reply("connected", TRUE)
        /\ IF r.pending = a
           THEN /\ tab' = [tab EXCEPT ![t] =
                             [r EXCEPT !.conn = a, !.pending = None,
                                       !.state = IF r.state = "connected"
                                                 THEN "connected"
                                                 ELSE "connecting"]]
                /\ Dropped(t)
                /\ UNCHANGED <<listening, toMain>>
           ELSE /\ toMain' = Append(toMain, Call("disconnect", a, NoThen))
                /\ listening' = listening \ {a}
                /\ UNCHANGED <<tab, forgotten>>
        /\ UNCHANGED <<owner, loading, engine>>

(* connect(), after main could not open it: nothing asks whether the       *)
(* attempt is still the tab's.                                             *)
ConnectFails ==
    LET a == Head(toWindow).id
        t == owner[a]
    IN  /\ Reply("connected", FALSE)
        /\ listening' = listening \ {a}
        /\ tab' = IF Exists(t)
                  THEN [tab EXCEPT ![t] = [@ EXCEPT !.state = "error",
                                           !.pending = None, !.sub = None]]
                  ELSE tab
        /\ UNCHANGED <<owner, loading, forgotten, toMain, engine>>

(* disconnect() goes on: the connection is closed after the handshake is   *)
(* cancelled, and then the slice is reset.                                 *)
DisconnectGoesOn ==
    LET k == Head(toWindow).then
    IN  /\ Reply("done", TRUE)
        /\ IF k.conn # None
           THEN /\ toMain' = Append(toMain,
                       Call("disconnect", k.conn, [k EXCEPT !.conn = None]))
                /\ UNCHANGED <<tab, listening, forgotten>>
           ELSE Reset(k) /\ UNCHANGED toMain
        /\ UNCHANGED <<owner, loading, engine>>

WindowStep == EventArrives \/ ConnectSucceeds \/ ConnectFails
              \/ DisconnectGoesOn

-----------------------------------------------------------------------------
(* The engine: calls of the window.                                        *)

Push(msgs) == toWindow' = toWindow \o msgs
Finished(then) == IF then = NoThen THEN <<>> ELSE <<Done(then)>>
HandshakeFailed(a) == <<Event("error", a), Event("close", a), Connected(a, FALSE)>>

Take(op) == /\ toMain # <<>> /\ Head(toMain).op = op
            /\ toMain' = Tail(toMain)
            /\ UNCHANGED window

(* ws:connect: the options are refused, or a handshake begins.             *)
MainConnects ==
    LET a == Head(toMain).id
    IN  /\ Take("connect")
        /\ \/ /\ sock' = [sock EXCEPT ![a] = "closed"]
              /\ Push(<<Connected(a, FALSE)>>)
              /\ UNCHANGED pendingConnects
           \/ /\ sock' = [sock EXCEPT ![a] = "opening"]
              /\ pendingConnects' = pendingConnects \cup {a}
              /\ UNCHANGED toWindow
        /\ UNCHANGED <<connections, attempts, userClosed>>

(* ws:cancelConnect: a pending handshake is terminated, which fails it; the*)
(* reply comes before what the failure sends or in the middle of it.       *)
MainCancels ==
    LET a == Head(toMain).id
        done == Finished(Head(toMain).then)
    IN  /\ Take("cancel")
        /\ IF a \in pendingConnects
           THEN /\ pendingConnects' = pendingConnects \ {a}
                /\ sock' = [sock EXCEPT ![a] = "closed"]
                /\ \/ Push(done \o HandshakeFailed(a))
                   \/ Push(<<Event("error", a), Event("close", a)>> \o done
                             \o <<Connected(a, FALSE)>>)
           ELSE Push(done) /\ UNCHANGED <<pendingConnects, sock>>
        /\ UNCHANGED <<connections, attempts, userClosed>>

(* ws:disconnect: the connection is deleted at once.  Its socket takes its *)
(* time to close, unless only a retry timer was left of it; while the      *)
(* socket of connect() is "ending" its error listener still listens.       *)
MainDisconnects ==
    LET a == Head(toMain).id
    IN  /\ Take("disconnect")
        /\ Push(Finished(Head(toMain).then))
        /\ IF a \in connections
           THEN /\ connections' = connections \ {a}
                /\ userClosed' = userClosed \cup {a}
                /\ sock' = [sock EXCEPT ![a] =
                      CASE @ = "waiting" -> "closed"
                        [] @ = "open"    -> "ending"
                        [] OTHER         -> "closing"]
           ELSE UNCHANGED <<connections, userClosed, sock>>
        /\ UNCHANGED <<pendingConnects, attempts>>

MainStep == MainConnects \/ MainCancels \/ MainDisconnects

-----------------------------------------------------------------------------
(* The engine: its sockets and timers.                                     *)

Network == UNCHANGED <<window, toMain>>

HandshakeOpens(a) ==
    /\ sock[a] = "opening"
    /\ sock' = [sock EXCEPT ![a] = "open"]
    /\ pendingConnects' = pendingConnects \ {a}
    /\ connections' = connections \cup {a}
    /\ Push(<<Event("open", a), Connected(a, TRUE)>>)
    /\ Network /\ UNCHANGED <<attempts, userClosed>>

HandshakeFails_KeepsEntry(a) ==    \* mutant: the map of handshakes keeps it
    /\ sock[a] = "opening"
    /\ sock' = [sock EXCEPT ![a] = "closed"]
    /\ Push(HandshakeFailed(a))
    /\ Network
    /\ UNCHANGED <<connections, pendingConnects, attempts, userClosed>>

HandshakeFails_Unanswered(a) ==    \* mutant: the promise is never rejected
    /\ sock[a] = "opening"
    /\ sock' = [sock EXCEPT ![a] = "closed"]
    /\ pendingConnects' = pendingConnects \ {a}
    /\ Push(<<Event("error", a), Event("close", a)>>)
    /\ Network /\ UNCHANGED <<connections, attempts, userClosed>>

(* The server refuses, the network fails, or the time for it is up.        *)
HandshakeFails(a) ==
    /\ sock[a] = "opening"
    /\ sock' = [sock EXCEPT ![a] = "closed"]
    /\ pendingConnects' = pendingConnects \ {a}
    /\ Push(HandshakeFailed(a))
    /\ Network /\ UNCHANGED <<connections, attempts, userClosed>>

Retries_Always(a) == attempts[a] < RetryCount   \* mutant: whoever closed it

(* onSocketClosed.                                                         *)
Retries(a) == /\ a \in connections /\ a \notin userClosed
              /\ attempts[a] < RetryCount
OnSocketClosed(a) ==
    /\ IF Retries(a)
       THEN /\ attempts' = [attempts EXCEPT ![a] = @ + 1]
            /\ sock' = [sock EXCEPT ![a] = "waiting"]
            /\ Push(<<Event("reconnecting", a)>>)
            /\ UNCHANGED connections
       ELSE /\ sock' = [sock EXCEPT ![a] = "closed"]
            /\ connections' = connections \ {a}
            /\ Push(<<Event("close", a)>>)
            /\ UNCHANGED attempts
    /\ Network /\ UNCHANGED <<pendingConnects, userClosed>>

(* A socket that is open, or has been and closes now, reports an error,    *)
(* once; it closes later.  The listener does not ask who closed it.  On a  *)
(* socket that was opened again the error is swallowed.                    *)
SocketErrs(a) ==
    /\ LiveErrors /\ sock[a] \in {"open", "ending"} /\ Quick
    /\ sock' = [sock EXCEPT ![a] = IF @ = "open" THEN "broken" ELSE "closing"]
    /\ Push(<<Event("error", a)>>)
    /\ Network /\ UNCHANGED <<connections, pendingConnects, attempts, userClosed>>

ServerCloses(a) == sock[a] \in {"open", "reopened"} /\ Quick /\ OnSocketClosed(a)
BrokenCloses(a) == sock[a] = "broken" /\ OnSocketClosed(a)
ClosingEnds(a) == sock[a] \in {"ending", "closing"} /\ OnSocketClosed(a)

(* reconnect(), when the retry delay is over.                              *)
Reconnect(a) ==
    /\ sock[a] = "waiting" /\ a \in connections /\ a \notin userClosed
    /\ sock' = [sock EXCEPT ![a] = "reopening"]
    /\ Network
    /\ UNCHANGED <<toWindow, connections, pendingConnects, attempts, userClosed>>

ReconnectOpens(a) ==
    /\ sock[a] = "reopening"
    /\ sock' = [sock EXCEPT ![a] = "reopened"]
    /\ attempts' = [attempts EXCEPT ![a] = 0]
    /\ Push(<<Event("open", a)>>)
    /\ Network /\ UNCHANGED <<connections, pendingConnects, userClosed>>

ReconnectFails(a) == sock[a] = "reopening" /\ OnSocketClosed(a)

(* Every handshake, retry delay and closing socket comes to its end.       *)
SocketStep(a) == \/ HandshakeOpens(a) \/ HandshakeFails(a) \/ BrokenCloses(a)
                 \/ ClosingEnds(a) \/ Reconnect(a)
                 \/ ReconnectOpens(a) \/ ReconnectFails(a)

-----------------------------------------------------------------------------

UserStep == \/ \E t \in Tabs : Connect(t) \/ ConnectRefused(t) \/ Disconnect(t)
                           \/ CloseTab(t)
            \/ LeaveProject

Next ==
    \/ UserStep \/ WindowStep \/ MainStep
    \/ \E a \in Attempts : \/ SettingsLoaded(a) \/ SocketStep(a)
                           \/ SocketErrs(a) \/ ServerCloses(a)

(* Messages arrive, settings load, timers fire.  Nothing makes the user    *)
(* act or an open connection fail.                                         *)
Spec ==
    /\ Init /\ [][Next]_vars
    /\ WF_vars(WindowStep) /\ WF_vars(MainStep)
    /\ \A a \in Attempts : WF_vars(SettingsLoaded(a)) /\ WF_vars(SocketStep(a))

-----------------------------------------------------------------------------
(* Properties.                                                             *)

Slice == [state : {"disconnected", "connecting", "connected", "error", "gone"},
          conn : Ids, pending : Ids, sub : Ids]
SockStates == {"none", "opening", "open", "broken", "waiting", "reopening",
               "reopened", "ending", "closing", "closed"}
MainCall == [op : {"connect", "cancel", "disconnect"}, id : Attempts,
             then : Continuation \cup {NoThen}]
WindowMessage ==
    [type : EventTypes \cup {"connected"}, id : Attempts, ok : BOOLEAN,
     then : {NoThen}]
    \cup [type : {"done"}, id : {None}, ok : {TRUE}, then : Continuation]

(* Every variable has its type.                                            *)
TypeOK ==
    /\ tab \in [Tabs -> Slice]
    /\ owner \in Seq(Tabs) /\ Len(owner) <= MaxAttempts
    /\ loading \subseteq Attempts /\ listening \subseteq Attempts
    /\ forgotten \subseteq Attempts
    /\ toMain \in Seq(MainCall) /\ toWindow \in Seq(WindowMessage)
    /\ sock \in [Attempts -> SockStates]
    /\ connections \subseteq Attempts /\ pendingConnects \subseteq Attempts
    /\ userClosed \subseteq Attempts
    /\ attempts \in [Attempts -> 0..RetryCount]

(* The maps of the engine say what its sockets are: a handshake can be     *)
(* cancelled exactly while it goes on, and a connection is in the map      *)
(* exactly while it is open or will be opened again; so a call of the      *)
(* window never acts on a socket that is gone, and none is forgotten.      *)
MapsMatchSockets ==
    /\ pendingConnects = {a \in Attempts : sock[a] = "opening"}
    /\ connections = {a \in Attempts : sock[a] \in
                        {"open", "broken", "waiting", "reopening", "reopened"}}

(* "a user disconnect never reconnects": once the user closed a connection *)
(* no later step opens a socket for it, whether it was open, lost or half  *)
(* way through a reconnection, and all that main still sends of it is that *)
(* it fails or is closed: never that it is open or on its way back.        *)
UserClosedStaysClosed ==
    [][\A a \in userClosed :
          /\ sock'[a] \in {"ending", "closing", "closed"}
          /\ (Len(toWindow') > Len(toWindow) /\ toWindow'[Len(toWindow')].id = a)
                => toWindow'[Len(toWindow')].type \in {"error", "close"}]_vars

(* An open connection is always somebody's: a tab holds it, the reply that *)
(* brings it is on its way, or the call that closes it.  So whichever way  *)
(* an attempt was given up while the handshake ended - its tab closed, its *)
(* project left, another one started, a failure of an older one in between *)
(* - its connection is closed.  The exception are connections a slice that *)
(* held them dropped: disconnect() resets what it has not closed, and      *)
(* connect() puts its connection in the place of a lost one that will be   *)
(* opened again (GivenUpIsClosed is what the code says of the first).      *)
Coming(a) == \E n \in 1..Len(toWindow) : toWindow[n] = Connected(a, TRUE)
Closing(a) == \E n \in 1..Len(toMain) :
                 toMain[n].op = "disconnect" /\ toMain[n].id = a
OpenIsSomebodys ==
    \A a \in connections :
        \/ \E t \in Tabs : tab[t].conn = a
        \/ Coming(a) \/ Closing(a)
        \/ a \in forgotten

(* "The handshake finished just as it was given up (Cancel, the tab        *)
(* closed, its project left): close the connection nobody owns": an open   *)
(* connection that its tab neither waits for nor holds is closed.  False   *)
(* when Cancel and the end of the handshake cross.                         *)
GivenUp(a) == LET r == tab[owner[a]] IN r.pending # a /\ r.conn # a
GivenUpIsClosed ==
    \A a \in Attempts : (a \in connections /\ GivenUp(a)) ~> a \notin connections

(* Every attempt is settled: its tab does not wait for it for ever.        *)
AttemptsAreSettled ==
    \A t \in Tabs, a \in Attempts : tab[t].pending = a ~> tab[t].pending # a

=============================================================================
