----------------------------- MODULE McpSession ------------------------------
(***************************************************************************)
(* One tab of the MCP client: the store of the window                      *)
(* (renderer/stores/mcp.store.ts), the handlers (main/ipc/mcp.handler.ts)  *)
(* and the connections, calls and elicitations of the engine               *)
(* (main/protocols/mcp.engine.ts).                                         *)
(*                                                                         *)
(* An attempt to connect, its _pendingId and the connection it becomes     *)
(* have one number.  A call has at most one elicitation at a time, which   *)
(* has the number of the call.  Both directions of the IPC keep their      *)
(* order; the handlers run beside one another.                             *)
(***************************************************************************)
EXTENDS Integers, SequencesExt

CONSTANTS
    MaxAttempts,    \* bound: times the user connects
    MaxCalls,       \* bound: calls the user makes
    Transports,     \* what the server may be: "stdio" or "http"
    Backlog         \* bound: messages under way when the user or a server acts

Attempts == 1..MaxAttempts
Calls == 1..MaxCalls
CallKinds == {"tool", "resource"}

ASSUME McpConstants ==
    /\ MaxAttempts \in Nat /\ MaxCalls \in Nat /\ Backlog \in Nat
    /\ Transports \subseteq {"stdio", "http"} /\ Transports # {}

VARIABLES
    \* the window
    state,      \* connectionState of the tab
    alive,      \* whether the tab is there
    pending,    \* _pendingConnectId, or 0
    conn,       \* connectionId, or 0
    slot,       \* per kind: the call that owns the tab, or 0
    input,      \* pendingInput: the card of an "input_required" answer
    cards,      \* pendingElicitations: the call, and whether an answer is sent
    calls,      \* the code of each call: its kind, its connection, where it is
    toMain, toWindow,
    \* the engine
    transport,  \* what the server is
    phase,      \* of each attempt: "none", "handshake", "listening", "open"
                \* (in connections), "closing" (mcpDisconnect) or "gone"
    modern,     \* connections that negotiated the 2026 era
    pendingConnects,    \* handshakes a cancel can find
    dropped,    \* handshakes that are cancelled or whose transport closed
    trusting,   \* connections whose command line is being recorded as trusted
    requests,   \* calls the SDK has sent and not settled
    inflight,   \* inflightCalls: those of them a cancel can find
    elicits     \* pendingElicitations of the engine

tabVars == <<state, pending, conn, slot, input, cards>>
window == <<tabVars, alive, calls>>
connects == <<phase, modern, pendingConnects, dropped, trusting>>
main == <<transport, connects, requests, inflight, elicits>>
vars == <<window, toMain, toWindow, main>>

(* A call as it starts; "on" is its connection.                            *)
Started(kind, on, at, retry) ==
    [kind |-> kind, on |-> on, at |-> at, reply |-> "none", retry |-> retry]

Init ==
    /\ state = "disconnected" /\ alive = TRUE /\ pending = 0 /\ conn = 0
    /\ slot = [k \in CallKinds |-> 0] /\ input = FALSE /\ cards = {}
    /\ calls = [c \in Calls |-> Started("tool", 0, "none", FALSE)]
    /\ toMain = <<>> /\ toWindow = <<>>
    /\ transport \in Transports
    /\ phase = [a \in Attempts |-> "none"] /\ modern = {}
    /\ pendingConnects = {} /\ dropped = {} /\ trusting = {}
    /\ requests = {} /\ inflight = {} /\ elicits = {}

Message(op, of) == [op |-> op, of |-> of]
Answer(op, of, with) == [op |-> op, of |-> of, with |-> with]

Quick == Len(toMain) + Len(toWindow) < Backlog
Tell(messages) == toMain' = toMain \o messages
Post(messages) == toWindow' = toWindow \o messages

(* answerElicitations(): a message for each card, in whatever order.       *)
Cancels == SetToSeqs({Message("cancelElicitation", x.call) : x \in cards})

CardIds(S) == {x.call : x \in S}

-----------------------------------------------------------------------------
(* The window: connecting.                                                 *)

(* connect().                                                              *)
Connect(a) ==
    /\ alive /\ state \in {"disconnected", "error"} /\ Quick
    /\ phase[a] = "none" /\ \A b \in Attempts : b < a => phase[b] # "none"
    /\ \A k \in DOMAIN toMain : toMain[k] # Message("connect", a)
    /\ state' = "connecting" /\ pending' = a
    /\ Tell(<<Message("connect", a)>>)
    /\ UNCHANGED <<alive, conn, slot, input, cards, calls, toWindow, main>>

Delivered(op) == toWindow # <<>> /\ Head(toWindow).op = op /\ toWindow' = Tail(toWindow)

(* disconnectedPatch().                                                    *)
DisconnectedPatch ==
    /\ pending' = 0 /\ conn' = 0 /\ slot' = [k \in CallKinds |-> 0]
    /\ input' = FALSE /\ cards' = {}

(* connect(), after the reply: a stale result is closed.                   *)
ConnectReply ==
    LET r == Head(toWindow)
        current == alive /\ pending = r.of
    IN  /\ Delivered("connected")
        /\ state' = IF ~current THEN state ELSE IF r.with = "ok" THEN "connected" ELSE "error"
        /\ pending' = IF current THEN 0 ELSE pending
        /\ conn' = IF current /\ r.with = "ok" THEN r.of ELSE conn
        /\ Tell(IF ~current /\ r.with = "ok" THEN <<Message("disconnect", r.of)>> ELSE <<>>)
        /\ UNCHANGED <<alive, slot, input, cards, calls, main>>

Leave(cancelConnect, cancels) ==
    Tell((IF cancelConnect THEN <<Message("cancelConnect", pending)>> ELSE <<>>)
         \o cancels
         \o (IF conn # 0 THEN <<Message("disconnect", conn)>> ELSE <<>>))

(* disconnect(): the slice first, then main.                               *)
Disconnect ==
    /\ alive /\ state \in {"connecting", "connected"} /\ Quick
    /\ state' = "disconnected" /\ DisconnectedPatch
    /\ Leave(state = "connecting", <<>>)
    /\ UNCHANGED <<alive, calls, toWindow, main>>

(* removeTabState(): only the tab in front cancels its handshake.          *)
CloseTab ==
    /\ alive /\ Quick
    /\ alive' = FALSE /\ state' = "disconnected" /\ DisconnectedPatch
    /\ \E front \in BOOLEAN, cancels \in Cancels :
          Leave(front /\ state = "connecting", cancels)
    /\ UNCHANGED <<calls, toWindow, main>>

(* handleConnectionClosed(): for the tab that owns the connection.         *)
ClosedArrives ==
    LET e == Head(toWindow)
    IN  /\ Delivered("closed")
        /\ IF conn # 0 /\ conn = e.of
           THEN /\ state' = IF e.with = "reason" THEN "error" ELSE "disconnected"
                /\ DisconnectedPatch
           ELSE UNCHANGED tabVars
        /\ UNCHANGED <<alive, calls, toMain, main>>

-----------------------------------------------------------------------------
(* The window: calls.                                                      *)

(* callTool(), readResource(): the call takes its slot, then its scripts   *)
(* run.                                                                    *)
Call(c, k) ==
    /\ alive /\ conn # 0 /\ slot[k] = 0 /\ Quick
    /\ calls[c].at = "none" /\ \A d \in Calls : d < c => calls[d].at # "none"
    /\ slot' = [slot EXCEPT ![k] = c]
    /\ input' = IF k = "tool" THEN FALSE ELSE input
    /\ calls' = [calls EXCEPT ![c] = Started(k, conn, "scripts", FALSE)]
    /\ UNCHANGED <<state, alive, pending, conn, cards, toMain, toWindow, main>>

(* respondInput(): the next leg, without scripts.                          *)
RespondInput(c) ==
    /\ alive /\ conn # 0 /\ input /\ slot["tool"] = 0 /\ Quick
    /\ calls[c].at = "none" /\ \A d \in Calls : d < c => calls[d].at # "none"
    /\ slot' = [slot EXCEPT !["tool"] = c]
    /\ calls' = [calls EXCEPT ![c] = Started("tool", conn, "asked", TRUE)]
    /\ Tell(<<Message("call", c)>>)
    /\ UNCHANGED <<state, alive, pending, conn, input, cards, toWindow, main>>

(* Mutant: the cards go, and main is told nothing.                         *)
EndCall_CardsOnly(k, more) ==
    LET last == \A j \in CallKinds \ {k} : slot[j] = 0
    IN  /\ slot' = [slot EXCEPT ![k] = 0]
        /\ cards' = IF last THEN {} ELSE cards
        /\ Tell(more)

(* patchEndingCall(): the cards go with the last call that runs, and main  *)
(* is told "cancel" for them; then the messages of "more".                 *)
EndCall(k, more) ==
    LET last == \A j \in CallKinds \ {k} : slot[j] = 0
    IN  /\ slot' = [slot EXCEPT ![k] = 0]
        /\ cards' = IF last THEN {} ELSE cards
        /\ \E cancels \in Cancels :
              Tell((IF last /\ conn # 0 THEN cancels ELSE <<>>) \o more)

IsCurrent(c) == slot[calls[c].kind] = c

(* Mutant: a script that refuses the call leaves the tab busy.             *)
ScriptsEnd_StaysBusy(c, allow) ==
    /\ calls[c].at = "scripts"
    /\ calls' = [calls EXCEPT ![c].at = IF IsCurrent(c) /\ allow THEN "asked" ELSE "over"]
    /\ Tell(IF IsCurrent(c) /\ allow THEN <<Message("call", c)>> ELSE <<>>)
    /\ UNCHANGED <<state, alive, pending, conn, slot, cards, input, toWindow, main>>

(* preScriptsAllow(): the scripts let the call go to the server, or end    *)
(* it; a call that lost its tab meanwhile goes no further.                 *)
ScriptsEnd(c, allow) ==
    LET k == calls[c].kind
    IN  /\ calls[c].at = "scripts"
        /\ calls' = [calls EXCEPT ![c].at = IF IsCurrent(c) /\ allow THEN "asked" ELSE "over"]
        /\ CASE ~IsCurrent(c) -> UNCHANGED <<slot, cards, toMain>>
             [] IsCurrent(c) /\ allow -> Tell(<<Message("call", c)>>) /\ UNCHANGED <<slot, cards>>
             [] IsCurrent(c) /\ ~allow -> EndCall(k, <<>>)
        /\ UNCHANGED <<state, alive, pending, conn, input, toWindow, main>>

(* The reply, and the checks that run on it.                               *)
CallReply ==
    LET r == Head(toWindow)
    IN  /\ Delivered("answer")
        /\ calls' = [calls EXCEPT ![r.of].at = "checks", ![r.of].reply = r.with]
        /\ UNCHANGED <<tabVars, alive, toMain, main>>

(* The reply on the tab, unless a newer call has its place.  A tool that   *)
(* asks for input opens the card; an answer to it that failed keeps it.    *)
ChecksEnd(c) ==
    LET r == calls[c]
    IN  /\ r.at = "checks"
        /\ calls' = [calls EXCEPT ![c].at = "over"]
        /\ IF conn # 0 /\ conn = r.on /\ IsCurrent(c)
           THEN /\ EndCall(r.kind, <<>>)
                /\ input' = IF r.kind = "resource" THEN input
                            ELSE r.reply = "input" \/ (r.retry /\ r.reply = "error" /\ input)
           ELSE UNCHANGED <<slot, cards, input, toMain>>
        /\ UNCHANGED <<state, alive, pending, conn, toWindow, main>>

(* dismissInput().                                                         *)
DismissInput ==
    /\ alive /\ input /\ Quick
    /\ input' = FALSE
    /\ UNCHANGED <<state, alive, pending, conn, slot, cards, calls, toMain, toWindow, main>>

(* cancelCall(): the tab first, then main.                                 *)
CancelCall(k) ==
    /\ alive /\ conn # 0 /\ slot[k] # 0 /\ Quick
    /\ EndCall(k, <<Message("cancelCall", slot[k])>>)
    /\ input' = IF k = "tool" THEN FALSE ELSE input
    /\ UNCHANGED <<state, alive, pending, conn, calls, toWindow, main>>

-----------------------------------------------------------------------------
(* The window: elicitations.                                               *)

(* handleElicitation(): a card, or "cancel" when no tab owns it.           *)
ElicitationArrives ==
    LET c == Head(toWindow).of
        owned == conn # 0 /\ conn = calls[c].on
    IN  /\ Delivered("elicitation")
        /\ cards' = IF owned THEN cards \cup {[call |-> c, sending |-> FALSE]} ELSE cards
        /\ Tell(IF owned THEN <<>> ELSE <<Message("cancelElicitation", c)>>)
        /\ UNCHANGED <<state, alive, pending, conn, slot, input, calls, main>>

(* respondElicitation(): once per card.                                    *)
RespondElicitation(c) ==
    LET card == [call |-> c, sending |-> FALSE]
    IN  /\ alive /\ conn # 0 /\ card \in cards /\ Quick
        /\ cards' = (cards \ {card}) \cup {[card EXCEPT !.sending = TRUE]}
        /\ Tell(<<Message("answerElicitation", c)>>)
        /\ UNCHANGED <<state, alive, pending, conn, slot, input, calls, toWindow, main>>

(* Delivered, or "No pending elicitation": the card goes either way.       *)
ElicitationReply ==
    LET c == Head(toWindow).of
    IN  /\ Delivered("elicited")
        /\ cards' = IF conn # 0 /\ conn = calls[c].on
                    THEN {x \in cards : x.call # c} ELSE cards
        /\ UNCHANGED <<state, alive, pending, conn, slot, input, calls, toMain, main>>

-----------------------------------------------------------------------------
(* The engine: connections.                                                *)

Received(op) == toMain # <<>> /\ Head(toMain).op = op /\ toMain' = Tail(toMain)

(* mcpConnect(): the handshake starts, under its pendingId.                *)
MainConnect ==
    LET a == Head(toMain).of
    IN  /\ Received("connect")
        /\ phase' = [phase EXCEPT ![a] = "handshake"]
        /\ pendingConnects' = pendingConnects \cup {a}
        /\ UNCHANGED <<window, toWindow, transport, modern, dropped, trusting, requests,
                   inflight, elicits>>

(* Mutant: the connection is made although it was dropped while listening. *)
Established_Unchecked(a) ==
    /\ pendingConnects' = pendingConnects \ {a}
    /\ phase' = [phase EXCEPT ![a] = "open"]
    /\ trusting' = IF transport = "stdio" THEN trusting \cup {a} ELSE trusting
    /\ Post(IF transport = "stdio" THEN <<>> ELSE <<Answer("connected", a, "ok")>>)

(* The end of mcpConnect(): unless it was cancelled or its transport       *)
(* closed, the connection is registered; the handler of a stdio server     *)
(* awaits trustStdioServer() before it replies.                            *)
Established(a) ==
    /\ pendingConnects' = pendingConnects \ {a}
    /\ IF a \in dropped
       THEN /\ phase' = [phase EXCEPT ![a] = "gone"]
            /\ Post(<<Answer("connected", a, "failed")>>)
            /\ UNCHANGED trusting
       ELSE /\ phase' = [phase EXCEPT ![a] = "open"]
            /\ trusting' = IF transport = "stdio" THEN trusting \cup {a} ELSE trusting
            /\ Post(IF transport = "stdio" THEN <<>> ELSE <<Answer("connected", a, "ok")>>)

(* A handshake of the older era is over; one of the 2026 era goes on to    *)
(* open its subscription, where the server can list what changes.          *)
HandshakeDone(a, era) ==
    /\ phase[a] = "handshake" /\ a \notin dropped
    /\ modern' = IF era = "legacy" THEN modern ELSE modern \cup {a}
    /\ IF era = "listens"
       THEN /\ phase' = [phase EXCEPT ![a] = "listening"]
            /\ UNCHANGED <<pendingConnects, trusting, toWindow>>
       ELSE Established(a)
    /\ UNCHANGED <<window, toMain, transport, dropped, requests, inflight, elicits>>

(* It fails: refused, timed out, closed or cancelled.                      *)
HandshakeFails(a) ==
    /\ phase[a] = "handshake"
    /\ phase' = [phase EXCEPT ![a] = "gone"]
    /\ pendingConnects' = pendingConnects \ {a}
    /\ Post(<<Answer("connected", a, "failed")>>)
    /\ UNCHANGED <<window, toMain, transport, modern, dropped, trusting, requests,
                   inflight, elicits>>

(* The listen request ends, acknowledged or not.                           *)
Listening(a) ==
    /\ phase[a] = "listening"
    /\ Established(a)
    /\ UNCHANGED <<window, toMain, transport, modern, dropped, requests, inflight, elicits>>

Trusted(a) ==
    /\ a \in trusting
    /\ trusting' = trusting \ {a}
    /\ Post(<<Answer("connected", a, "ok")>>)
    /\ UNCHANGED <<window, toMain, transport, phase, modern, pendingConnects, dropped,
                   requests, inflight, elicits>>

(* mcpCancelConnect(): a handshake that is found is torn down.             *)
MainCancelConnect ==
    LET a == Head(toMain).of
        found == a \in pendingConnects
    IN  /\ Received("cancelConnect")
        /\ pendingConnects' = pendingConnects \ {a}
        /\ dropped' = IF found THEN dropped \cup {a} ELSE dropped
        /\ UNCHANGED <<window, toWindow, transport, phase, modern, trusting, requests,
                   inflight, elicits>>

CallsOn(a) == {c \in Calls : calls[c].on = a}

(* handleClose(): the event first, then the calls that were waiting.       *)
HandleClose(a, why) ==
    LET failing == {Answer("answer", c, "error") : c \in requests \cap CallsOn(a)}
    IN  /\ phase' = [phase EXCEPT ![a] = "gone"]
        /\ \E failures \in SetToSeqs(failing) : Post(<<Answer("closed", a, why)>> \o failures)
        /\ requests' = requests \ CallsOn(a)

(* The transport closes under the connection.                              *)
ServerCloses(a) ==
    /\ Quick
    /\ \/ /\ phase[a] = "listening" /\ a \notin dropped
          /\ dropped' = dropped \cup {a}
          /\ UNCHANGED <<phase, requests, inflight, elicits, toWindow>>
       \/ /\ phase[a] = "open"
          /\ inflight' = inflight \ CallsOn(a) /\ elicits' = elicits \ CallsOn(a)
          /\ HandleClose(a, "reason")
          /\ UNCHANGED dropped
    /\ UNCHANGED <<window, toMain, transport, modern, pendingConnects, trusting>>

(* mcpDisconnect(), up to what it awaits.                                  *)
MainDisconnect ==
    LET a == Head(toMain).of
    IN  /\ Received("disconnect")
        /\ IF phase[a] = "open"
           THEN /\ phase' = [phase EXCEPT ![a] = "closing"]
                /\ inflight' = inflight \ CallsOn(a) /\ elicits' = elicits \ CallsOn(a)
           ELSE UNCHANGED <<phase, inflight, elicits>>
        /\ UNCHANGED <<window, toWindow, transport, modern, pendingConnects, dropped, trusting,
                       requests>>

(* The client is closed, or the server was faster.                         *)
Closed(a) ==
    /\ phase[a] = "closing"
    /\ HandleClose(a, "none")
    /\ UNCHANGED <<window, toMain, transport, modern, pendingConnects, dropped, trusting,
                   inflight, elicits>>

-----------------------------------------------------------------------------
(* The engine: calls and elicitations.                                     *)

(* mcpCallTool(), mcpReadResource(), mcpRespondInput().                    *)
MainCall ==
    LET c == Head(toMain).of
        found == phase[calls[c].on] = "open"
    IN  /\ Received("call")
        /\ inflight' = IF found THEN inflight \cup {c} ELSE inflight
        /\ requests' = IF found THEN requests \cup {c} ELSE requests
        /\ Post(IF found THEN <<>> ELSE <<Answer("answer", c, "error")>>)
        /\ UNCHANGED <<window, transport, connects, elicits>>

(* The server answers, or the call times out; a server of the 2026 era may *)
(* ask a tool's caller for input.                                          *)
ServerAnswers(c, with) ==
    /\ c \in requests /\ Quick
    /\ with = "input" => calls[c].on \in modern /\ calls[c].kind = "tool"
    /\ requests' = requests \ {c} /\ inflight' = inflight \ {c}
    /\ Post(<<Answer("answer", c, with)>>)
    /\ UNCHANGED <<window, toMain, transport, connects, elicits>>

(* Nothing is left of the last elicitation of the call: the next one takes *)
(* its number.                                                             *)
Unasked(c) ==
    /\ c \notin elicits /\ c \notin CardIds(cards)
    /\ \A k \in DOMAIN toWindow :
          toWindow[k].of = c => toWindow[k].op \notin {"elicitation", "elicited"}
    /\ \A k \in DOMAIN toMain :
          toMain[k].of = c => toMain[k].op \notin {"answerElicitation", "cancelElicitation"}

(* handleElicitation() of the engine, for a tool call of the older era.    *)
ServerElicits(c) ==
    /\ c \in inflight /\ calls[c].kind = "tool" /\ calls[c].on \notin modern /\ Quick
    /\ Unasked(c)
    /\ elicits' = elicits \cup {c}
    /\ Post(<<Message("elicitation", c)>>)
    /\ UNCHANGED <<window, toMain, transport, connects, requests, inflight>>

(* After ten minutes, or withdrawn by the server.                          *)
ElicitationEnds(c) ==
    /\ c \in elicits
    /\ elicits' = elicits \ {c}
    /\ UNCHANGED <<window, toMain, toWindow, transport, connects, requests, inflight>>

(* mcpRespondElicitation(): an answer of the user has a reply.             *)
MainRespondElicitation(op) ==
    LET c == Head(toMain).of
    IN  /\ Received(op)
        /\ elicits' = elicits \ {c}
        /\ Post(IF op = "answerElicitation" THEN <<Message("elicited", c)>> ELSE <<>>)
        /\ UNCHANGED <<window, transport, connects, requests, inflight>>

(* mcpCancelCall(): the call rejects as cancelled; every elicitation of    *)
(* the connection is answered "cancel".                                    *)
MainCancelCall ==
    LET c == Head(toMain).of
        found == c \in inflight
    IN  /\ Received("cancelCall")
        /\ requests' = IF found THEN requests \ {c} ELSE requests
        /\ inflight' = inflight \ {c}
        /\ elicits' = IF found THEN elicits \ CallsOn(calls[c].on) ELSE elicits
        /\ Post(IF found THEN <<Answer("answer", c, "cancelled")>> ELSE <<>>)
        /\ UNCHANGED <<window, transport, connects>>

-----------------------------------------------------------------------------
UserNext ==
    \/ Disconnect \/ CloseTab \/ DismissInput
    \/ \E a \in Attempts : Connect(a)
    \/ \E c \in Calls : RespondInput(c) \/ RespondElicitation(c)
    \/ \E c \in Calls, k \in CallKinds : Call(c, k)
    \/ \E k \in CallKinds : CancelCall(k)

WindowGoesOn ==
    \/ ConnectReply \/ ClosedArrives \/ CallReply \/ ElicitationArrives \/ ElicitationReply

Checks(c) == ChecksEnd(c) \/ \E allow \in BOOLEAN : ScriptsEnd(c, allow)

MainGoesOn ==
    \/ MainConnect \/ MainCancelConnect \/ MainDisconnect \/ MainCall \/ MainCancelCall
    \/ \E op \in {"answerElicitation", "cancelElicitation"} : MainRespondElicitation(op)

HandshakeEnds(a) ==
    \/ HandshakeFails(a) \/ Listening(a)
    \/ \E era \in {"legacy", "modern", "listens"} : HandshakeDone(a, era)

ServerNext ==
    \/ \E a \in Attempts : ServerCloses(a)
    \/ \E c \in Calls, with \in {"ok", "error", "input"} : ServerAnswers(c, with)
    \/ \E c \in Calls : ServerElicits(c) \/ ElicitationEnds(c)

Next ==
    \/ UserNext \/ WindowGoesOn \/ MainGoesOn \/ ServerNext
    \/ \E c \in Calls : Checks(c)
    \/ \E a \in Attempts : HandshakeEnds(a) \/ Trusted(a) \/ Closed(a)

(* Messages arrive; scripts and checks end; a handshake and the wait of a  *)
(* close have time limits.  Neither the user nor a server has to act.      *)
Fairness ==
    /\ WF_vars(WindowGoesOn) /\ WF_vars(MainGoesOn)
    /\ \A c \in Calls : WF_vars(Checks(c))
    /\ \A a \in Attempts :
          WF_vars(HandshakeEnds(a)) /\ WF_vars(Trusted(a)) /\ WF_vars(Closed(a))

Spec == Init /\ [][Next]_vars /\ Fairness

-----------------------------------------------------------------------------
Quiet == toMain = <<>> /\ toWindow = <<>>

(* A call that has its place on the tab will be given it back: its scripts *)
(* or checks run, it is in the engine, or its reply is under way.          *)
EveryCallIsAnswered ==
    \A k \in CallKinds : slot[k] # 0 /\ Quiet =>
        calls[slot[k]].at \in {"scripts", "checks"} \/ slot[k] \in requests

(* The server does not wait for nobody: an elicitation the engine holds    *)
(* open is on a card of the tab, or its answer is on its way.              *)
QuestionHasItsCard ==
    Quiet => \A c \in elicits : c \in CardIds(cards) /\ conn = calls[c].on

(* The tab and the engine agree, once nothing is under way: no connection  *)
(* is left open but the tab's (or one whose trust card is up), and a tab of*)
(* an HTTP server that says connected is connected, or the close is on its *)
(* way to it.                                                              *)
ConnectionsMatch ==
    Quiet =>
        /\ \A a \in Attempts : phase[a] = "open" => conn = a \/ a \in trusting
        /\ transport = "http" /\ conn # 0 =>
               phase[conn] \in {"open", "closing"} /\ conn \notin dropped

=============================================================================
