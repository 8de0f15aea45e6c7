------------------------------- MODULE AiChat --------------------------------
(***************************************************************************)
(* One tab of the AI chat and the Sends it makes: the store of the window  *)
(* (renderer/stores/ai-chat.store.ts, ai-chat-tools.ts), the handlers of   *)
(* the main process (main/ipc/ai-chat.handler.ts) and the loop of model    *)
(* turns and tool calls they drive (main/protocols/ai-chat-loop.ts), with  *)
(* the MCP sessions it opens.                                              *)
(*                                                                         *)
(* The processes talk over IPC, each direction a channel in order.  An     *)
(* await of the loop ends a step.  A server stands for the one tool it     *)
(* offers, and so for the key of the grants ("Allow this tool").  The id   *)
(* of a call is a sequence: the provider's id, and the loop's suffix,      *)
(* whose counter never needs to pass the number of calls of a turn.        *)
(***************************************************************************)
EXTENDS Integers, Sequences, FiniteSets

CONSTANTS
    NServers,       \* MCP servers offered as tools, in their order
    Kinds,          \* what a server may be
    RawIds,         \* ids a provider may give to its calls
    MaxRounds,      \* AI_TOOL_LOOP_MAX_ROUNDS
    MaxCalls,       \* bound: calls of one answer of the model
    MaxSends,       \* bound: prompts the user sends
    Backlog         \* bound: messages under way when the user clicks, or when
                    \* the loop goes on

Servers == 1..NServers
Bad == 0            \* the target of a call that names no tool, or has no valid
Targets == Servers \cup {Bad}                                   \* arguments
Sends == 1..MaxSends
Suffixes == {<<>>} \cup {<<r, n>> : r \in 1..MaxRounds, n \in 1..(MaxRounds * MaxCalls)}
Ids == {raw \o x : raw \in RawIds, x \in Suffixes}

ASSUME AiChatConstants ==
    /\ NServers \in Nat /\ MaxRounds \in Nat \ {0} /\ MaxCalls \in Nat \ {0}
    /\ MaxSends \in Nat /\ Backlog \in Nat
    /\ Kinds \subseteq {"oauth", "stdio", "remote"} /\ Kinds # {}
    /\ RawIds \subseteq Seq(Nat) /\ RawIds # {}

VARIABLES
    \* the window
    tab,        \* "idle", "preparing", "asked" (aichat:send is under way) or
                \* "streaming" (the messageId is known)
    alive,      \* whether the tab is still there
    sends,      \* prompts sent; the number of the last one is its messageId
    shown,      \* the tool calls of the turn on screen: the tool, the status,
                \* and whether the result is there
    cards,      \* per server: the card that asks to trust it
    granted,    \* allowedTools of the tab
    setup,      \* what the servers are, and "Run tools without asking"
    \* between the processes
    toMain, toWindow,
    \* the handlers of the main process
    entry,      \* activeStreams: the messageId registered, or 0
    aborted,    \* the signal of the turn
    approvals, gates,       \* questions waiting for an answer
    recording,  \* servers whose trust is being recorded
    trusted,    \* servers recorded as trusted
    answer,     \* how the question the loop waits for was answered
    \* the loop
    loop,       \* where it is: step, server, round, calls to do, outcome
    open,       \* servers with a session
    allowed,    \* grants of this turn
    used,       \* ids of the turn's calls
    asked,      \* (observed only) how many calls the model asked for
    said        \* (observed only) what the user clicked

window == <<tab, alive, sends, shown, cards, granted, setup>>
questions == <<approvals, gates, recording, trusted, answer>>
turn == <<loop, open, allowed, used, asked>>
main == <<entry, aborted, questions, turn>>
vars == <<window, toMain, toWindow, main, said>>

Off == [at |-> "off", server |-> 0, round |-> 0, todo |-> <<>>, outcome |-> "none"]
NoCards == [s \in Servers |-> "none"]

Init ==
    /\ tab = "idle" /\ alive = TRUE /\ sends = 0 /\ shown = <<>> /\ cards = NoCards
    /\ granted = {}
    /\ setup \in [kind : [Servers -> Kinds], auto : BOOLEAN]
    /\ toMain = <<>> /\ toWindow = <<>>
    /\ entry = 0 /\ aborted = FALSE
    /\ approvals = {} /\ gates = {} /\ recording = {} /\ answer = "none"
    /\ trusted \in SUBSET {s \in Servers : setup.kind[s] = "stdio"}
    /\ loop = Off /\ open = {} /\ allowed = {} /\ used = {} /\ asked = 0
    /\ said = {[yes |-> "server", to |-> s] : s \in trusted}

(* Calls of the window, and events of main.                                *)
Send(m, keys) == [op |-> "send", m |-> m, keys |-> keys]
Cancel(m) == [op |-> "cancel", m |-> m]
ApproveTool(m, id, d) == [op |-> "approve", m |-> m, id |-> id, decision |-> d]
ResolveTrust(m, s, d) == [op |-> "trust", m |-> m, server |-> s, decision |-> d]
Reply(m) == [type |-> "reply", m |-> m]
CallPart(c, status) == [type |-> "call", call |-> c, status |-> status]
ResultPart(c) == [type |-> "result", call |-> c]
Card(s, status) == [type |-> "card", server |-> s, status |-> status]
Ended == [type |-> "end"]

-----------------------------------------------------------------------------
(* The window: what the user does.                                         *)

Quick == Len(toMain) + Len(toWindow) < Backlog

(* sendPrompt(), up to the await for the servers' settings: a new turn is  *)
(* on screen.                                                              *)
SendPrompt ==
    /\ alive /\ tab = "idle" /\ sends < MaxSends
    /\ tab' = "preparing" /\ sends' = sends + 1
    /\ shown' = <<>> /\ cards' = NoCards
    /\ UNCHANGED <<alive, granted, setup, toMain, toWindow, main, said>>

(* sendPrompt(), after it: main is asked, even when the tab is gone.       *)
Prepared ==
    /\ tab = "preparing"
    /\ tab' = "asked"
    /\ toMain' = Append(toMain, Send(sends, granted))
    /\ UNCHANGED <<alive, sends, shown, cards, granted, setup, toWindow, main, said>>

(* The servers' settings cannot be read: the tab shows the error.          *)
PrepareFails ==
    /\ tab = "preparing"
    /\ tab' = "idle"
    /\ UNCHANGED <<alive, sends, shown, cards, granted, setup, toMain, toWindow, main, said>>

(* cancel(): the Stop button does nothing before the messageId is known.   *)
Stop ==
    /\ tab = "streaming" /\ Quick
    /\ toMain' = Append(toMain, Cancel(sends))
    /\ UNCHANGED <<window, toWindow, main, said>>

(* answerToolApproval(): the buttons of a call that waits; "conversation"  *)
(* is a grant of the tab as well.                                          *)
AnswerCall(id, d) ==
    /\ tab = "streaming" /\ Quick
    /\ id \in DOMAIN shown /\ shown[id].status = "pending-approval"
    /\ toMain' = Append(toMain, ApproveTool(sends, id, d))
    /\ granted' = granted \cup (IF d = "conversation" THEN {shown[id].on} ELSE {})
    /\ said' = said \cup
         CASE d = "conversation" -> {[yes |-> "tool", to |-> shown[id].on]}
           [] d = "once" -> {[yes |-> "call", to |-> <<sends, id>>]}
           [] d = "deny" -> {}
    /\ UNCHANGED <<tab, alive, sends, shown, cards, setup, toWindow, main>>

(* answerStdioTrust(): the buttons of a trust card.                        *)
AnswerTrust(s, d) ==
    /\ tab = "streaming" /\ Quick
    /\ cards[s] = "pending"
    /\ toMain' = Append(toMain, ResolveTrust(sends, s, d))
    /\ said' = said \cup (IF d = "trust" THEN {[yes |-> "server", to |-> s]} ELSE {})
    /\ UNCHANGED <<window, toWindow, main>>

(* clearConversation(): a new conversation has no grants.                  *)
ClearConversation ==
    /\ alive /\ tab = "idle" /\ granted # {}
    /\ granted' = {} /\ said' = {x \in said : x.yes # "tool"}
    /\ UNCHANGED <<tab, alive, sends, shown, cards, setup, toMain, toWindow, main>>

(* removeTabState(): a turn whose messageId is known is cancelled.  What   *)
(* sendPrompt() still awaits goes on.                                      *)
CloseTab ==
    /\ alive
    /\ alive' = FALSE
    /\ tab' = IF tab = "streaming" THEN "idle" ELSE tab
    /\ toMain' = IF tab = "streaming" THEN Append(toMain, Cancel(sends)) ELSE toMain
    /\ UNCHANGED <<sends, shown, cards, granted, setup, toWindow, main, said>>

-----------------------------------------------------------------------------
(* The window: what reaches it.                                            *)

Delivered == toWindow # <<>> /\ toWindow' = Tail(toWindow)

(* Mutant: the reply does not look whether the tab is still there.         *)
ReplyArrives_Always ==
    /\ Delivered /\ Head(toWindow).type = "reply"
    /\ tab' = IF alive THEN "streaming" ELSE "idle"
    /\ UNCHANGED <<alive, sends, shown, cards, granted, setup, toMain, main, said>>

(* sendPrompt(), after the reply of aichat:send.                           *)
ReplyArrives ==
    /\ Delivered /\ Head(toWindow).type = "reply"
    /\ tab' = IF alive THEN "streaming" ELSE "idle"
    /\ toMain' = IF alive THEN toMain ELSE Append(toMain, Cancel(Head(toWindow).m))
    /\ UNCHANGED <<alive, sends, shown, cards, granted, setup, main, said>>

(* _onPart(): a part replaces the one with the same identity; a turn that  *)
(* no tab is waiting for is dropped.                                       *)
PartArrives ==
    LET p == Head(toWindow)
        Put(id, r) == [i \in DOMAIN shown \cup {id} |-> IF i = id THEN r ELSE shown[i]]
        Has(id) == id \in DOMAIN shown /\ shown[id].result
    IN  /\ Delivered /\ p.type \in {"call", "result", "card"}
        /\ shown' = CASE tab # "streaming" \/ p.type = "card" -> shown
                      [] tab = "streaming" /\ p.type = "call" -> Put(p.call.id,
                            [on |-> p.call.on, status |-> p.status, result |-> Has(p.call.id)])
                      [] tab = "streaming" /\ p.type = "result" ->
                            [shown EXCEPT ![p.call.id].result = TRUE]
        /\ cards' = IF tab = "streaming" /\ p.type = "card"
                    THEN [cards EXCEPT ![p.server] = p.status] ELSE cards
        /\ UNCHANGED <<tab, alive, sends, granted, setup, toMain, main, said>>

(* _onDone(), _onError(), _onCancelled().                                  *)
EndArrives ==
    /\ Delivered /\ Head(toWindow).type = "end"
    /\ tab' = IF tab = "streaming" THEN "idle" ELSE tab
    /\ UNCHANGED <<alive, sends, shown, cards, granted, setup, toMain, main, said>>

-----------------------------------------------------------------------------
(* The handlers of the main process.                                       *)

Received(op) == toMain # <<>> /\ Head(toMain).op = op /\ toMain' = Tail(toMain)

(* aichat:send: the turn is registered and its loop runs in the            *)
(* background; it loads what it needs first.                               *)
MainSends ==
    /\ Received("send")
    /\ entry' = Head(toMain).m /\ aborted' = FALSE
    /\ approvals' = {} /\ gates' = {} /\ answer' = "none"
    /\ loop' = [Off EXCEPT !.at = "deps", !.server = 1]
    /\ open' = {} /\ allowed' = Head(toMain).keys /\ used' = {} /\ asked' = 0
    /\ toWindow' = Append(toWindow, Reply(Head(toMain).m))
    /\ UNCHANGED <<window, recording, trusted, said>>

(* Mutant: the answer goes to whatever question waits.                     *)
MainApproves_AnyCall ==
    LET c == Head(toMain)
        waits == entry = c.m /\ approvals # {}
    IN  /\ Received("approve")
        /\ approvals' = IF waits THEN {} ELSE approvals
        /\ answer' = IF waits THEN c.decision ELSE answer
        /\ UNCHANGED <<window, toWindow, entry, aborted, gates, recording, trusted, turn, said>>

(* aichat:approveTool: an answer counts while its question waits.          *)
MainApproves ==
    LET c == Head(toMain)
        waits == entry = c.m /\ c.id \in approvals
    IN  /\ Received("approve")
        /\ approvals' = IF waits THEN approvals \ {c.id} ELSE approvals
        /\ answer' = IF waits THEN c.decision ELSE answer
        /\ UNCHANGED <<window, toWindow, entry, aborted, gates, recording, trusted, turn, said>>

(* aichat:resolveStdioTrust: the gate goes first; the trust is recorded    *)
(* before the loop is told.                                                *)
MainResolvesTrust ==
    LET c == Head(toMain)
        waits == entry = c.m /\ c.server \in gates
    IN  /\ Received("trust")
        /\ gates' = IF waits THEN gates \ {c.server} ELSE gates
        /\ recording' = IF waits /\ c.decision = "trust"
                        THEN recording \cup {c.server} ELSE recording
        /\ answer' = IF waits /\ c.decision = "skip" THEN "skip" ELSE answer
        /\ UNCHANGED <<window, toWindow, entry, aborted, approvals, trusted, turn, said>>

TrustRecorded(s) ==
    /\ s \in recording
    /\ recording' = recording \ {s} /\ trusted' = trusted \cup {s}
    /\ answer' = "trusted"
    /\ UNCHANGED <<window, toMain, toWindow, entry, aborted, approvals, gates, turn, said>>

(* Mutant: the resolvers are forgotten, not called.                        *)
SettleQuestions_ClearsOnly ==
    approvals' = {} /\ gates' = {} /\ UNCHANGED answer

(* settleQuestions().                                                      *)
SettleQuestions ==
    /\ approvals' = {} /\ gates' = {}
    /\ answer' = IF approvals # {} \/ gates # {} THEN "cancelled" ELSE answer

(* aichat:cancel.                                                          *)
MainCancels ==
    /\ Received("cancel")
    /\ IF entry = Head(toMain).m
       THEN entry' = 0 /\ aborted' = TRUE /\ SettleQuestions
       ELSE UNCHANGED <<entry, aborted, approvals, gates, answer>>
    /\ UNCHANGED <<window, toWindow, recording, trusted, turn, said>>

(* endSenderStreams(): the window reloads, crashes or closes.              *)
WindowGone ==
    /\ alive
    /\ alive' = FALSE /\ tab' = "idle" /\ toMain' = <<>> /\ toWindow' = <<>>
    /\ IF entry # 0
       THEN entry' = 0 /\ aborted' = TRUE /\ SettleQuestions
       ELSE UNCHANGED <<entry, aborted, approvals, gates, answer>>
    /\ UNCHANGED <<sends, shown, cards, granted, setup, recording, trusted, turn, said>>

-----------------------------------------------------------------------------
(* The loop.                                                               *)

At(step) == loop.at = step
GoTo(step) == loop' = [loop EXCEPT !.at = step]
Emit(parts) == toWindow' = IF alive THEN toWindow \o parts ELSE toWindow
Room == Len(toWindow) < Backlog
Finish(outcome) == loop' = [loop EXCEPT !.at = "closing", !.outcome = outcome]
NextServer == loop' = [loop EXCEPT !.at = "servers", !.server = @ + 1]

(* Unless it fails to load, which ends the turn at once.                   *)
DepsLoaded ==
    /\ At("deps") /\ Room
    /\ \/ GoTo("servers")
       \/ Finish("error")
    /\ Emit(<<>>)
    /\ UNCHANGED <<window, toMain, entry, aborted, questions, open, allowed, used, asked, said>>

(* The servers one after the other: the abort comes first, a server with   *)
(* OAuth is left out, a command has to be trusted.                         *)
ServersStep ==
    LET s == loop.server
        kind == setup.kind[s]
    IN  /\ At("servers") /\ Room
        /\ IF s > NServers THEN loop' = [loop EXCEPT !.at = "round", !.round = 1]
           ELSE CASE aborted -> Finish("cancelled")
                  [] ~aborted /\ kind = "oauth" -> NextServer
                  [] ~aborted /\ kind = "stdio" -> GoTo("isTrusted")
                  [] OTHER -> GoTo("openSession")
        /\ UNCHANGED <<window, toMain, toWindow, entry, aborted, questions, open, allowed, used, asked, said>>

(* isTrusted(): otherwise the user is asked; a turn aborted meanwhile has  *)
(* its answer.                                                             *)
TrustChecked ==
    LET s == loop.server
    IN  /\ At("isTrusted") /\ Room
        /\ IF s \in trusted
           THEN GoTo("openSession") /\ Emit(<<>>) /\ UNCHANGED questions
           ELSE /\ GoTo("askTrust") /\ Emit(<<Card(s, "pending")>>)
                /\ gates' = IF aborted THEN gates ELSE gates \cup {s}
                /\ answer' = IF aborted THEN "cancelled" ELSE "none"
                /\ UNCHANGED <<approvals, recording, trusted>>
        /\ UNCHANGED <<window, toMain, entry, aborted, open, allowed, used, asked, said>>

TrustAnswered ==
    LET s == loop.server
        yes == answer = "trusted" /\ s \in trusted
    IN  /\ At("askTrust") /\ answer # "none" /\ Room
        /\ IF answer = "cancelled" \/ aborted THEN Finish("cancelled")
           ELSE IF yes THEN GoTo("openSession") ELSE NextServer
        /\ Emit(<<Card(s, IF yes /\ ~aborted THEN "trusted" ELSE "skipped")>>)
        /\ answer' = "none"
        /\ UNCHANGED <<window, toMain, entry, aborted, approvals, gates, recording, trusted,
                       open, allowed, used, asked, said>>

(* mcpOpenDetachedSession(): an aborted turn starts nothing.               *)
OpenSession ==
    /\ At("openSession")
    /\ IF aborted THEN Finish("cancelled") ELSE GoTo("opening")
    /\ UNCHANGED <<window, toMain, toWindow, entry, aborted, questions, open, allowed, used, asked, said>>

(* The abort gives the attempt up, and what comes up later is closed.      *)
SessionAborted ==
    /\ At("opening") /\ aborted
    /\ Finish("cancelled")
    /\ UNCHANGED <<window, toMain, toWindow, entry, aborted, questions, open, allowed, used, asked, said>>

SessionOpens ==
    /\ At("opening") /\ ~aborted
    /\ open' = open \cup {loop.server}
    /\ NextServer
    /\ UNCHANGED <<window, toMain, toWindow, entry, aborted, questions, allowed, used, asked, said>>

(* A server that fails is left out, unless the error's text says "aborted". *)
SessionFails ==
    /\ At("opening") /\ ~aborted
    /\ NextServer \/ Finish("cancelled")
    /\ UNCHANGED <<window, toMain, toWindow, entry, aborted, questions, open, allowed, used, asked, said>>

(* Mutant: the round does not look at the abort.                           *)
StartRound_Unchecked ==
    /\ At("round")
    /\ GoTo("streaming")
    /\ UNCHANGED <<window, toMain, toWindow, entry, aborted, questions, open, allowed, used, asked, said>>

(* A round: one request to the model.                                      *)
StartRound ==
    /\ At("round")
    /\ IF aborted THEN Finish("cancelled") ELSE GoTo("streaming")
    /\ UNCHANGED <<window, toMain, toWindow, entry, aborted, questions, open, allowed, used, asked, said>>

(* The abort ends the stream; so does an error, which counts as a cancel   *)
(* when its text says "aborted".                                           *)
StreamAborted ==
    /\ At("streaming") /\ aborted
    /\ Finish("cancelled")
    /\ UNCHANGED <<window, toMain, toWindow, entry, aborted, questions, open, allowed, used, asked, said>>

StreamFails(outcome) ==
    /\ At("streaming") /\ ~aborted
    /\ Finish(outcome)
    /\ UNCHANGED <<window, toMain, toWindow, entry, aborted, questions, open, allowed, used, asked, said>>

(* An id unique within the turn: a counter follows one that is taken.      *)
UniqueId(raw, seen, id) ==
    /\ id \notin seen
    /\ \/ id = raw
       \/ /\ raw \in seen
          /\ \E n \in 1..(MaxRounds * MaxCalls) :
                /\ id = raw \o <<loop.round, n>>
                /\ \A k \in 1..(n - 1) : raw \o <<loop.round, k>> \in seen

(* The ids of an answer: each is new to the turn and to those before it.   *)
Named(raws) ==
    {ids \in [DOMAIN raws -> Ids] :
        \A k \in DOMAIN raws : UniqueId(raws[k], used \cup {ids[j] : j \in 1..(k - 1)}, ids[k])}

Refused(calls) ==       \* calls that are answered with an error, not run
    [k \in 1..(2 * Len(calls)) |->
        IF k % 2 = 1 THEN CallPart(calls[(k + 1) \div 2], "error")
                     ELSE ResultPart(calls[k \div 2])]

(* Mutant: no round is the last one.                                       *)
ModelAnswers_NoCap(raws, on) ==
    /\ At("streaming") /\ ~aborted /\ Room
    /\ \E ids \in Named(raws) :
          LET calls == [k \in DOMAIN raws |-> [id |-> ids[k], on |-> on[k]]]
          IN  /\ used' = used \cup {ids[k] : k \in DOMAIN raws}
              /\ IF calls = <<>> THEN Finish("done")
                                 ELSE loop' = [loop EXCEPT !.at = "calls", !.todo = calls]
    /\ asked' = asked + Len(raws)
    /\ UNCHANGED <<window, toMain, toWindow, entry, aborted, questions, open, allowed, said>>

(* The model answers: without calls the turn is done, and in the last      *)
(* round they are all refused.                                             *)
ModelAnswers(raws, on) ==
    /\ At("streaming") /\ ~aborted /\ Room
    /\ \E ids \in Named(raws) :
          LET calls == [k \in DOMAIN raws |-> [id |-> ids[k], on |-> on[k]]]
          IN  /\ used' = used \cup {ids[k] : k \in DOMAIN raws}
              /\ CASE calls = <<>> -> Finish("done") /\ Emit(<<>>)
                   [] calls # <<>> /\ loop.round = MaxRounds ->
                          Finish("done") /\ Emit(Refused(calls))
                   [] OTHER ->
                          /\ loop' = [loop EXCEPT !.at = "calls", !.todo = calls]
                          /\ Emit(<<>>)
    /\ asked' = asked + Len(raws)
    /\ UNCHANGED <<window, toMain, entry, aborted, questions, open, allowed, said>>

(* What follows a call: the next one, or the next round.                   *)
NextCall == loop' = [loop EXCEPT !.at = "calls", !.todo = Tail(@)]
(* Mutant: the calls after the cancelled one are left out.                 *)
CancelCalls_OnlyThis == Finish("cancelled") /\ Emit(Refused(<<Head(loop.todo)>>))

CancelCalls == Finish("cancelled") /\ Emit(Refused(loop.todo))
RunTool == GoTo("calling") /\ Emit(<<CallPart(Head(loop.todo), "running")>>)

CallsDone ==
    /\ At("calls") /\ loop.todo = <<>>
    /\ IF aborted THEN Finish("cancelled")
                  ELSE loop' = [loop EXCEPT !.at = "round", !.round = @ + 1]
    /\ UNCHANGED <<window, toMain, toWindow, entry, aborted, questions, open, allowed, used, asked, said>>

(* runOneCall(): a tool that is not there is an error; one that is not     *)
(* allowed yet asks the user.                                              *)
StartCall ==
    LET c == Head(loop.todo)
        free == setup.auto \/ c.on \in allowed
    IN  /\ At("calls") /\ loop.todo # <<>> /\ Room
        /\ CASE aborted -> CancelCalls /\ UNCHANGED questions
             [] ~aborted /\ c.on \notin open ->
                    NextCall /\ Emit(Refused(<<c>>)) /\ UNCHANGED questions
             [] ~aborted /\ c.on \in open /\ free -> RunTool /\ UNCHANGED questions
             [] OTHER ->
                    /\ GoTo("askApproval") /\ Emit(<<CallPart(c, "pending-approval")>>)
                    /\ approvals' = approvals \cup {c.id} /\ answer' = "none"
                    /\ UNCHANGED <<gates, recording, trusted>>
        /\ UNCHANGED <<window, toMain, entry, aborted, open, allowed, used, asked, said>>

CallAnswered ==
    LET c == Head(loop.todo)
    IN  /\ At("askApproval") /\ answer # "none" /\ Room
        /\ CASE answer = "cancelled" \/ aborted -> CancelCalls
             [] answer = "deny" /\ ~aborted ->
                    NextCall /\ Emit(<<CallPart(c, "denied"), ResultPart(c)>>)
             [] OTHER -> RunTool
        /\ allowed' = IF answer = "conversation" /\ ~aborted
                      THEN allowed \cup {c.on} ELSE allowed
        /\ answer' = "none"
        /\ UNCHANGED <<window, toMain, entry, aborted, approvals, gates, recording, trusted,
                       open, used, asked, said>>

(* The tool answers, with a result or an error, or asks for input; the     *)
(* abort ends the call.                                                    *)
ToolAnswers(status) ==
    /\ At("calling") /\ ~aborted /\ Room
    /\ NextCall
    /\ Emit(<<CallPart(Head(loop.todo), status), ResultPart(Head(loop.todo))>>)
    /\ UNCHANGED <<window, toMain, entry, aborted, questions, open, allowed, used, asked, said>>

(* Mutant: the tool call does not listen to the abort.                     *)
ToolAborted_Deaf ==
    /\ At("calling") /\ aborted /\ Room
    /\ UNCHANGED vars

ToolAborted ==
    /\ At("calling") /\ aborted /\ Room
    /\ CancelCalls
    /\ UNCHANGED <<window, toMain, entry, aborted, questions, open, allowed, used, asked, said>>

(* The finally of the loop closes what it opened; then the window is told, *)
(* and the handler's finally leaves nothing behind.                        *)
CloseSession(s) ==
    /\ At("closing") /\ s \in open
    /\ open' = open \ {s}
    /\ UNCHANGED <<window, toMain, toWindow, entry, aborted, questions, loop, allowed, used, asked, said>>

TurnEnds ==
    /\ At("closing") /\ open = {} /\ Room
    /\ loop' = [loop EXCEPT !.at = "off", !.todo = <<>>]
    /\ Emit(<<Ended>>)
    /\ SettleQuestions /\ entry' = 0
    /\ UNCHANGED <<window, toMain, aborted, recording, trusted, open, allowed, used, asked, said>>

-----------------------------------------------------------------------------
WindowNext ==
    \/ SendPrompt \/ Prepared \/ PrepareFails \/ Stop \/ CloseTab \/ ClearConversation
    \/ \E id \in DOMAIN shown, d \in {"once", "conversation", "deny"} : AnswerCall(id, d)
    \/ \E s \in Servers, d \in {"trust", "skip"} : AnswerTrust(s, d)
    \/ ReplyArrives \/ PartArrives \/ EndArrives

MainNext ==
    \/ MainSends \/ MainApproves \/ MainResolvesTrust \/ MainCancels \/ WindowGone
    \/ \E s \in Servers : TrustRecorded(s)

(* What the loop does by itself.                                           *)
LoopGoesOn ==
    \/ DepsLoaded \/ ServersStep \/ TrustChecked \/ TrustAnswered
    \/ OpenSession \/ SessionAborted \/ StartRound \/ StreamAborted
    \/ CallsDone \/ StartCall \/ CallAnswered \/ ToolAborted
    \/ \E s \in Servers : CloseSession(s)
    \/ TurnEnds

Answers == UNION {[1..n -> RawIds \X Targets] : n \in 0..MaxCalls}

(* What servers and the model do.                                          *)
Others ==
    \/ SessionOpens \/ SessionFails
    \/ \E outcome \in {"error", "cancelled"} : StreamFails(outcome)
    \/ \E a \in Answers : ModelAnswers([k \in DOMAIN a |-> a[k][1]], [k \in DOMAIN a |-> a[k][2]])
    \/ \E status \in {"done", "error"} : ToolAnswers(status)

Next == WindowNext \/ MainNext \/ LoopGoesOn \/ Others

(* Messages arrive, awaits on the disk and the settings end, and the loop  *)
(* goes on.  The user, the servers and the model may do nothing for ever.  *)
Fairness ==
    /\ WF_vars(Prepared \/ PrepareFails)
    /\ WF_vars(ReplyArrives \/ PartArrives \/ EndArrives)
    /\ WF_vars(MainSends \/ MainApproves \/ MainResolvesTrust \/ MainCancels)
    /\ WF_vars(\E s \in Servers : TrustRecorded(s))
    /\ WF_vars(LoopGoesOn)

Spec == Init /\ [][Next]_vars /\ Fairness

-----------------------------------------------------------------------------
Decisions == {"once", "conversation", "deny"}
Statuses == {"pending-approval", "running", "denied", "done", "error"}
Call == [id : Ids, on : Targets]
CallMessage ==
    [op : {"send"}, m : Sends, keys : SUBSET Targets] \cup [op : {"cancel"}, m : Sends]
    \cup [op : {"approve"}, m : Sends, id : Ids, decision : Decisions]
    \cup [op : {"trust"}, m : Sends, server : Servers, decision : {"trust", "skip"}]
EventMessage ==
    [type : {"reply"}, m : Sends] \cup [type : {"call"}, call : Call, status : Statuses]
    \cup [type : {"result"}, call : Call] \cup [type : {"end"}]
    \cup [type : {"card"}, server : Servers, status : {"pending", "trusted", "skipped"}]
Steps == {"off", "deps", "servers", "isTrusted", "askTrust", "openSession", "opening",
          "round", "streaming", "calls", "askApproval", "calling", "closing"}

(* The store, the channels, the handlers and the loop keep their types.    *)
TypeOK ==
    /\ tab \in {"idle", "preparing", "asked", "streaming"} /\ alive \in BOOLEAN
    /\ sends \in 0..MaxSends
    /\ DOMAIN shown \subseteq Ids
    /\ \A id \in DOMAIN shown :
          shown[id] \in [on : Targets, status : Statuses, result : BOOLEAN]
    /\ cards \in [Servers -> {"none", "pending", "trusted", "skipped"}]
    /\ granted \subseteq Targets
    /\ setup \in [kind : [Servers -> Kinds], auto : BOOLEAN]
    /\ toMain \in Seq(CallMessage) /\ toWindow \in Seq(EventMessage)
    /\ entry \in 0..MaxSends /\ aborted \in BOOLEAN
    /\ approvals \subseteq Ids
    /\ gates \subseteq Servers /\ recording \subseteq Servers /\ trusted \subseteq Servers
    /\ answer \in Decisions \cup {"none", "trusted", "skip", "cancelled"}
    /\ loop \in [at : Steps, server : 0..(NServers + 1), round : 0..MaxRounds,
                 todo : Seq(Call), outcome : {"none", "done", "error", "cancelled"}]
    /\ open \subseteq Servers /\ allowed \subseteq Targets /\ used \subseteq Ids
    /\ asked \in Nat

(* No tool runs without the user's word: "Run tools without asking", a     *)
(* click on this very call, or a grant of the tool in this conversation.   *)
CallsAreApproved ==
    At("calling") =>
        LET c == Head(loop.todo)
        IN  \/ setup.auto
            \/ [yes |-> "tool", to |-> c.on] \in said
            \/ [yes |-> "call", to |-> <<sends, c.id>>] \in said

(* The command of a stdio server is started only when it was trusted       *)
(* before or the user trusted it on its card.                              *)
CommandsAreTrusted ==
    \A s \in open \cup (IF At("opening") THEN {loop.server} ELSE {}) :
        setup.kind[s] = "stdio" => [yes |-> "server", to |-> s] \in said

(* The loop does nothing to the user's machine without the user's word for *)
(* it: neither a tool nor the command of a server runs before.             *)
ConsentFirst == CallsAreApproved /\ CommandsAreTrusted

(* Once the turn is aborted, no server is started, the model is not asked  *)
(* and no tool is called: every await is followed by its check.            *)
NothingAfterStop ==
    [][aborted /\ loop'.at # loop.at =>
           loop'.at \notin {"opening", "streaming", "calling"}]_vars

(* A question on screen can be answered: when no message is under way, the *)
(* handlers still hold its resolver, or the answer is on its way.          *)
QuestionsCanBeAnswered ==
    tab = "streaming" /\ toMain = <<>> /\ toWindow = <<>> /\ answer = "none" =>
        /\ \A id \in DOMAIN shown : shown[id].status = "pending-approval" => id \in approvals
        /\ \A s \in Servers : cards[s] = "pending" => s \in gates \cup recording

(* When the tab leaves the streaming state the turn is complete: as many   *)
(* calls as the model asked for, each with a final status and its result,  *)
(* no question left, and every session the loop opened is closed.          *)
TurnIsSettled ==
    alive /\ tab = "idle" /\ At("off") /\ DOMAIN shown # {} =>
        /\ Cardinality(DOMAIN shown) = asked
        /\ \A id \in DOMAIN shown :
              shown[id].result /\ shown[id].status \notin {"pending-approval", "running"}
        /\ \A s \in Servers : cards[s] # "pending"
        /\ open = {} /\ entry = 0

(* Stop ends the turn, whatever it is waiting for, and the tab with it.    *)
StopEndsTurn ==
    tab = "streaming" /\ aborted ~> tab # "streaming"

(* A turn does not outlive its tab or its window: its questions, its       *)
(* request, its tool and its sessions end.                                 *)
NothingOutlivesTheTab ==
    ~alive ~> At("off") /\ entry = 0 /\ open = {} /\ recording = {}

=============================================================================
