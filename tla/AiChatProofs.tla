----------------------------- MODULE AiChatProofs -----------------------------
(* What holds of the chat for every set of servers, of ids and of limits:  *)
(* no command and no tool is started without the user's word, nothing is   *)
(* started once the turn is aborted, a question on the screen can be       *)
(* answered, and a turn that is over has settled all it showed.            *)
EXTENDS AiChat, SequenceTheorems, FiniteSetTheorems, TLAPS

(* The user has trusted the server.                                        *)
Yes(s) == [yes |-> "server", to |-> s] \in said

(* A channel in which every "trust" is a click of the user.                *)
Heard(q) ==
    /\ q \in Seq({q[k] : k \in DOMAIN q})
    /\ \A k \in DOMAIN q :
          q[k].op = "trust" /\ q[k].decision = "trust" => Yes(q[k].server)

LoopIsRecord ==
    /\ DOMAIN loop = {"at", "server", "round", "todo", "outcome"}
    /\ loop = [f \in DOMAIN loop |-> loop[f]]

(* The invariant follows the user's word: from the click to the message,   *)
(* to the trust that is recorded, to the step of the loop, to the session. *)
ConsentInv ==
    /\ LoopIsRecord
    /\ Heard(toMain)
    /\ \A s \in trusted \cup recording : Yes(s)
    /\ loop.at \in {"openSession", "opening"} /\ setup.kind[loop.server] = "stdio"
         => Yes(loop.server)
    /\ \A s \in open : setup.kind[s] = "stdio" => Yes(s)

-----------------------------------------------------------------------------
(* Sequences.                                                              *)

(* A sequence is one over its own members.                                 *)
LEMMA OverItsMembers ==
    ASSUME NEW S, NEW q \in Seq(S)
    PROVE  q \in Seq({q[k] : k \in DOMAIN q})
<1>1. q = [k \in 1..Len(q) |-> q[k]] /\ Len(q) \in Nat /\ DOMAIN q = 1..Len(q)
  OBVIOUS
<1>. DEFINE T == {q[k] : k \in DOMAIN q}
<1>2. \A k \in 1..Len(q) : q[k] \in T
  BY <1>1
<1>. HIDE DEF T
<1>3. [k \in 1..Len(q) |-> q[k]] \in Seq(T)
  BY <1>1, <1>2
<1>. QED
  BY <1>1, <1>3 DEF T

(* So is one that has grown by a message.                                  *)
LEMMA AppendedMembers ==
    ASSUME NEW q, q \in Seq({q[k] : k \in DOMAIN q}), NEW m
    PROVE  LET r == Append(q, m)
           IN  /\ r \in Seq({r[k] : k \in DOMAIN r})
               /\ \A k \in DOMAIN r : r[k] = m \/ \E j \in DOMAIN q : r[k] = q[j]
<1>. DEFINE S == {q[k] : k \in DOMAIN q} \cup {m}
            r == Append(q, m)
<1>1. q \in Seq(S) /\ m \in S
  BY \A T, U : T \subseteq U => Seq(T) \subseteq Seq(U)
<1>. HIDE DEF S
<1>2. /\ r \in Seq(S) /\ Len(r) = Len(q) + 1 /\ Len(q) \in Nat
      /\ \A k \in 1..Len(q) : r[k] = q[k]
      /\ r[Len(q) + 1] = m /\ DOMAIN q = 1..Len(q) /\ DOMAIN r = 1..Len(r)
  BY <1>1, AppendProperties
<1>. HIDE DEF r
<1>3. r \in Seq({r[k] : k \in DOMAIN r})
  BY <1>2, OverItsMembers
<1>4. \A k \in DOMAIN r : r[k] = m \/ \E j \in DOMAIN q : r[k] = q[j]
  BY <1>2
<1>. QED
  BY <1>3, <1>4 DEF r

(* So may a message be taken.                                              *)
LEMMA HeardTail ==
    ASSUME NEW q, Heard(q), q # <<>>
    PROVE  /\ Heard(Tail(q))
           /\ Head(q).op = "trust" /\ Head(q).decision = "trust"
                => Yes(Head(q).server)
<1>. DEFINE S == {q[k] : k \in DOMAIN q}
            r == Tail(q)
<1>1. q \in Seq(S)
  BY DEF Heard
<1>. HIDE DEF S
<1>2. /\ r \in Seq(S) /\ Len(r) = Len(q) - 1 /\ Len(q) \in Nat /\ Len(q) > 0
      /\ \A k \in 1..Len(r) : r[k] = q[k + 1]
      /\ Head(q) = q[1] /\ DOMAIN q = 1..Len(q) /\ DOMAIN r = 1..Len(r)
  BY <1>1, HeadTailProperties
<1>. HIDE DEF r
<1>3. r \in Seq({r[k] : k \in DOMAIN r})
  BY <1>2, OverItsMembers
<1>4. \A k \in DOMAIN r : k + 1 \in DOMAIN q /\ r[k] = q[k + 1]
  BY <1>2
<1>5. 1 \in DOMAIN q
  BY <1>2
<1>6. Heard(r)
  BY <1>3, <1>4 DEF Heard
<1>. QED
  BY <1>2, <1>5, <1>6 DEF Heard, r

(* What is said in a step, and what is sent or taken, keeps the channel.   *)
LEMMA ChannelStaysHeard ==
    ASSUME Heard(toMain), \A s : Yes(s) => Yes(s)',
           \/ toMain' = toMain
           \/ toMain' = <<>>
           \/ toMain # <<>> /\ toMain' = Tail(toMain)
           \/ \E m : /\ toMain' = Append(toMain, m)
                     /\ m.op = "trust" /\ m.decision = "trust" => Yes(m.server)'
    PROVE  Heard(toMain)'
<1>1. CASE toMain' = toMain
  BY <1>1 DEF Heard, Yes
<1>2. CASE toMain' = <<>>
  BY <1>2 DEF Heard, Yes
<1>3. CASE toMain # <<>> /\ toMain' = Tail(toMain)
  <2>1. Heard(Tail(toMain))
    BY <1>3, HeardTail
  <2>. QED
    BY <1>3, <2>1 DEF Heard, Yes
<1>4. ASSUME NEW m, toMain' = Append(toMain, m),
             m.op = "trust" /\ m.decision = "trust" => Yes(m.server)'
      PROVE  Heard(toMain)'
  <2>1. /\ toMain' \in Seq({toMain'[k] : k \in DOMAIN toMain'})
        /\ \A k \in DOMAIN toMain' : toMain'[k] = m \/ \E j \in DOMAIN toMain : toMain'[k] = toMain[j]
    BY <1>4, AppendedMembers DEF Heard
  <2>. QED
    BY <1>4, <2>1 DEF Heard, Yes
<1>. QED
  BY <1>1, <1>2, <1>3, <1>4

-----------------------------------------------------------------------------
(* The user's word.                                                        *)

(* The user has given the word for every server that is trusted.           *)
LEMMA InitConsent == Init => ConsentInv
<1>. SUFFICES ASSUME Init PROVE ConsentInv
  OBVIOUS
<1>1. LoopIsRecord /\ loop.at = "off"
  BY DEF Init, Off, LoopIsRecord
<1>2. Heard(toMain)
  BY DEF Init, Heard
<1>3. \A s \in trusted \cup recording : Yes(s)
  BY DEF Init, Yes
<1>. QED
  BY <1>1, <1>2, <1>3 DEF Init, ConsentInv

(* What the window does leaves main alone, takes back no word for a server *)
(* and sends no "trust" but a click.                                       *)
LEMMA WindowKeepsConsent ==
    ASSUME ConsentInv, WindowNext
    PROVE  ConsentInv'
<1>1. UNCHANGED <<main, setup>> /\ \A s : Yes(s) => Yes(s)'
  <2>1. ASSUME SendPrompt \/ Prepared \/ PrepareFails \/ Stop \/ CloseTab
                 \/ ReplyArrives \/ PartArrives \/ EndArrives
        PROVE  UNCHANGED <<main, setup, said>>
    BY <2>1 DEF SendPrompt, Prepared, PrepareFails, Stop, CloseTab, ReplyArrives,
                PartArrives, EndArrives, window
  <2>2. ASSUME ClearConversation
        PROVE  UNCHANGED <<main, setup>> /\ \A s : Yes(s) => Yes(s)'
    BY <2>2 DEF ClearConversation, Yes
  <2>3. ASSUME NEW id, NEW d, AnswerCall(id, d)
        PROVE  UNCHANGED <<main, setup>> /\ \A s : Yes(s) => Yes(s)'
    BY <2>3 DEF AnswerCall, Yes
  <2>4. ASSUME NEW s, NEW d, AnswerTrust(s, d)
        PROVE  UNCHANGED <<main, setup>> /\ \A u : Yes(u) => Yes(u)'
    BY <2>4 DEF AnswerTrust, Yes, window
  <2>. QED
    BY <2>1, <2>2, <2>3, <2>4 DEF WindowNext, Yes
<1>2. \/ toMain' = toMain
      \/ \E m : /\ toMain' = Append(toMain, m)
                /\ m.op = "trust" /\ m.decision = "trust" => Yes(m.server)'
  <2>1. ASSUME SendPrompt \/ PrepareFails \/ ClearConversation \/ PartArrives \/ EndArrives
        PROVE  toMain' = toMain
    BY <2>1 DEF SendPrompt, PrepareFails, ClearConversation, PartArrives, EndArrives
  <2>2. \A m, keys : Send(m, keys).op # "trust"
    BY DEF Send
  <2>3. \A m : Cancel(m).op # "trust"
    BY DEF Cancel
  <2>4. \A m, id, d : ApproveTool(m, id, d).op # "trust"
    BY DEF ApproveTool
  <2>5. ASSUME Prepared \/ Stop \/ CloseTab \/ ReplyArrives
        PROVE  toMain' = toMain \/ \E m : toMain' = Append(toMain, m) /\ m.op # "trust"
    BY <2>2, <2>3, <2>5 DEF Prepared, Stop, CloseTab, ReplyArrives
  <2>6. ASSUME NEW id, NEW d, AnswerCall(id, d)
        PROVE  \E m : toMain' = Append(toMain, m) /\ m.op # "trust"
    BY <2>4, <2>6 DEF AnswerCall
  <2>7. ASSUME NEW s, NEW d, AnswerTrust(s, d)
        PROVE  \E m : /\ toMain' = Append(toMain, m)
                      /\ m.op = "trust" /\ m.decision = "trust" => Yes(m.server)'
    <3>. DEFINE m == ResolveTrust(sends, s, d)
    <3>1. m.decision = d /\ m.server = s /\ toMain' = Append(toMain, m)
      BY <2>7 DEF ResolveTrust, AnswerTrust
    <3>2. d = "trust" => [yes |-> "server", to |-> s] \in said'
      BY <2>7 DEF AnswerTrust
    <3>. QED
      BY <3>1, <3>2 DEF Yes
  <2>. QED
    BY <2>1, <2>5, <2>6, <2>7 DEF WindowNext
<1>3. Heard(toMain)'
  BY <1>1, <1>2, ChannelStaysHeard DEF ConsentInv
<1>. QED
  BY <1>1, <1>3 DEF ConsentInv, main, questions, turn, LoopIsRecord, Yes

(* The handlers record as trusted what they were told to, and begin turns  *)
(* that have no session yet.                                               *)
LEMMA MainKeepsConsent ==
    ASSUME ConsentInv, MainNext
    PROVE  ConsentInv'
<1>0. UNCHANGED <<said, setup>>
  BY DEF MainNext, MainSends, MainApproves, MainResolvesTrust, MainCancels, WindowGone,
         TrustRecorded, window
<1>1. Heard(toMain)'
  <2>1. \/ toMain' = toMain \/ toMain' = <<>>
        \/ toMain # <<>> /\ toMain' = Tail(toMain)
    BY DEF MainNext, MainSends, MainApproves, MainResolvesTrust, MainCancels, WindowGone,
           TrustRecorded, Received
  <2>. QED
    BY <1>0, <2>1, ChannelStaysHeard DEF ConsentInv, Yes
<1>2. \A s \in trusted' \cup recording' : Yes(s)
  <2>1. CASE MainSends \/ MainApproves \/ MainCancels \/ WindowGone
    BY <2>1 DEF MainSends, MainApproves, MainCancels, WindowGone, ConsentInv
  <2>2. CASE MainResolvesTrust
    <3>1. Head(toMain).decision = "trust" => Yes(Head(toMain).server)
      BY <2>2, HeardTail DEF MainResolvesTrust, Received, ConsentInv
    <3>. QED
      BY <2>2, <3>1 DEF MainResolvesTrust, ConsentInv
  <2>3. ASSUME NEW u \in Servers, TrustRecorded(u) PROVE \A s \in trusted' \cup recording' : Yes(s)
    BY <2>3 DEF TrustRecorded, ConsentInv
  <2>. QED
    BY <2>1, <2>2, <2>3 DEF MainNext
<1>3. \/ UNCHANGED <<loop, open>>
      \/ loop' = [Off EXCEPT !.at = "deps", !.server = 1] /\ open' = {}
  BY DEF MainNext, MainSends, MainApproves, MainResolvesTrust, MainCancels, WindowGone,
         TrustRecorded, turn
<1>4. CASE UNCHANGED <<loop, open>>
  BY <1>0, <1>1, <1>2, <1>4 DEF ConsentInv, LoopIsRecord, Yes
<1>5. CASE loop' = [Off EXCEPT !.at = "deps", !.server = 1] /\ open' = {}
  <2>1. LoopIsRecord' /\ loop'.at = "deps"
    BY <1>5 DEF Off, LoopIsRecord
  <2>. QED
    BY <1>0, <1>1, <1>2, <1>5, <2>1 DEF ConsentInv, Yes
<1>. QED
  BY <1>3, <1>4, <1>5

(* What the loop does by itself, and what servers and the model do to it:  *)
(* a session is only opened for a server the loop has checked.             *)
LEMMA LoopKeepsConsent ==
    ASSUME ConsentInv, LoopGoesOn \/ Others
    PROVE  ConsentInv'
<1>. DEFINE Trusty == loop.at \in {"openSession", "opening"}
                        /\ setup.kind[loop.server] = "stdio" => Yes(loop.server)
            Moves == /\ LoopIsRecord' /\ UNCHANGED <<said, setup, toMain, trusted, recording>>
                     /\ open' \subseteq open
                          \cup (IF loop.at = "opening" THEN {loop.server} ELSE {})
                     /\ loop'.at \in {"openSession", "opening"} =>
                          /\ loop'.server = loop.server
                          /\ \/ loop.at \in {"openSession", "opening"}
                             \/ loop.server \in trusted
                             \/ setup.kind[loop.server] # "stdio"
<1>0. LoopIsRecord
  BY DEF ConsentInv
<1>1. LoopIsRecord' /\ loop'.at \notin {"openSession", "opening"} /\ open' \subseteq open
        /\ UNCHANGED <<said, setup, toMain, trusted, recording>> => Moves
  OBVIOUS
<1>. USE <1>0 DEF LoopIsRecord, GoTo, Finish, NextServer, window, questions
<1>2. ASSUME DepsLoaded PROVE Moves
  BY <1>2 DEF DepsLoaded
<1>3. ASSUME ServersStep PROVE Moves
  BY <1>3 DEF ServersStep
<1>4. ASSUME TrustChecked PROVE Moves
  BY <1>4 DEF TrustChecked
<1>5. ASSUME TrustAnswered PROVE Moves
  BY <1>5 DEF TrustAnswered
<1>6. ASSUME OpenSession PROVE Moves
  BY <1>6 DEF OpenSession, At
<1>7. ASSUME SessionAborted \/ StartRound \/ StreamAborted \/ CallsDone PROVE Moves
  BY <1>7 DEF SessionAborted, StartRound, StreamAborted, CallsDone
<1>8. ASSUME StartCall PROVE Moves
  BY <1>8 DEF StartCall, CancelCalls, NextCall, RunTool
<1>9. ASSUME CallAnswered PROVE Moves
  BY <1>9 DEF CallAnswered, CancelCalls, NextCall, RunTool
<1>10. ASSUME ToolAborted PROVE Moves
  BY <1>10 DEF ToolAborted, CancelCalls
<1>11. ASSUME NEW s \in Servers, CloseSession(s) PROVE Moves
  BY <1>11 DEF CloseSession, At
<1>12. ASSUME TurnEnds PROVE Moves
  BY <1>12 DEF TurnEnds
<1>13. ASSUME SessionOpens PROVE Moves
  BY <1>13 DEF SessionOpens, At
<1>14. ASSUME SessionFails PROVE Moves
  BY <1>14 DEF SessionFails
<1>15. ASSUME NEW outcome, StreamFails(outcome) PROVE Moves
  BY <1>15 DEF StreamFails
<1>16. ASSUME NEW raws, NEW on, ModelAnswers(raws, on) PROVE Moves
  BY <1>16 DEF ModelAnswers
<1>17. ASSUME NEW status, ToolAnswers(status) PROVE Moves
  BY <1>17 DEF ToolAnswers, NextCall
<1>18. Moves
  BY <1>2, <1>3, <1>4, <1>5, <1>6, <1>7, <1>8, <1>9, <1>10, <1>11, <1>12, <1>13, <1>14,
     <1>15, <1>16, <1>17 DEF LoopGoesOn, Others
<1>19. Heard(toMain)'
  BY <1>18, ChannelStaysHeard DEF ConsentInv, Yes
<1>. QED
  BY <1>18, <1>19 DEF ConsentInv, Yes

(* The invariant holds in every state.                                     *)
LEMMA ConsentInvariant == Spec => []ConsentInv
<1>1. ConsentInv /\ UNCHANGED vars => ConsentInv'
  BY DEF ConsentInv, vars, window, main, questions, turn, LoopIsRecord, Heard, Yes
<1>2. ConsentInv /\ [Next]_vars => ConsentInv'
  BY <1>1, WindowKeepsConsent, MainKeepsConsent, LoopKeepsConsent DEF Next
<1>. QED
  BY <1>2, InitConsent, PTL DEF Spec

(* No command of a server is started before the user has trusted it: in an *)
(* earlier turn or session, or by a click on its card in this one.         *)
THEOREM CommandsNeedTrust == Spec => []CommandsAreTrusted
<1>1. ConsentInv => CommandsAreTrusted
  BY DEF ConsentInv, CommandsAreTrusted, Yes, At
<1>. QED
  BY <1>1, ConsentInvariant, PTL

-----------------------------------------------------------------------------
(* The user's Stop.                                                        *)

(* A step of an aborted turn leads to nothing that reaches outside.        *)
LEMMA AbortIsHeeded ==
    ASSUME LoopIsRecord, [Next]_vars, aborted, loop'.at # loop.at
    PROVE  loop'.at \notin {"opening", "streaming", "calling"}
<1>. DEFINE Harmless == loop'.at \in {loop.at, "off", "deps", "servers", "isTrusted", "askTrust",
                                     "openSession", "round", "calls", "askApproval", "closing"}
<1>1. ASSUME WindowNext PROVE Harmless
  BY <1>1 DEF WindowNext, SendPrompt, Prepared, PrepareFails, Stop, CloseTab, ReplyArrives,
     PartArrives, EndArrives, ClearConversation, AnswerCall, AnswerTrust, main, turn
<1>2. ASSUME MainNext PROVE Harmless
  BY <1>2 DEF MainNext, MainSends, MainApproves, MainResolvesTrust, MainCancels, WindowGone,
     TrustRecorded, turn, Off
<1>. USE DEF LoopIsRecord, GoTo, Finish, NextServer
<1>3. ASSUME DepsLoaded \/ ServersStep \/ TrustChecked \/ TrustAnswered PROVE Harmless
  BY <1>3 DEF DepsLoaded, ServersStep, TrustChecked, TrustAnswered
<1>4. ASSUME OpenSession \/ SessionAborted \/ StartRound \/ StreamAborted \/ CallsDone
      PROVE  Harmless
  BY <1>4 DEF OpenSession, SessionAborted, StartRound, StreamAborted, CallsDone
<1>5. ASSUME StartCall \/ CallAnswered \/ ToolAborted PROVE Harmless
  BY <1>5 DEF StartCall, CallAnswered, ToolAborted, CancelCalls
<1>6. ASSUME TurnEnds \/ \E s \in Servers : CloseSession(s) PROVE Harmless
  BY <1>6 DEF TurnEnds, CloseSession
<1>7. ~Others
  BY DEF Others, SessionOpens, SessionFails, StreamFails, ModelAnswers, ToolAnswers
<1>8. ASSUME UNCHANGED vars PROVE Harmless
  BY <1>8 DEF vars, main, turn
<1>9. Harmless
  BY <1>1, <1>2, <1>3, <1>4, <1>5, <1>6, <1>7, <1>8 DEF Next, LoopGoesOn
<1>. QED
  BY <1>9

(* Once the turn is aborted, nothing reaches outside any more: every await *)
(* of the loop is followed by its check.                                   *)
THEOREM StopIsHeeded == Spec => NothingAfterStop
<1>1. ConsentInv /\ [Next]_vars
        => [aborted /\ loop'.at # loop.at =>
              loop'.at \notin {"opening", "streaming", "calling"}]_vars
  BY AbortIsHeeded DEF ConsentInv
<1>. QED
  BY <1>1, ConsentInvariant, PTL DEF Spec, NothingAfterStop

-----------------------------------------------------------------------------
(* The turn, from the click to the end: what is true of all its parts.     *)

(* Where the loop is fits what it holds.                                   *)
InRound == {"calls", "askApproval", "calling"}
StepInv ==
    /\ tab # "idle" \/ toMain # <<>> \/ toWindow # <<>> \/ loop.at # "off" => sends \in Sends
    /\ loop.at \in {"deps", "servers"} => loop.server \in 1..(NServers + 1)
    /\ loop.at \in {"isTrusted", "askTrust", "openSession", "opening"} => loop.server \in Servers
    /\ loop.at \in {"round", "streaming"} => loop.round \in 1..MaxRounds
    /\ loop.at \in InRound => loop.round \in 1..(MaxRounds - 1)
    /\ loop.at \in {"askApproval", "calling"} => loop.todo # <<>>
    /\ loop.at \notin InRound \cup {"closing"} => loop.todo = <<>>

(* The window and main are in the same turn: the tab is ready for the next *)
(* one only when main is done with the last, one aichat:send is under way  *)
(* at most, its reply is the first event of the turn and the end the last. *)
Sending == \E k \in DOMAIN toMain : toMain[k].op = "send"
OneSend ==
    \A k \in DOMAIN toMain : toMain[k].op = "send" =>
        toMain[k].m = sends /\ \A j \in DOMAIN toMain : toMain[j].op = "send" => j = k
Settled == loop.at = "off" /\ entry = 0 /\ toWindow = <<>> /\ ~Sending
TabInv ==
    /\ tab = "preparing" \/ (alive /\ tab = "idle") => Settled
    /\ tab \in {"preparing", "asked"} => DOMAIN shown = {} /\ cards = NoCards
    /\ tab = "streaming" => alive
SendInv ==
    /\ tab = "asked" => Sending \/ (toWindow # <<>> /\ toWindow[1].type = "reply")
    /\ Sending => tab = "asked" /\ loop.at = "off" /\ entry = 0 /\ toWindow = <<>>
    /\ OneSend
EventInv ==
    /\ \A k \in DOMAIN toWindow : toWindow[k].type = "reply" => k = 1 /\ tab = "asked"
    /\ \A k \in DOMAIN toWindow : toWindow[k].type = "end" => k = Len(toWindow) /\ loop.at = "off"
EntryInv ==
    /\ loop.at = "off" => entry = 0 /\ open = {}
    /\ loop.at # "off" => entry = (IF aborted THEN 0 ELSE sends)
TurnInv == TabInv /\ SendInv /\ EventInv /\ EntryInv

(* One question at a time, the loop's, and one answer to it.               *)
AskInv ==
    /\ loop.at \notin {"askTrust", "askApproval"} =>
          approvals = {} /\ gates = {} /\ recording = {} /\ answer = "none"
    /\ loop.at = "askTrust" =>
          /\ approvals = {}
          /\ \/ gates = {loop.server} /\ recording = {} /\ answer = "none"
             \/ gates = {} /\ recording = {loop.server} /\ answer = "none"
             \/ gates = {} /\ recording = {} /\ answer \in {"trusted", "skip", "cancelled"}
    /\ loop.at = "askApproval" =>
          /\ gates = {} /\ recording = {}
          /\ \/ approvals = {Head(loop.todo).id} /\ answer = "none"
             \/ approvals = {} /\ answer \in Decisions \cup {"cancelled"}

(* An id stands for one call of the turn, wherever it turns up.            *)
CallsKnown ==
    \A j \in DOMAIN loop.todo :
        /\ loop.todo[j].id \in used
        /\ \A i \in DOMAIN loop.todo : loop.todo[i].id = loop.todo[j].id => i = j
PartsKnown ==
    \A k \in DOMAIN toWindow : toWindow[k].type \in {"call", "result"} =>
        /\ toWindow[k].call.id \in used
        /\ \A j \in DOMAIN loop.todo :
              loop.todo[j].id = toWindow[k].call.id => loop.todo[j] = toWindow[k].call
ShownKnown ==
    \A id \in DOMAIN shown :
        /\ id \in used
        /\ \A j \in DOMAIN loop.todo : loop.todo[j].id = id => loop.todo[j].on = shown[id].on
IdInv ==
    /\ IsFiniteSet(used) /\ Cardinality(used) = asked
    /\ CallsKnown /\ PartsKnown /\ ShownKnown

(* The user's word for a call, or for its tool, on its way to the loop.    *)
YesTool(t) == [yes |-> "tool", to |-> t] \in said
YesCall(id) == [yes |-> "call", to |-> <<sends, id>>] \in said
Mail == {toMain[k] : k \in DOMAIN toMain}
WordOf(c) ==
    /\ c.op = "send" => \A t \in c.keys : YesTool(t)
    /\ c.op = "approve" =>
          /\ c.m <= sends
          /\ c.m = sends =>
                /\ tab \in {"streaming", "idle"} /\ c.id \in used
                /\ c.decision = "once" => YesCall(c.id)
                /\ c.decision = "conversation" =>
                      \A j \in DOMAIN loop.todo : loop.todo[j].id = c.id => YesTool(loop.todo[j].on)
GrantInv ==
    /\ \A t \in granted : YesTool(t)
    /\ loop.at # "off" => \A t \in allowed : YesTool(t)
AnswerInv ==
    /\ loop.at = "askApproval" /\ answer = "once" => YesCall(Head(loop.todo).id)
    /\ loop.at = "askApproval" /\ answer = "conversation" => YesTool(Head(loop.todo).on)
    /\ CallsAreApproved
WordInv == GrantInv /\ AnswerInv /\ \A c \in Mail : WordOf(c)

(* What the screen will show once the events under way have arrived: no    *)
(* question but the loop's, no call at work but the loop's, every call     *)
(* with its result.                                                        *)
Parts(id, S) == {p \in EventMessage : p.type = "call" /\ p.call.id = id /\ p.status \in S}
Results(id) == {p \in EventMessage : p.type = "result" /\ p.call.id = id}
CardsOf(s, S) == {p \in EventMessage : p.type = "card" /\ p.server = s /\ p.status \in S}
Waiting == {"pending-approval"}
AtWork == {"pending-approval", "running"}
Answering == {"trusted", "skipped"}

Carries(q, A) == \E k \in DOMAIN q : q[k] \in A
Followed(q, A, B) ==
    \A k \in DOMAIN q : q[k] \in A => \E j \in DOMAIN q : j > k /\ q[j] \in B

ShownAs(id, S) == id \in DOMAIN shown /\ shown[id].status \in S
CallSettles(id, S) ==
    /\ Followed(toWindow, Parts(id, S), Parts(id, Statuses \ S))
    /\ ShownAs(id, S) => Carries(toWindow, Parts(id, Statuses \ S))
CardSettles(s) ==
    /\ Followed(toWindow, CardsOf(s, {"pending"}), CardsOf(s, Answering))
    /\ cards[s] = "pending" => Carries(toWindow, CardsOf(s, Answering))

Asking(id) == loop.at = "askApproval" /\ Head(loop.todo).id = id
Busy(id) == loop.at \in {"askApproval", "calling"} /\ Head(loop.todo).id = id
AsksFor(s) == loop.at = "askTrust" /\ loop.server = s
Due(id) == loop.at \in InRound /\ \E j \in DOMAIN loop.todo : loop.todo[j].id = id
OnScreen == loop.at # "off" \/ DOMAIN shown # {} \/ toWindow # <<>>

Introduced(id) ==
    \A k \in DOMAIN toWindow : toWindow[k] \in Results(id) =>
        id \in DOMAIN shown \/ \E j \in DOMAIN toWindow : j < k /\ toWindow[j] \in Parts(id, Statuses)
Answered(id) ==
    Due(id) \/ Carries(toWindow, Results(id)) \/ (id \in DOMAIN shown /\ shown[id].result)

CallsOnScreen ==
    \A id \in Ids :
        /\ Asking(id) \/ CallSettles(id, Waiting)
        /\ Busy(id) \/ CallSettles(id, AtWork)
        /\ Introduced(id)
CardsOnScreen == \A s \in Servers : AsksFor(s) \/ CardSettles(s)
ResultsOnScreen == OnScreen => \A id \in used : Answered(id)
ScreenInv == alive => CallsOnScreen /\ CardsOnScreen /\ ResultsOnScreen

-----------------------------------------------------------------------------
(* Channels and messages.                                                  *)

-----------------------------------------------------------------------------
(* Channels.                                                               *)

(* A channel that grows by a message.                                      *)
LEMMA Appended ==
    ASSUME NEW S, NEW q \in Seq(S), NEW m \in S, NEW r, r = Append(q, m)
    PROVE  /\ r \in Seq(S) /\ r # <<>> /\ Len(q) \in Nat /\ Len(r) = Len(q) + 1
           /\ DOMAIN q = 1..Len(q) /\ DOMAIN r = 1..(Len(q) + 1)
           /\ \A k \in DOMAIN q : k \in DOMAIN r /\ r[k] = q[k]
           /\ r[Len(q) + 1] = m
           /\ \A k \in DOMAIN r : k \in DOMAIN q \/ k = Len(q) + 1
<1>1. /\ r \in Seq(S) /\ Len(q) \in Nat /\ Len(r) = Len(q) + 1
      /\ \A k \in 1..Len(q) : r[k] = q[k]
      /\ r[Len(q) + 1] = m /\ DOMAIN q = 1..Len(q) /\ DOMAIN r = 1..Len(r)
  BY AppendProperties
<1>2. r # <<>>
  BY <1>1
<1>. QED
  BY <1>1, <1>2

(* A channel whose first message is taken.                                 *)
LEMMA Rest ==
    ASSUME NEW S, NEW q \in Seq(S), q # <<>>, NEW r, r = Tail(q)
    PROVE  /\ r \in Seq(S) /\ Len(q) \in Nat /\ Len(q) > 0 /\ Len(r) = Len(q) - 1
           /\ DOMAIN q = 1..Len(q) /\ DOMAIN r = 1..(Len(q) - 1)
           /\ Head(q) = q[1] /\ q[1] \in S /\ 1 \in DOMAIN q
           /\ \A k \in DOMAIN r : k + 1 \in DOMAIN q /\ r[k] = q[k + 1]
           /\ \A k \in DOMAIN q : k # 1 => k - 1 \in DOMAIN r /\ r[k - 1] = q[k]
           /\ Len(q) = 1 => r = <<>>
<1>1. /\ r \in Seq(S) /\ Len(r) = Len(q) - 1 /\ Len(q) \in Nat /\ Len(q) > 0
      /\ \A k \in 1..Len(r) : r[k] = q[k + 1]
      /\ Head(q) = q[1] /\ DOMAIN q = 1..Len(q) /\ DOMAIN r = 1..Len(r)
  BY HeadTailProperties
<1>2. q[1] \in S /\ 1 \in DOMAIN q
  BY <1>1
<1>3. \A k \in DOMAIN r : k + 1 \in DOMAIN q /\ r[k] = q[k + 1]
  BY <1>1
<1>4. \A k \in DOMAIN q : k # 1 => k - 1 \in DOMAIN r /\ r[k - 1] = q[k]
  BY <1>1
<1>5. Len(q) = 1 => r = <<>>
  BY <1>1, EmptySeq
<1>. QED
  BY <1>1, <1>2, <1>3, <1>4, <1>5

(* A channel that grows by a list.                                         *)
LEMMA Joined ==
    ASSUME NEW S, NEW q \in Seq(S), NEW s \in Seq(S)
    PROVE  LET r == q \o s
           IN
           /\ r \in Seq(S) /\ Len(q) \in Nat /\ Len(s) \in Nat /\ Len(r) = Len(q) + Len(s)
           /\ DOMAIN q = 1..Len(q) /\ DOMAIN s = 1..Len(s) /\ DOMAIN r = 1..(Len(q) + Len(s))
           /\ \A k \in DOMAIN q : k \in DOMAIN r /\ r[k] = q[k]
           /\ \A k \in DOMAIN s : Len(q) + k \in DOMAIN r /\ r[Len(q) + k] = s[k]
           /\ \A k \in DOMAIN r : k \in DOMAIN q \/ \E j \in DOMAIN s : k = Len(q) + j
<1>. DEFINE r == q \o s
<1>1. /\ r \in Seq(S) /\ Len(r) = Len(q) + Len(s) /\ Len(q) \in Nat /\ Len(s) \in Nat
      /\ \A k \in 1..(Len(q) + Len(s)) : r[k] = IF k <= Len(q) THEN q[k] ELSE s[k - Len(q)]
  BY ConcatProperties, LenProperties
<1>. HIDE DEF r
<1>2. DOMAIN r = 1..Len(r) /\ DOMAIN q = 1..Len(q) /\ DOMAIN s = 1..Len(s)
  BY <1>1, LenProperties
<1>3. \A k \in DOMAIN q : k \in DOMAIN r /\ r[k] = q[k]
  BY <1>1, <1>2
<1>4. ASSUME NEW k \in DOMAIN s PROVE Len(q) + k \in DOMAIN r /\ r[Len(q) + k] = s[k]
  <2>1. Len(q) + k \in 1..(Len(q) + Len(s)) /\ ~(Len(q) + k <= Len(q)) /\ (Len(q) + k) - Len(q) = k
    BY <1>1, <1>2
  <2>. QED
    BY <1>1, <1>2, <2>1
<1>5. ASSUME NEW k \in DOMAIN r, k \notin DOMAIN q PROVE \E j \in DOMAIN s : k = Len(q) + j
  <2>1. k - Len(q) \in DOMAIN s /\ k = Len(q) + (k - Len(q))
    BY <1>1, <1>2, <1>5
  <2>. QED
    BY <2>1
<1>. QED
  BY <1>1, <1>2, <1>3, <1>4, <1>5 DEF r

(* The calls of the window.                                                *)
LEMMA CallMessages ==
    /\ \A m \in Sends : Cancel(m) \in CallMessage
    /\ \A m \in Sends, keys \in SUBSET Targets : Send(m, keys) \in CallMessage
    /\ \A m \in Sends, id \in Ids, d \in Decisions : ApproveTool(m, id, d) \in CallMessage
    /\ \A m \in Sends, s \in Servers, d \in {"trust", "skip"} : ResolveTrust(m, s, d) \in CallMessage
BY DEF CallMessage, Cancel, Send, ApproveTool, ResolveTrust

(* What the fields of a call hold.                                         *)
LEMMA CallMessageIs ==
    ASSUME NEW c \in CallMessage
    PROVE  /\ c.m \in Sends
           /\ c.op = "send" => c.keys \subseteq Targets
           /\ c.op = "approve" => c.id \in Ids /\ c.decision \in Decisions
           /\ c.op = "trust" => c.server \in Servers /\ c.decision \in {"trust", "skip"}
BY DEF CallMessage

(* The events of main.                                                     *)
LEMMA EventMessages ==
    /\ \A m \in Sends : Reply(m) \in EventMessage
    /\ \A c \in Call, st \in Statuses : CallPart(c, st) \in EventMessage
    /\ \A c \in Call : ResultPart(c) \in EventMessage
    /\ \A s \in Servers, st \in {"pending", "trusted", "skipped"} : Card(s, st) \in EventMessage
    /\ Ended \in EventMessage
BY DEF EventMessage, Reply, CallPart, ResultPart, Card, Ended

(* What the fields of an event hold.                                       *)
LEMMA EventMessageIs ==
    ASSUME NEW p \in EventMessage
    PROVE  /\ p.type = "reply" => p.m \in Sends
           /\ p.type = "call" => p.call \in Call /\ p.status \in Statuses
           /\ p.type = "result" => p.call \in Call
           /\ p.type = "card" => p.server \in Servers /\ p.status \in {"pending", "trusted", "skipped"}
BY DEF EventMessage

(* The fields of the events main makes.                                    *)
LEMMA EventFields ==
    /\ \A m : Reply(m).type = "reply" /\ Reply(m).m = m
    /\ \A c, st : CallPart(c, st).type = "call" /\ CallPart(c, st).call = c /\ CallPart(c, st).status = st
    /\ \A c : ResultPart(c).type = "result" /\ ResultPart(c).call = c
    /\ \A s, st : Card(s, st).type = "card" /\ Card(s, st).server = s /\ Card(s, st).status = st
    /\ Ended.type = "end"
BY DEF Reply, CallPart, ResultPart, Card, Ended

(* The fields of the calls the window makes.                               *)
LEMMA CallFields ==
    /\ \A m : Cancel(m).op = "cancel" /\ Cancel(m).m = m
    /\ \A m, keys : Send(m, keys).op = "send" /\ Send(m, keys).m = m /\ Send(m, keys).keys = keys
    /\ \A m, id, d : /\ ApproveTool(m, id, d).op = "approve" /\ ApproveTool(m, id, d).m = m
                     /\ ApproveTool(m, id, d).id = id /\ ApproveTool(m, id, d).decision = d
    /\ \A m, s, d : /\ ResolveTrust(m, s, d).op = "trust" /\ ResolveTrust(m, s, d).m = m
                    /\ ResolveTrust(m, s, d).server = s /\ ResolveTrust(m, s, d).decision = d
BY DEF Cancel, Send, ApproveTool, ResolveTrust

(* The parts of calls that are refused: an error and a result for each.    *)
LEMMA RefusedParts ==
    ASSUME NEW calls \in Seq(Call)
    PROVE  LET parts == Refused(calls)
           IN  /\ parts \in Seq(EventMessage)
               /\ \A k \in DOMAIN parts : \E j \in DOMAIN calls :
                     parts[k] = CallPart(calls[j], "error") \/ parts[k] = ResultPart(calls[j])
               /\ \A j \in DOMAIN calls : \E k \in DOMAIN parts :
                     /\ parts[k] = CallPart(calls[j], "error")
                     /\ k + 1 \in DOMAIN parts /\ parts[k + 1] = ResultPart(calls[j])
               /\ \A k \in DOMAIN parts, j \in DOMAIN calls : parts[k] = ResultPart(calls[j]) =>
                     k > 1 /\ parts[k - 1] = CallPart(calls[j], "error")
<1>. DEFINE n == Len(calls)
            parts == Refused(calls)
<1>1. n \in Nat /\ DOMAIN calls = 1..n /\ \A j \in 1..n : calls[j] \in Call
  OBVIOUS
<1>2. \A k \in 1..(2 * n) : (k % 2 = 1 => (k + 1) \div 2 \in 1..n) /\ (k % 2 # 1 => k \div 2 \in 1..n)
  BY <1>1
<1>3. /\ DOMAIN parts = 1..(2 * n)
      /\ \A k \in 1..(2 * n) : parts[k] = IF k % 2 = 1 THEN CallPart(calls[(k + 1) \div 2], "error")
                                                       ELSE ResultPart(calls[k \div 2])
  BY DEF Refused
<1>4. "error" \in Statuses
  BY DEF Statuses
<1>5. \A k \in 1..(2 * n) : parts[k] \in EventMessage
  BY <1>1, <1>2, <1>3, <1>4, EventMessages
<1>6. parts \in Seq(EventMessage)
  <2>1. 2 * n \in Nat /\ parts = [k \in 1..(2 * n) |-> parts[k]]
    BY <1>1 DEF Refused
  <2>. QED
    BY <1>5, <2>1
<1>7. ASSUME NEW k \in DOMAIN parts
      PROVE  \E j \in DOMAIN calls : parts[k] = CallPart(calls[j], "error") \/ parts[k] = ResultPart(calls[j])
  BY <1>1, <1>2, <1>3
<1>8. ASSUME NEW j \in DOMAIN calls
      PROVE  \E k \in DOMAIN parts :
                /\ parts[k] = CallPart(calls[j], "error")
                /\ k + 1 \in DOMAIN parts /\ parts[k + 1] = ResultPart(calls[j])
  <2>. DEFINE a == 2 * j - 1
  <2>1. a \in 1..(2 * n) /\ a + 1 \in 1..(2 * n) /\ a % 2 = 1 /\ (a + 1) \div 2 = j
    BY <1>1
  <2>2. (a + 1) % 2 # 1
    BY <1>1
  <2>. HIDE DEF parts, a, n
  <2>3. parts[a] = CallPart(calls[j], "error") /\ parts[a + 1] = ResultPart(calls[j])
    BY <1>3, <2>1, <2>2
  <2>. QED
    BY <1>3, <2>1, <2>3
<1>9. ASSUME NEW k \in DOMAIN parts, NEW j \in DOMAIN calls, parts[k] = ResultPart(calls[j])
      PROVE  k > 1 /\ parts[k - 1] = CallPart(calls[j], "error")
  <2>1. k \in 1..(2 * n) /\ k % 2 # 1
    BY <1>3, <1>9, EventFields
  <2>2. k - 1 \in 1..(2 * n) /\ (k - 1) % 2 = 1 /\ ((k - 1) + 1) \div 2 = k \div 2 /\ k > 1
    BY <1>1, <2>1
  <2>. HIDE DEF parts, n
  <2>3. parts[k] = ResultPart(calls[k \div 2]) /\ parts[k - 1] = CallPart(calls[k \div 2], "error")
    BY <1>3, <2>1, <2>2
  <2>4. ResultPart(calls[k \div 2]) = ResultPart(calls[j])
    BY <1>9, <2>3
  <2>5. calls[k \div 2] = calls[j]
    BY <2>4, EventFields
  <2>. QED
    BY <2>2, <2>3, <2>5
<1>. QED
  BY <1>6, <1>7, <1>8, <1>9

-----------------------------------------------------------------------------
(* Types.                                                                  *)

(* What the model's answer says: calls whose ids are new, each another.    *)
RawsOf(a) == [k \in DOMAIN a |-> a[k][1]]
OnsOf(a) == [k \in DOMAIN a |-> a[k][2]]
CallsOf(a, ids) == [k \in DOMAIN RawsOf(a) |-> [id |-> ids[k], on |-> OnsOf(a)[k]]]

(* The calls of an answer are as many as it asks for, with ids of their    *)
(* own.                                                                    *)
LEMMA AnswerIs ==
    ASSUME NEW a \in Answers, NEW raws, raws = RawsOf(a), NEW ids \in Named(raws),
           NEW calls, calls = CallsOf(a, ids)
    PROVE  /\ Len(raws) \in Nat /\ DOMAIN raws = 1..Len(raws)
           /\ calls \in Seq(Call) /\ Len(calls) = Len(raws) /\ DOMAIN calls = DOMAIN raws
           /\ calls = <<>> <=> Len(raws) = 0
           /\ \A k \in DOMAIN raws : calls[k].id = ids[k] /\ ids[k] \in Ids /\ ids[k] \notin used
           /\ \A j, k \in DOMAIN raws : ids[j] = ids[k] => j = k
<1>1. PICK n \in 0..MaxCalls : a \in [1..n -> RawIds \X Targets]
  BY DEF Answers
<1>. DEFINE on == OnsOf(a)
<1>2. n \in Nat /\ DOMAIN a = 1..n /\ DOMAIN raws = 1..n /\ DOMAIN calls = 1..n /\ DOMAIN on = 1..n
  BY <1>1, AiChatConstants DEF RawsOf, OnsOf, CallsOf
<1>3. \A k \in 1..n : raws[k] \in RawIds /\ on[k] \in Targets
  BY <1>1, <1>2 DEF RawsOf, OnsOf
<1>4. raws \in Seq(RawIds) /\ Len(raws) = n
  <2>1. raws = [k \in 1..n |-> raws[k]]
    BY <1>2 DEF RawsOf
  <2>. QED
    BY <1>2, <1>3, <2>1
<1>5. /\ ids \in [1..n -> Ids]
      /\ \A k \in 1..n : UniqueId(raws[k], used \cup {ids[j] : j \in 1..(k - 1)}, ids[k])
  BY <1>2 DEF Named
<1>6. calls = [k \in 1..n |-> [id |-> ids[k], on |-> on[k]]]
  BY <1>2 DEF CallsOf
<1>7. ASSUME NEW k \in 1..n
      PROVE  [id |-> ids[k], on |-> on[k]] \in Call /\ calls[k].id = ids[k] /\ ids[k] \in Ids
  BY <1>3, <1>5, <1>6 DEF Call
<1>8. calls \in Seq(Call) /\ Len(calls) = n
  BY <1>2, <1>6, <1>7
<1>9. calls = <<>> <=> n = 0
  BY <1>8, EmptySeq
<1>10. ASSUME NEW k \in 1..n PROVE ids[k] \notin used \cup {ids[j] : j \in 1..(k - 1)}
  BY <1>5 DEF UniqueId
<1>11. ASSUME NEW j \in 1..n, NEW k \in 1..n, ids[j] = ids[k] PROVE j = k
  <2>1. CASE j < k
    <3>1. j \in 1..(k - 1)
      BY <1>2, <2>1
    <3>. QED
      BY <1>10, <1>11, <3>1
  <2>2. CASE k < j
    <3>1. k \in 1..(j - 1)
      BY <1>2, <2>2
    <3>. QED
      BY <1>10, <1>11, <3>1
  <2>. QED
    BY <1>2, <2>1, <2>2
<1>. QED
  BY <1>2, <1>4, <1>7, <1>8, <1>9, <1>10, <1>11

TypeInv == TypeOK /\ StepInv

(* The first state has its types.                                          *)
LEMMA TypesBegin == ASSUME Init PROVE TypeInv
<1>. USE DEF Init
<1>1. setup \in [kind : [Servers -> Kinds], auto : BOOLEAN] /\ trusted \subseteq Servers
  OBVIOUS
<1>2. loop \in [at : Steps, server : 0..(NServers + 1), round : 0..MaxRounds,
                todo : Seq(Call), outcome : {"none", "done", "error", "cancelled"}]
  BY AiChatConstants, EmptySeq DEF Off, Steps
<1>3. /\ toMain \in Seq(CallMessage) /\ toWindow \in Seq(EventMessage)
      /\ DOMAIN shown = {}
  BY EmptySeq
<1>4. sends \in 0..MaxSends /\ entry \in 0..MaxSends
  BY AiChatConstants
<1>5. cards \in [Servers -> {"none", "pending", "trusted", "skipped"}]
  BY DEF NoCards
<1>6. TypeOK
  BY <1>1, <1>2, <1>3, <1>4, <1>5 DEF TypeOK
<1>7. loop.at = "off" /\ loop.todo = <<>> /\ tab = "idle"
  BY DEF Off
<1>. QED
  BY <1>6, <1>7 DEF TypeInv, StepInv, InRound

(* The window.                                                             *)
LEMMA WindowTypes == ASSUME TypeInv, WindowNext PROVE TypeInv'
<1>. USE DEF TypeInv
<1>0. /\ sends \in 0..MaxSends /\ MaxSends \in Nat
      /\ tab # "idle" \/ toWindow # <<>> => sends \in Sends
  BY AiChatConstants DEF TypeOK, StepInv
<1>1. ASSUME SendPrompt PROVE TypeInv'
  <2>1. sends' \in Sends
    BY <1>0, <1>1 DEF SendPrompt, Sends
  <2>2. /\ UNCHANGED <<alive, granted, setup, toMain, toWindow, main, said>> /\ sends' \in 0..MaxSends
        /\ tab' = "preparing" /\ shown' = <<>> /\ cards' = NoCards
    BY <1>0, <1>1 DEF SendPrompt
  <2>3. DOMAIN shown' = {} /\ cards' \in [Servers -> {"none", "pending", "trusted", "skipped"}]
    BY <2>2 DEF NoCards
  <2>. QED
    BY <2>1, <2>2, <2>3 DEF TypeOK, StepInv, main, questions, turn
<1>2. ASSUME NEW m \in CallMessage, toMain' = Append(toMain, m), UNCHANGED <<toWindow, main>>,
             tab' \in {"idle", "preparing", "asked", "streaming"}, alive' \in BOOLEAN,
             sends \in Sends,
             granted' \in SUBSET Targets, UNCHANGED <<sends, shown, cards, setup>>
      PROVE  TypeInv'
  <2>1. toMain' \in Seq(CallMessage)
    BY <1>2, Appended DEF TypeOK
  <2>. QED
    BY <1>2, <2>1 DEF TypeOK, StepInv, main, questions, turn
<1>3. ASSUME Prepared PROVE TypeInv'
  <2>1. Send(sends, granted) \in CallMessage
    BY <1>0, <1>3, CallMessages DEF Prepared, TypeOK, StepInv
  <2>. QED
    BY <1>0, <1>2, <1>3, <2>1 DEF Prepared, TypeOK
<1>4. ASSUME PrepareFails PROVE TypeInv'
  BY <1>4 DEF PrepareFails, TypeOK, StepInv, main, questions, turn
<1>5. ASSUME Stop PROVE TypeInv'
  <2>1. Cancel(sends) \in CallMessage
    BY <1>0, <1>5, CallMessages DEF Stop, TypeOK, StepInv
  <2>. QED
    BY <1>0, <1>2, <1>5, <2>1 DEF Stop, TypeOK, window
<1>6. ASSUME NEW id \in DOMAIN shown, NEW d \in Decisions, AnswerCall(id, d) PROVE TypeInv'
  <2>1. ApproveTool(sends, id, d) \in CallMessage
    BY <1>0, <1>6, CallMessages DEF AnswerCall, TypeOK, StepInv
  <2>2. granted' \in SUBSET Targets
    BY <1>6 DEF AnswerCall, TypeOK
  <2>. QED
    BY <1>0, <1>2, <1>6, <2>1, <2>2 DEF AnswerCall, TypeOK
<1>7. ASSUME NEW s \in Servers, NEW d \in {"trust", "skip"}, AnswerTrust(s, d) PROVE TypeInv'
  <2>1. ResolveTrust(sends, s, d) \in CallMessage
    BY <1>0, <1>7, CallMessages DEF AnswerTrust, TypeOK, StepInv
  <2>. QED
    BY <1>0, <1>2, <1>7, <2>1 DEF AnswerTrust, TypeOK, window
<1>8. ASSUME ClearConversation PROVE TypeInv'
  BY <1>8 DEF ClearConversation, TypeOK, StepInv, main, questions, turn
<1>9. ASSUME CloseTab PROVE TypeInv'
  <2>1. CASE tab = "streaming"
    <3>1. Cancel(sends) \in CallMessage
      BY <1>0, <2>1, CallMessages DEF TypeOK, StepInv
    <3>. QED
      BY <1>0, <1>2, <1>9, <2>1, <3>1 DEF CloseTab, TypeOK
  <2>2. CASE tab # "streaming"
    <3>1. /\ UNCHANGED <<tab, toMain, sends, shown, cards, granted, setup, toWindow, main, said>>
          /\ alive' = FALSE
      BY <1>9, <2>2 DEF CloseTab
    <3>2. alive' \in BOOLEAN
      BY <3>1
    <3>3. TypeOK'
      BY <3>1, <3>2 DEF TypeOK, main, questions, turn
    <3>. QED
      BY <3>1, <3>3 DEF StepInv, main, turn
  <2>. QED
    BY <2>1, <2>2
<1>10. ASSUME Delivered
       PROVE  /\ toWindow' \in Seq(EventMessage) /\ Head(toWindow) \in EventMessage
              /\ sends \in Sends
  BY <1>0, <1>10, Rest DEF Delivered, TypeOK
<1>11. ASSUME ReplyArrives PROVE TypeInv'
  <2>1. toWindow' \in Seq(EventMessage) /\ Head(toWindow).m \in Sends
    BY <1>10, <1>11, EventMessageIs DEF ReplyArrives
  <2>2. toMain' \in Seq(CallMessage)
    BY <1>11, <2>1, CallMessages, Appended DEF ReplyArrives, TypeOK
  <2>4. /\ UNCHANGED <<alive, sends, shown, cards, granted, setup, main, said>>
        /\ tab' \in {"streaming", "idle"}
    BY <1>11 DEF ReplyArrives
  <2>5. TypeOK'
    BY <2>1, <2>2, <2>4 DEF TypeOK, main, questions, turn
  <2>6. sends \in Sends
    BY <1>11 DEF ReplyArrives, Delivered, StepInv
  <2>. QED
    BY <2>4, <2>5, <2>6 DEF StepInv, main, turn
<1>12. ASSUME PartArrives PROVE TypeInv'
  <2>. DEFINE p == Head(toWindow)
  <2>1. toWindow' \in Seq(EventMessage) /\ p \in EventMessage /\ sends \in Sends
    BY <1>10, <1>12 DEF PartArrives
  <2>2. /\ p.type = "call" => p.call \in Call /\ p.status \in Statuses /\ p.call.id \in Ids /\ p.call.on \in Targets
        /\ p.type = "result" => p.call \in Call
        /\ p.type = "card" => p.server \in Servers /\ p.status \in {"pending", "trusted", "skipped"}
    BY <2>1, EventMessageIs DEF Call
  <2>. HIDE DEF p
  <2>3. cards' \in [Servers -> {"none", "pending", "trusted", "skipped"}]
    BY <1>12, <2>2 DEF PartArrives, TypeOK, p
  <2>4. DOMAIN shown' \subseteq Ids /\ \A id \in DOMAIN shown' :
           shown'[id] \in [on : Targets, status : Statuses, result : BOOLEAN]
    <3>1. CASE tab # "streaming" \/ p.type = "card"
      <4>1. shown' = shown
        BY <1>12, <3>1 DEF PartArrives, p
      <4>. QED
        BY <4>1 DEF TypeOK
    <3>2. CASE tab = "streaming" /\ p.type = "call"
      <4>1. PICK had \in BOOLEAN : shown' = [i \in DOMAIN shown \cup {p.call.id} |->
                 IF i = p.call.id THEN [on |-> p.call.on, status |-> p.status, result |-> had]
                                  ELSE shown[i]]
        BY <1>12, <3>2 DEF PartArrives, TypeOK, p
      <4>. QED
        BY <2>2, <3>2, <4>1 DEF TypeOK
    <3>3. CASE tab = "streaming" /\ p.type = "result"
      <4>1. shown' = [shown EXCEPT ![p.call.id].result = TRUE]
        BY <1>12, <3>3 DEF PartArrives, p
      <4>. QED
        BY <4>1 DEF TypeOK
    <3>. QED
      BY <1>12, <3>1, <3>2, <3>3 DEF PartArrives, p
  <2>5. UNCHANGED <<tab, alive, sends, granted, setup, toMain, main, said>>
    BY <1>12 DEF PartArrives
  <2>. QED
    BY <2>1, <2>3, <2>4, <2>5 DEF TypeOK, StepInv, main, questions, turn
<1>13. ASSUME EndArrives PROVE TypeInv'
  BY <1>10, <1>13 DEF EndArrives, TypeOK, StepInv, main, questions, turn
<1>. QED
  BY <1>1, <1>3, <1>4, <1>5, <1>6, <1>7, <1>8, <1>9, <1>11, <1>12, <1>13 DEF WindowNext, Decisions

(* How the loop moves.                                                     *)
LoopType == [at : Steps, server : 0..(NServers + 1), round : 0..MaxRounds,
             todo : Seq(Call), outcome : {"none", "done", "error", "cancelled"}]
LoopFits ==
    /\ loop.at \in {"deps", "servers"} => loop.server \in 1..(NServers + 1)
    /\ loop.at \in {"isTrusted", "askTrust", "openSession", "opening"} => loop.server \in Servers
    /\ loop.at \in {"round", "streaming"} => loop.round \in 1..MaxRounds
    /\ loop.at \in InRound => loop.round \in 1..(MaxRounds - 1)
    /\ loop.at \in {"askApproval", "calling"} => loop.todo # <<>>
    /\ loop.at \notin InRound \cup {"closing"} => loop.todo = <<>>

(* What each way to go on leaves in the record of the loop.                *)
LEMMA LoopMoves ==
    ASSUME loop \in LoopType
    PROVE  /\ \A step \in Steps : GoTo(step) =>
                 /\ loop' \in LoopType /\ loop'.at = step
                 /\ loop'.server = loop.server /\ loop'.round = loop.round /\ loop'.todo = loop.todo
           /\ \A o \in {"done", "error", "cancelled"} : Finish(o) =>
                 /\ loop' \in LoopType /\ loop'.at = "closing"
                 /\ loop'.server = loop.server /\ loop'.round = loop.round /\ loop'.todo = loop.todo
           /\ loop.server \in Servers /\ NextServer =>
                 /\ loop' \in LoopType /\ loop'.at = "servers" /\ loop'.server \in 1..(NServers + 1)
                 /\ loop'.round = loop.round /\ loop'.todo = loop.todo
           /\ loop.todo # <<>> /\ NextCall =>
                 /\ loop' \in LoopType /\ loop'.at = "calls" /\ loop'.todo = Tail(loop.todo)
                 /\ loop'.server = loop.server /\ loop'.round = loop.round
           /\ \A r \in 0..MaxRounds : loop' = [loop EXCEPT !.at = "round", !.round = r] =>
                 /\ loop' \in LoopType /\ loop'.at = "round" /\ loop'.round = r
                 /\ loop'.server = loop.server /\ loop'.todo = loop.todo
           /\ \A calls \in Seq(Call) : loop' = [loop EXCEPT !.at = "calls", !.todo = calls] =>
                 /\ loop' \in LoopType /\ loop'.at = "calls" /\ loop'.todo = calls
                 /\ loop'.server = loop.server /\ loop'.round = loop.round
<1>. USE DEF LoopType
<1>1. ASSUME NEW step \in Steps, GoTo(step)
      PROVE  /\ loop' \in LoopType /\ loop'.at = step
             /\ loop'.server = loop.server /\ loop'.round = loop.round /\ loop'.todo = loop.todo
  BY <1>1 DEF GoTo
<1>2. ASSUME NEW o \in {"done", "error", "cancelled"}, Finish(o)
      PROVE  /\ loop' \in LoopType /\ loop'.at = "closing"
             /\ loop'.server = loop.server /\ loop'.round = loop.round /\ loop'.todo = loop.todo
  BY <1>2 DEF Finish, Steps
<1>3. ASSUME loop.server \in Servers, NextServer
      PROVE  /\ loop' \in LoopType /\ loop'.at = "servers" /\ loop'.server \in 1..(NServers + 1)
             /\ loop'.round = loop.round /\ loop'.todo = loop.todo
  <2>1. loop.server + 1 \in 0..(NServers + 1) /\ loop.server + 1 \in 1..(NServers + 1)
    BY <1>3, AiChatConstants DEF Servers
  <2>. QED
    BY <1>3, <2>1 DEF NextServer, Steps
<1>4. ASSUME loop.todo # <<>>, NextCall
      PROVE  /\ loop' \in LoopType /\ loop'.at = "calls" /\ loop'.todo = Tail(loop.todo)
             /\ loop'.server = loop.server /\ loop'.round = loop.round
  <2>1. Tail(loop.todo) \in Seq(Call)
    BY <1>4, Rest
  <2>. QED
    BY <1>4, <2>1 DEF NextCall, Steps
<1>5. ASSUME NEW r \in 0..MaxRounds, loop' = [loop EXCEPT !.at = "round", !.round = r]
      PROVE  /\ loop' \in LoopType /\ loop'.at = "round" /\ loop'.round = r
             /\ loop'.server = loop.server /\ loop'.todo = loop.todo
  BY <1>5 DEF Steps
<1>6. ASSUME NEW calls \in Seq(Call), loop' = [loop EXCEPT !.at = "calls", !.todo = calls]
      PROVE  /\ loop' \in LoopType /\ loop'.at = "calls" /\ loop'.todo = calls
             /\ loop'.server = loop.server /\ loop'.round = loop.round
  BY <1>6 DEF Steps
<1>. QED
  BY <1>1, <1>2, <1>3, <1>4, <1>5, <1>6

(* What the loop emits are events.                                         *)
LEMMA Emits ==
    ASSUME TypeOK, NEW parts \in Seq(EventMessage), Emit(parts)
    PROVE  toWindow' \in Seq(EventMessage)
BY Joined DEF TypeOK, Emit

(* While the window is there, what the loop emits comes last.              *)
LEMMA Emitted ==
    ASSUME TypeInv, NEW parts \in Seq(EventMessage), Emit(parts), alive
    PROVE  /\ toWindow \in Seq(EventMessage) /\ toWindow' \in Seq(EventMessage)
           /\ Len(toWindow) \in Nat /\ Len(parts) \in Nat
           /\ Len(toWindow') = Len(toWindow) + Len(parts)
           /\ DOMAIN toWindow = 1..Len(toWindow) /\ DOMAIN parts = 1..Len(parts)
           /\ DOMAIN toWindow' = 1..(Len(toWindow) + Len(parts))
           /\ \A k \in DOMAIN toWindow : k \in DOMAIN toWindow' /\ toWindow'[k] = toWindow[k]
           /\ \A k \in DOMAIN parts :
                 Len(toWindow) + k \in DOMAIN toWindow' /\ toWindow'[Len(toWindow) + k] = parts[k]
           /\ \A k \in DOMAIN toWindow' :
                 k \in DOMAIN toWindow \/ \E j \in DOMAIN parts : k = Len(toWindow) + j
<1>1. toWindow \in Seq(EventMessage) /\ toWindow' = toWindow \o parts
  BY DEF TypeInv, TypeOK, Emit
<1>. QED
  BY <1>1, Joined

(* One event, and two, are sequences of events.                            *)
LEMMA OnePart ==
    ASSUME NEW p \in EventMessage
    PROVE  <<p>> \in Seq(EventMessage) /\ \A q \in EventMessage : <<p, q>> \in Seq(EventMessage)
OBVIOUS

(* To emit nothing changes nothing.                                        *)
LEMMA NoParts == <<>> \in Seq(EventMessage) /\ (Emit(<<>>) /\ TypeOK => toWindow' = toWindow)
<1>1. ASSUME TypeOK PROVE toWindow \o <<>> = toWindow
  BY <1>1, ConcatEmptySeq DEF TypeOK
<1>. QED
  BY <1>1 DEF Emit

(* A step of the loop keeps the types when what it changes has its type.   *)
LEMMA LoopStepTypes ==
    ASSUME TypeInv, UNCHANGED <<window, toMain>>, loop.at # "off",
           toWindow' \in Seq(EventMessage), entry' \in 0..MaxSends, aborted' \in BOOLEAN,
           approvals' \subseteq Ids, gates' \subseteq Servers, recording' \subseteq Servers,
           trusted' \subseteq Servers,
           answer' \in Decisions \cup {"none", "trusted", "skip", "cancelled"},
           loop' \in LoopType, LoopFits', open' \subseteq Servers, allowed' \subseteq Targets,
           used' \subseteq Ids, asked' \in Nat
    PROVE  TypeInv'
<1>1. sends \in Sends /\ sends' = sends
  BY DEF TypeInv, StepInv, window
<1>2. TypeOK'
  BY DEF TypeInv, TypeOK, window, LoopType
<1>. QED
  BY <1>1, <1>2 DEF TypeInv, StepInv, LoopFits

(* The loop, and what servers and the model do to it.                      *)
LEMMA LoopTypes == ASSUME TypeInv, LoopGoesOn \/ Others PROVE TypeInv'
<1>0. loop \in LoopType /\ LoopFits /\ MaxRounds \in Nat \ {0} /\ NServers \in Nat
  BY AiChatConstants DEF TypeInv, TypeOK, StepInv, LoopType, LoopFits
<1>. DEFINE Same == UNCHANGED <<window, toMain, entry, aborted, questions, open, allowed, used, asked>>
<1>1. ASSUME UNCHANGED <<window, toMain, entry, aborted, questions, allowed, used, asked>>,
             toWindow' \in Seq(EventMessage), open' \subseteq Servers,
             loop.at # "off", loop' \in LoopType, LoopFits'
      PROVE  TypeInv'
  BY <1>1, LoopStepTypes DEF TypeInv, TypeOK, questions
<1>2. toWindow \in Seq(EventMessage) /\ open \subseteq Servers /\ TypeOK
  BY DEF TypeInv, TypeOK
<1>3. ASSUME Finish("done") \/ Finish("error") \/ Finish("cancelled")
      PROVE  loop' \in LoopType /\ LoopFits' /\ loop'.at = "closing" /\ loop'.todo = loop.todo
  BY <1>0, <1>3, LoopMoves DEF LoopFits, InRound
<1>4. ASSUME loop.at \in {"servers", "askTrust", "opening"}, loop.server \in Servers, NextServer
      PROVE  loop' \in LoopType /\ LoopFits'
  BY <1>0, <1>4, LoopMoves DEF LoopFits, InRound
<1>5. ASSUME loop.server \in Servers, loop.todo = <<>>,
             GoTo("isTrusted") \/ GoTo("askTrust") \/ GoTo("openSession") \/ GoTo("opening")
      PROVE  loop' \in LoopType /\ LoopFits'
  BY <1>0, <1>5, LoopMoves DEF LoopFits, InRound, Steps
<1>6. ASSUME DepsLoaded PROVE TypeInv'
  <2>1. loop.at = "deps"
    BY <1>6 DEF DepsLoaded, At
  <2>2. toWindow' = toWindow
    BY <1>2, <1>6, NoParts DEF DepsLoaded
  <2>3. ASSUME GoTo("servers") PROVE loop' \in LoopType /\ LoopFits'
    BY <1>0, <2>1, <2>3, LoopMoves DEF LoopFits, InRound, Steps
  <2>4. loop' \in LoopType /\ LoopFits'
    BY <1>3, <1>6, <2>3 DEF DepsLoaded
  <2>. QED
    BY <1>1, <1>2, <1>6, <2>1, <2>2, <2>4 DEF DepsLoaded
<1>7. ASSUME ServersStep PROVE TypeInv'
  <2>1. loop.at = "servers" /\ loop.server \in 1..(NServers + 1) /\ loop.todo = <<>>
    BY <1>0, <1>7 DEF ServersStep, At, LoopFits, InRound
  <2>2. CASE loop.server > NServers
    <3>1. loop' = [loop EXCEPT !.at = "round", !.round = 1]
      BY <1>7, <2>2 DEF ServersStep
    <3>2. 1 \in 0..MaxRounds /\ 1 \in 1..MaxRounds
      BY <1>0
    <3>3. loop' \in LoopType /\ loop'.at = "round" /\ loop'.round = 1 /\ loop'.todo = loop.todo
      BY <1>0, <3>1, <3>2, LoopMoves
    <3>4. LoopFits'
      BY <2>1, <3>2, <3>3 DEF LoopFits, InRound
    <3>. QED
      BY <1>1, <1>2, <1>7, <2>1, <3>3, <3>4 DEF ServersStep
  <2>3. CASE ~(loop.server > NServers)
    <3>1. loop.server \in Servers
      BY <1>0, <2>1, <2>3 DEF Servers
    <3>2. Finish("cancelled") \/ NextServer \/ GoTo("isTrusted") \/ GoTo("openSession")
      BY <1>7, <2>3 DEF ServersStep
    <3>3. loop' \in LoopType /\ LoopFits'
      BY <1>3, <1>4, <1>5, <2>1, <3>1, <3>2
    <3>. QED
      BY <1>1, <1>2, <1>7, <2>1, <3>3 DEF ServersStep
  <2>. QED
    BY <2>2, <2>3
<1>8. ASSUME TrustChecked PROVE TypeInv'
  <2>1. loop.at = "isTrusted" /\ loop.server \in Servers /\ loop.todo = <<>>
    BY <1>0, <1>8 DEF TrustChecked, At, LoopFits, InRound
  <2>2. CASE loop.server \in trusted
    <3>1. GoTo("openSession") /\ Emit(<<>>) /\ Same
      BY <1>8, <2>2 DEF TrustChecked
    <3>2. loop' \in LoopType /\ LoopFits' /\ toWindow' = toWindow
      BY <1>2, <1>5, <2>1, <3>1, NoParts
    <3>. QED
      BY <1>1, <1>2, <2>1, <3>1, <3>2
  <2>3. CASE loop.server \notin trusted
    <3>1. /\ GoTo("askTrust") /\ Emit(<<Card(loop.server, "pending")>>)
          /\ gates' \in {gates, gates \cup {loop.server}} /\ answer' \in {"cancelled", "none"}
          /\ UNCHANGED <<approvals, recording, trusted>>
          /\ UNCHANGED <<window, toMain, entry, aborted, open, allowed, used, asked>>
      BY <1>8, <2>3 DEF TrustChecked
    <3>2. loop' \in LoopType /\ LoopFits'
      BY <1>5, <2>1, <3>1
    <3>3. toWindow' \in Seq(EventMessage)
      BY <1>2, <2>1, <3>1, EventMessages, OnePart, Emits
    <3>4. gates' \subseteq Servers
      BY <2>1, <3>1 DEF TypeInv, TypeOK
    <3>. QED
      BY <2>1, <3>1, <3>2, <3>3, <3>4, LoopStepTypes DEF TypeInv, TypeOK
  <2>. QED
    BY <2>2, <2>3
<1>9. ASSUME TrustAnswered PROVE TypeInv'
  <2>1. loop.at = "askTrust" /\ loop.server \in Servers /\ loop.todo = <<>>
    BY <1>0, <1>9 DEF TrustAnswered, At, LoopFits, InRound
  <2>2. Finish("cancelled") \/ GoTo("openSession") \/ NextServer
    BY <1>9 DEF TrustAnswered
  <2>3. loop' \in LoopType /\ LoopFits'
    BY <1>3, <1>4, <1>5, <2>1, <2>2
  <2>4. PICK st \in {"trusted", "skipped"} : Emit(<<Card(loop.server, st)>>)
    BY <1>9 DEF TrustAnswered
  <2>5. toWindow' \in Seq(EventMessage)
    BY <1>2, <2>1, <2>4, EventMessages, OnePart, Emits
  <2>6. /\ UNCHANGED <<window, toMain, entry, aborted, approvals, gates, recording, trusted,
                       open, allowed, used, asked>>
        /\ answer' = "none"
    BY <1>9 DEF TrustAnswered
  <2>. QED
    BY <2>1, <2>3, <2>5, <2>6, LoopStepTypes DEF TypeInv, TypeOK
<1>10. ASSUME OpenSession PROVE TypeInv'
  <2>1. loop.at = "openSession" /\ loop.server \in Servers /\ loop.todo = <<>>
    BY <1>0, <1>10 DEF OpenSession, At, LoopFits, InRound
  <2>2. loop' \in LoopType /\ LoopFits'
    BY <1>3, <1>5, <1>10, <2>1 DEF OpenSession
  <2>. QED
    BY <1>1, <1>2, <1>10, <2>1, <2>2 DEF OpenSession
<1>11. ASSUME SessionAborted \/ StreamAborted \/ \E o \in {"error", "cancelled"} : StreamFails(o)
       PROVE TypeInv'
  <2>1. /\ Finish("error") \/ Finish("cancelled")
        /\ loop.at # "off" /\ Same /\ UNCHANGED toWindow
    BY <1>11 DEF SessionAborted, StreamAborted, StreamFails, At
  <2>. QED
    BY <1>1, <1>2, <1>3, <2>1
<1>12. ASSUME SessionOpens PROVE TypeInv'
  <2>1. loop.at = "opening" /\ loop.server \in Servers
    BY <1>0, <1>12 DEF SessionOpens, At, LoopFits
  <2>2. loop' \in LoopType /\ LoopFits'
    BY <1>4, <1>12, <2>1 DEF SessionOpens
  <2>3. open' \subseteq Servers
    BY <1>2, <1>12, <2>1 DEF SessionOpens
  <2>. QED
    BY <1>1, <1>2, <1>12, <2>1, <2>2, <2>3 DEF SessionOpens
<1>13. ASSUME SessionFails PROVE TypeInv'
  <2>1. loop.at = "opening" /\ loop.server \in Servers
    BY <1>0, <1>13 DEF SessionFails, At, LoopFits
  <2>2. loop' \in LoopType /\ LoopFits'
    BY <1>3, <1>4, <1>13, <2>1 DEF SessionFails
  <2>. QED
    BY <1>1, <1>2, <1>13, <2>1, <2>2 DEF SessionFails
<1>14. ASSUME StartRound PROVE TypeInv'
  <2>1. loop.at = "round"
    BY <1>14 DEF StartRound, At
  <2>2. ASSUME GoTo("streaming") PROVE loop' \in LoopType /\ LoopFits'
    BY <1>0, <2>1, <2>2, LoopMoves DEF LoopFits, InRound, Steps
  <2>3. loop' \in LoopType /\ LoopFits'
    BY <1>3, <1>14, <2>2 DEF StartRound
  <2>. QED
    BY <1>1, <1>2, <1>14, <2>1, <2>3 DEF StartRound
<1>15. ASSUME CallsDone PROVE TypeInv'
  <2>1. loop.at = "calls" /\ loop.todo = <<>> /\ loop.round \in 1..(MaxRounds - 1)
    BY <1>0, <1>15 DEF CallsDone, At, LoopFits, InRound
  <2>2. loop.round + 1 \in 0..MaxRounds /\ loop.round + 1 \in 1..MaxRounds
    BY <1>0, <2>1
  <2>3. ASSUME ~aborted
        PROVE  loop' \in LoopType /\ LoopFits'
    <3>1. loop' = [loop EXCEPT !.at = "round", !.round = loop.round + 1]
      BY <1>15, <2>3 DEF CallsDone
    <3>2. loop' \in LoopType /\ loop'.at = "round" /\ loop'.round = loop.round + 1 /\ loop'.todo = loop.todo
      BY <1>0, <2>2, <3>1, LoopMoves
    <3>. QED
      BY <2>1, <2>2, <3>2 DEF LoopFits, InRound
  <2>4. loop' \in LoopType /\ LoopFits'
    BY <1>3, <1>15, <2>3 DEF CallsDone
  <2>. QED
    BY <1>1, <1>2, <1>15, <2>1, <2>4 DEF CallsDone
<1>16. ASSUME NEW s \in Servers, CloseSession(s) PROVE TypeInv'
  <2>1. loop.at = "closing" /\ loop' = loop /\ open' \subseteq Servers
    BY <1>2, <1>16 DEF CloseSession, At
  <2>2. LoopFits'
    BY <1>0, <2>1 DEF LoopFits
  <2>. QED
    BY <1>0, <1>1, <1>2, <1>16, <2>1, <2>2 DEF CloseSession
<1>17. ASSUME TurnEnds PROVE TypeInv'
  <2>1. loop.at = "closing" /\ loop' = [loop EXCEPT !.at = "off", !.todo = <<>>] /\ Emit(<<Ended>>)
    BY <1>17 DEF TurnEnds, At
  <2>2. loop' \in LoopType /\ loop'.at = "off" /\ loop'.todo = <<>>
    <3>1. <<>> \in Seq(Call)
      OBVIOUS
    <3>. QED
      BY <1>0, <2>1, <3>1 DEF LoopType, Steps
  <2>3. LoopFits'
    BY <2>2 DEF LoopFits, InRound
  <2>4. toWindow' \in Seq(EventMessage)
    BY <1>2, <2>1, EventMessages, OnePart, Emits
  <2>5. /\ UNCHANGED <<window, toMain, aborted, recording, trusted, open, allowed, used, asked>>
        /\ entry' \in 0..MaxSends /\ approvals' = {} /\ gates' = {}
        /\ answer' \in {answer, "cancelled"}
    BY <1>17, AiChatConstants DEF TurnEnds, SettleQuestions
  <2>. QED
    BY <2>1, <2>2, <2>3, <2>4, <2>5, LoopStepTypes DEF TypeInv, TypeOK
<1>18. ASSUME loop.todo # <<>>
       PROVE  /\ Head(loop.todo) \in Call /\ Head(loop.todo).id \in Ids /\ Head(loop.todo).on \in Targets
              /\ Tail(loop.todo) \in Seq(Call)
  <2>1. loop.todo \in Seq(Call)
    BY <1>0 DEF LoopType
  <2>2. Head(loop.todo) \in Call /\ Tail(loop.todo) \in Seq(Call)
    BY <1>18, <2>1, Rest
  <2>. QED
    BY <2>2 DEF Call
<1>19. ASSUME loop.at \in InRound, CancelCalls
       PROVE  loop' \in LoopType /\ LoopFits' /\ toWindow' \in Seq(EventMessage)
  BY <1>0, <1>2, <1>3, <1>19, RefusedParts, Emits DEF CancelCalls, LoopType
<1>20. ASSUME loop.at \in InRound, loop.todo # <<>>, NextCall
       PROVE  loop' \in LoopType /\ LoopFits'
  BY <1>0, <1>20, LoopMoves DEF LoopFits, InRound
<1>21. ASSUME loop.at \in InRound, loop.todo # <<>>, GoTo("calling") \/ GoTo("askApproval")
       PROVE  loop' \in LoopType /\ LoopFits'
  BY <1>0, <1>21, LoopMoves DEF LoopFits, InRound, Steps
<1>22. ASSUME loop.todo # <<>>, NEW st \in Statuses
       PROVE  /\ Emit(<<CallPart(Head(loop.todo), st)>>) => toWindow' \in Seq(EventMessage)
              /\ Emit(<<CallPart(Head(loop.todo), st), ResultPart(Head(loop.todo))>>)
                    => toWindow' \in Seq(EventMessage)
  <2>1. CallPart(Head(loop.todo), st) \in EventMessage /\ ResultPart(Head(loop.todo)) \in EventMessage
    BY <1>18, <1>22, EventMessages
  <2>. QED
    BY <1>2, <2>1, OnePart, Emits
<1>23. ASSUME loop.todo # <<>>, Emit(Refused(<<Head(loop.todo)>>)) PROVE toWindow' \in Seq(EventMessage)
  <2>1. <<Head(loop.todo)>> \in Seq(Call)
    BY <1>18, <1>23
  <2>. QED
    BY <1>2, <1>23, <2>1, RefusedParts, Emits
<1>24. ASSUME StartCall PROVE TypeInv'
  <2>. DEFINE c == Head(loop.todo)
  <2>1. loop.at = "calls" /\ loop.at \in InRound /\ loop.todo # <<>>
    BY <1>24 DEF StartCall, At, InRound
  <2>2. UNCHANGED <<window, toMain, entry, aborted, open, allowed, used, asked>>
    BY <1>24 DEF StartCall
  <2>3. \/ CancelCalls /\ UNCHANGED questions
        \/ NextCall /\ Emit(Refused(<<c>>)) /\ UNCHANGED questions
        \/ RunTool /\ UNCHANGED questions
        \/ /\ GoTo("askApproval") /\ Emit(<<CallPart(c, "pending-approval")>>)
           /\ approvals' = approvals \cup {c.id} /\ answer' = "none"
           /\ UNCHANGED <<gates, recording, trusted>>
    BY <1>24 DEF StartCall
  <2>4. CASE CancelCalls /\ UNCHANGED questions
    BY <1>1, <1>2, <1>19, <2>1, <2>2, <2>4
  <2>5. CASE NextCall /\ Emit(Refused(<<c>>)) /\ UNCHANGED questions
    BY <1>1, <1>2, <1>20, <1>23, <2>1, <2>2, <2>5
  <2>6. CASE RunTool /\ UNCHANGED questions
    <3>1. toWindow' \in Seq(EventMessage)
      BY <1>22, <2>1, <2>6 DEF RunTool, Statuses
    <3>. QED
      BY <1>1, <1>2, <1>21, <2>1, <2>2, <2>6, <3>1 DEF RunTool
  <2>7. CASE /\ GoTo("askApproval") /\ Emit(<<CallPart(c, "pending-approval")>>)
             /\ approvals' = approvals \cup {c.id} /\ answer' = "none"
             /\ UNCHANGED <<gates, recording, trusted>>
    <3>1. toWindow' \in Seq(EventMessage)
      BY <1>22, <2>1, <2>7 DEF Statuses
    <3>2. approvals' \subseteq Ids
      BY <1>18, <2>1, <2>7 DEF TypeInv, TypeOK
    <3>3. loop' \in LoopType /\ LoopFits'
      BY <1>21, <2>1, <2>7
    <3>. QED
      BY <2>1, <2>2, <2>7, <3>1, <3>2, <3>3, LoopStepTypes DEF TypeInv, TypeOK
  <2>. QED
    BY <2>3, <2>4, <2>5, <2>6, <2>7
<1>25. ASSUME CallAnswered PROVE TypeInv'
  <2>. DEFINE c == Head(loop.todo)
  <2>1. loop.at = "askApproval" /\ loop.at \in InRound /\ loop.todo # <<>>
    BY <1>0, <1>25 DEF CallAnswered, At, InRound, LoopFits
  <2>2. /\ UNCHANGED <<window, toMain, entry, aborted, approvals, gates, recording, trusted,
                       open, used, asked>>
        /\ answer' = "none"
    BY <1>25 DEF CallAnswered
  <2>3. \/ CancelCalls
        \/ NextCall /\ Emit(<<CallPart(c, "denied"), ResultPart(c)>>)
        \/ RunTool
    BY <1>25 DEF CallAnswered
  <2>4. allowed' \subseteq Targets
    BY <1>18, <1>25, <2>1 DEF CallAnswered, TypeInv, TypeOK
  <2>5. loop' \in LoopType /\ LoopFits'
    BY <1>19, <1>20, <1>21, <2>1, <2>3 DEF RunTool
  <2>6. toWindow' \in Seq(EventMessage)
    BY <1>19, <1>22, <2>1, <2>3 DEF RunTool, Statuses
  <2>. QED
    BY <2>1, <2>2, <2>4, <2>5, <2>6, LoopStepTypes DEF TypeInv, TypeOK
<1>26. ASSUME NEW status \in {"done", "error"}, ToolAnswers(status) PROVE TypeInv'
  <2>1. loop.at = "calling" /\ loop.at \in InRound /\ loop.todo # <<>>
    BY <1>0, <1>26 DEF ToolAnswers, At, InRound, LoopFits
  <2>2. loop' \in LoopType /\ LoopFits'
    BY <1>20, <1>26, <2>1 DEF ToolAnswers
  <2>3. toWindow' \in Seq(EventMessage)
    BY <1>22, <1>26, <2>1 DEF ToolAnswers, Statuses
  <2>. QED
    BY <1>1, <1>2, <1>26, <2>1, <2>2, <2>3 DEF ToolAnswers
<1>27. ASSUME ToolAborted PROVE TypeInv'
  <2>1. loop.at = "calling" /\ loop.at \in InRound
    BY <1>27 DEF ToolAborted, At, InRound
  <2>. QED
    BY <1>1, <1>2, <1>19, <1>27, <2>1 DEF ToolAborted
<1>28. ASSUME NEW a \in Answers, NEW raws, raws = RawsOf(a), ModelAnswers(raws, OnsOf(a))
       PROVE  TypeInv'
  <2>1. PICK ids, calls :
          /\ ids \in Named(raws)
          /\ calls = CallsOf(a, ids)
          /\ used' = used \cup {ids[k] : k \in DOMAIN raws}
          /\ \/ Finish("done") /\ (Emit(<<>>) \/ Emit(Refused(calls)))
             \/ /\ loop.round # MaxRounds /\ Emit(<<>>)
                /\ loop' = [loop EXCEPT !.at = "calls", !.todo = calls]
    BY <1>28 DEF ModelAnswers, CallsOf
  <2>2. /\ loop.at = "streaming" /\ asked' = asked + Len(raws)
        /\ UNCHANGED <<window, toMain, entry, aborted, questions, open, allowed, said>>
    BY <1>28 DEF ModelAnswers, At
  <2>3. /\ Len(raws) \in Nat /\ DOMAIN raws = 1..Len(raws) /\ calls \in Seq(Call)
        /\ \A k \in DOMAIN raws : ids[k] \in Ids
    BY <1>28, <2>1, AnswerIs
  <2>5. used' \subseteq Ids /\ asked' \in Nat
    BY <2>1, <2>2, <2>3 DEF TypeInv, TypeOK
  <2>6. ASSUME loop.round # MaxRounds, loop' = [loop EXCEPT !.at = "calls", !.todo = calls]
        PROVE  loop' \in LoopType /\ LoopFits'
    <3>1. loop.round \in 1..(MaxRounds - 1)
      BY <1>0, <2>2, <2>6 DEF LoopFits
    <3>. QED
      BY <1>0, <2>3, <2>6, <3>1, LoopMoves DEF LoopFits, InRound
  <2>7. loop' \in LoopType /\ LoopFits'
    BY <1>3, <2>1, <2>6
  <2>8. toWindow' \in Seq(EventMessage)
    BY <1>2, <2>1, <2>3, NoParts, RefusedParts, Emits
  <2>. QED
    BY <2>2, <2>5, <2>7, <2>8, LoopStepTypes DEF TypeInv, TypeOK, questions
<1>. QED
  BY <1>6, <1>7, <1>8, <1>9, <1>10, <1>11, <1>12, <1>13, <1>14, <1>15, <1>16, <1>17, <1>24, <1>25,
     <1>26, <1>27, <1>28 DEF LoopGoesOn, Others, RawsOf, OnsOf

(* The handlers.                                                           *)
LEMMA MainTypes == ASSUME TypeInv, MainNext PROVE TypeInv'
<1>0. /\ loop \in LoopType /\ LoopFits /\ TypeOK /\ StepInv
      /\ toMain \in Seq(CallMessage) /\ toWindow \in Seq(EventMessage)
  BY DEF TypeInv, TypeOK, StepInv, LoopType, LoopFits
<1>1. ASSUME NEW op, Received(op)
      PROVE  /\ toMain' \in Seq(CallMessage) /\ Head(toMain) \in CallMessage /\ sends \in Sends
             /\ toMain # <<>>
  BY <1>0, <1>1, Rest DEF Received, StepInv
<1>2. ASSUME UNCHANGED <<sends, shown, cards, granted, setup, toWindow, trusted, turn>>,
             toMain' \in Seq(CallMessage), toMain # <<>>, entry' \in 0..MaxSends, aborted' \in BOOLEAN,
             UNCHANGED <<tab, alive>>,
             approvals' \subseteq Ids, gates' \subseteq Servers, recording' \subseteq Servers,
             answer' \in Decisions \cup {"none", "trusted", "skip", "cancelled"}
      PROVE  TypeInv'
  <2>1. TypeOK'
    BY <1>0, <1>2 DEF TypeOK, turn
  <2>2. StepInv'
    BY <1>0, <1>2 DEF StepInv, turn
  <2>. QED
    BY <2>1, <2>2 DEF TypeInv
<1>3. ASSUME MainSends PROVE TypeInv'
  <2>1. toMain' \in Seq(CallMessage) /\ Head(toMain) \in CallMessage /\ sends \in Sends
    BY <1>1, <1>3 DEF MainSends
  <2>2. /\ Head(toMain).op = "send" /\ entry' = Head(toMain).m /\ aborted' = FALSE
        /\ approvals' = {} /\ gates' = {} /\ answer' = "none"
        /\ loop' = [Off EXCEPT !.at = "deps", !.server = 1]
        /\ open' = {} /\ allowed' = Head(toMain).keys /\ used' = {} /\ asked' = 0
        /\ toWindow' = Append(toWindow, Reply(Head(toMain).m))
        /\ UNCHANGED <<window, recording, trusted>>
    BY <1>3 DEF MainSends, Received
  <2>3. entry' \in Sends /\ Reply(Head(toMain).m) \in EventMessage /\ allowed' \subseteq Targets
    BY <2>1, <2>2, CallMessageIs, EventMessages
  <2>4. toWindow' \in Seq(EventMessage)
    BY <1>0, <2>2, <2>3, Appended
  <2>5. loop' \in LoopType /\ loop'.at = "deps" /\ loop'.server = 1 /\ loop'.todo = <<>>
    <3>1. <<>> \in Seq(Call) /\ 1 \in 0..(NServers + 1) /\ 0 \in 0..MaxRounds
      BY AiChatConstants
    <3>. QED
      BY <2>2, <3>1 DEF LoopType, Steps, Off
  <2>6. LoopFits'
    <3>1. 1 \in 1..(NServers + 1)
      BY AiChatConstants
    <3>. QED
      BY <2>5, <3>1 DEF LoopFits, InRound
  <2>7. TypeOK'
    <3>1. entry' \in 0..MaxSends
      BY <2>3, AiChatConstants DEF Sends
    <3>0. aborted' \in BOOLEAN
      BY <2>2
    <3>2. /\ approvals' \subseteq Ids /\ gates' \subseteq Servers /\ open' \subseteq Servers
          /\ used' \subseteq Ids /\ asked' \in Nat
      BY <2>2
    <3>. QED
      BY <1>0, <2>1, <2>2, <2>3, <2>4, <2>5, <3>0, <3>1, <3>2 DEF TypeOK, window, LoopType
  <2>. QED
    BY <2>1, <2>2, <2>6, <2>7 DEF TypeInv, StepInv, LoopFits, window
<1>4. ASSUME MainApproves PROVE TypeInv'
  <2>1. toMain' \in Seq(CallMessage) /\ Head(toMain) \in CallMessage /\ toMain # <<>>
    BY <1>1, <1>4 DEF MainApproves
  <2>2. Head(toMain).decision \in Decisions
    BY <1>4, <2>1, CallMessageIs DEF MainApproves, Received
  <2>3. approvals' \subseteq Ids /\ answer' \in Decisions \cup {"none", "trusted", "skip", "cancelled"}
    BY <1>0, <1>4, <2>2 DEF MainApproves, TypeOK
  <2>4. UNCHANGED <<window, toWindow, entry, aborted, gates, recording, trusted, turn, said>>
    BY <1>4 DEF MainApproves
  <2>. QED
    BY <1>0, <1>2, <2>1, <2>3, <2>4 DEF TypeOK, window
<1>5. ASSUME MainResolvesTrust PROVE TypeInv'
  <2>1. toMain' \in Seq(CallMessage) /\ Head(toMain) \in CallMessage /\ toMain # <<>>
    BY <1>1, <1>5 DEF MainResolvesTrust
  <2>2. Head(toMain).server \in Servers
    BY <1>5, <2>1, CallMessageIs DEF MainResolvesTrust, Received
  <2>3. /\ gates' \subseteq Servers /\ recording' \subseteq Servers
        /\ answer' \in Decisions \cup {"none", "trusted", "skip", "cancelled"}
    BY <1>0, <1>5, <2>2 DEF MainResolvesTrust, TypeOK
  <2>4. UNCHANGED <<window, toWindow, entry, aborted, approvals, trusted, turn, said>>
    BY <1>5 DEF MainResolvesTrust
  <2>. QED
    BY <1>0, <1>2, <2>1, <2>3, <2>4 DEF TypeOK, window
<1>6. ASSUME (entry' = 0 /\ aborted' = TRUE /\ SettleQuestions) \/ UNCHANGED <<entry, aborted, approvals, gates, answer>>
      PROVE  /\ entry' \in 0..MaxSends /\ aborted' \in BOOLEAN
             /\ approvals' \subseteq Ids /\ gates' \subseteq Servers
             /\ answer' \in Decisions \cup {"none", "trusted", "skip", "cancelled"}
  <2>1. CASE UNCHANGED <<entry, aborted, approvals, gates, answer>>
    BY <1>0, <2>1 DEF TypeOK
  <2>2. CASE entry' = 0 /\ aborted' = TRUE /\ SettleQuestions
    <3>1. aborted' \in BOOLEAN
      BY <2>2
    <3>2. /\ approvals' \subseteq Ids /\ gates' \subseteq Servers
          /\ answer' \in Decisions \cup {"none", "trusted", "skip", "cancelled"}
      BY <1>0, <2>2 DEF SettleQuestions, TypeOK
    <3>. QED
      BY <2>2, <3>1, <3>2, AiChatConstants
  <2>. QED
    BY <1>6, <2>1, <2>2
<1>7. ASSUME MainCancels PROVE TypeInv'
  <2>1. toMain' \in Seq(CallMessage) /\ toMain # <<>>
    BY <1>1, <1>7 DEF MainCancels
  <2>2. (entry' = 0 /\ aborted' = TRUE /\ SettleQuestions) \/ UNCHANGED <<entry, aborted, approvals, gates, answer>>
    BY <1>7 DEF MainCancels
  <2>3. UNCHANGED <<window, toWindow, recording, trusted, turn, said>>
    BY <1>7 DEF MainCancels
  <2>. QED
    BY <1>0, <1>2, <1>6, <2>1, <2>2, <2>3 DEF TypeOK, window
<1>8. ASSUME WindowGone PROVE TypeInv'
  <2>1. (entry' = 0 /\ aborted' = TRUE /\ SettleQuestions) \/ UNCHANGED <<entry, aborted, approvals, gates, answer>>
    BY <1>8 DEF WindowGone
  <2>2. /\ UNCHANGED <<sends, shown, cards, granted, setup, recording, trusted, turn, said>>
        /\ alive' = FALSE /\ tab' = "idle" /\ toMain' = <<>> /\ toWindow' = <<>>
    BY <1>8 DEF WindowGone
  <2>3. toMain' \in Seq(CallMessage) /\ toWindow' \in Seq(EventMessage)
    BY <2>2
  <2>5. alive' \in BOOLEAN
    BY <2>2
  <2>4. TypeOK'
    BY <1>0, <1>6, <2>1, <2>2, <2>3, <2>5 DEF TypeOK, turn
  <2>. QED
    BY <1>0, <2>2, <2>4 DEF TypeInv, StepInv, turn
<1>9. ASSUME NEW s \in Servers, TrustRecorded(s) PROVE TypeInv'
  <2>1. /\ UNCHANGED <<window, toMain, toWindow, entry, aborted, approvals, gates, turn, said>>
        /\ recording' \subseteq Servers /\ trusted' \subseteq Servers /\ answer' = "trusted"
    BY <1>0, <1>9 DEF TrustRecorded, TypeOK
  <2>2. TypeOK'
    BY <1>0, <2>1 DEF TypeOK, window, turn
  <2>. QED
    BY <1>0, <2>1, <2>2 DEF TypeInv, StepInv, window, turn
<1>. QED
  BY <1>3, <1>4, <1>5, <1>7, <1>8, <1>9 DEF MainNext

(* Every step keeps the types.                                             *)
LEMMA TypesStay == ASSUME TypeInv, [Next]_vars PROVE TypeInv'
<1>1. ASSUME UNCHANGED vars PROVE TypeInv'
  BY <1>1 DEF TypeInv, TypeOK, StepInv, vars, window, main, questions, turn
<1>. QED
  BY <1>1, WindowTypes, MainTypes, LoopTypes DEF Next

(* Every state has its types, and the loop holds what its step needs.      *)
LEMMA TypesAlways == Spec => []TypeInv
<1>. QED
  BY TypesBegin, TypesStay, PTL DEF Spec

(* The store, the channels, the handlers and the loop keep their types.    *)
THEOREM ChatTypeCorrect == Spec => []TypeOK
<1>1. TypeInv => TypeOK
  BY DEF TypeInv
<1>. QED
  BY <1>1, TypesAlways, PTL

-----------------------------------------------------------------------------
(* What the steps of the loop come to.                                     *)

(* The loop, or a call it makes, waits for an answer.                      *)
Talking == {"askTrust", "askApproval", "calling"}

(* It goes on without a word, and holds no call.                           *)
Quiet ==
    /\ toWindow' = toWindow
    /\ UNCHANGED <<entry, aborted, questions, allowed, used, asked>>
    /\ loop.at \notin Talking \cup {"off"} /\ loop'.at \notin Talking \cup {"off"}
    /\ loop'.todo = loop.todo
    /\ loop.at \in InRound \/ loop'.at \in InRound => loop.todo = <<>>

(* It asks whether a server may be trusted.                                *)
AsksTrust ==
    /\ loop.at = "isTrusted" /\ loop'.at = "askTrust"
    /\ loop'.server = loop.server /\ loop'.todo = loop.todo /\ loop.server \in Servers
    /\ Emit(<<Card(loop.server, "pending")>>)
    /\ gates' = IF aborted THEN gates ELSE gates \cup {loop.server}
    /\ answer' = IF aborted THEN "cancelled" ELSE "none"
    /\ UNCHANGED <<approvals, recording, entry, aborted, allowed, used, asked>>

(* It has the answer.                                                      *)
TrustSettled ==
    /\ loop.at = "askTrust" /\ loop'.at \in {"closing", "openSession", "servers"}
    /\ answer # "none" /\ answer' = "none"
    /\ loop'.todo = loop.todo /\ loop.server \in Servers
    /\ \E st \in {"trusted", "skipped"} : Emit(<<Card(loop.server, st)>>)
    /\ UNCHANGED <<approvals, gates, recording, entry, aborted, allowed, used, asked>>

(* It has the model's calls.                                               *)
Given(calls) ==
    /\ calls # <<>>
    /\ used' = used \cup {calls[k].id : k \in DOMAIN calls}
    /\ asked' = asked + Len(calls)
    /\ \A k \in DOMAIN calls : calls[k].id \notin used
    /\ \A j, k \in DOMAIN calls : calls[j].id = calls[k].id => j = k
    /\ loop.at = "streaming"
    /\ UNCHANGED <<entry, aborted, questions, allowed>>
RefusesAll(calls) ==
    /\ Given(calls)
    /\ loop'.at = "closing" /\ loop'.todo = loop.todo /\ Emit(Refused(calls))
TakesUp(calls) ==
    /\ Given(calls)
    /\ loop'.at = "calls" /\ loop'.todo = calls /\ toWindow' = toWindow

(* It comes to the next of them.                                           *)
Heeds ==
    /\ loop.at \in InRound /\ loop.todo # <<>>
    /\ IF loop.at = "askApproval" THEN answer # "none" /\ answer' = "none" ELSE answer' = answer
    /\ UNCHANGED <<approvals, gates, recording, entry, aborted, used, asked>>
GivesUp ==
    /\ Heeds /\ UNCHANGED allowed
    /\ loop'.at = "closing" /\ loop'.todo = loop.todo /\ Emit(Refused(loop.todo))
SettlesCall(st) ==
    /\ Heeds /\ UNCHANGED allowed
    /\ loop'.at = "calls" /\ loop'.todo = Tail(loop.todo)
    /\ Emit(<<CallPart(Head(loop.todo), st), ResultPart(Head(loop.todo))>>)
Runs ==
    /\ Heeds /\ loop.at # "calling"
    /\ loop'.at = "calling" /\ loop'.todo = loop.todo
    /\ Emit(<<CallPart(Head(loop.todo), "running")>>)
    /\ loop.at = "calls" => setup.auto \/ Head(loop.todo).on \in allowed
    /\ loop.at = "askApproval" => answer \notin {"deny", "cancelled"}
    /\ allowed' = IF loop.at = "askApproval" /\ answer = "conversation"
                  THEN allowed \cup {Head(loop.todo).on} ELSE allowed
Asks ==
    /\ loop.at = "calls" /\ loop.todo # <<>> /\ ~aborted
    /\ loop'.at = "askApproval" /\ loop'.todo = loop.todo
    /\ Emit(<<CallPart(Head(loop.todo), "pending-approval")>>)
    /\ approvals' = approvals \cup {Head(loop.todo).id} /\ answer' = "none"
    /\ UNCHANGED <<gates, recording, entry, aborted, allowed, used, asked>>

(* It is over.                                                             *)
Ends ==
    /\ loop.at = "closing" /\ loop'.at = "off" /\ loop'.todo = <<>> /\ open' = {}
    /\ Emit(<<Ended>>) /\ SettleQuestions /\ entry' = 0
    /\ UNCHANGED <<aborted, recording, allowed, used, asked>>

Finals == {"error", "denied", "done"}
LoopKind ==
    \/ Quiet \/ AsksTrust \/ TrustSettled
    \/ \E calls \in Seq(Call) : RefusesAll(calls) \/ TakesUp(calls)
    \/ GivesUp \/ (\E st \in Finals : SettlesCall(st)) \/ Runs \/ Asks \/ Ends

(* A call that is refused alone: an error and a result.                    *)
LEMMA RefusedOne == ASSUME NEW c PROVE Refused(<<c>>) = <<CallPart(c, "error"), ResultPart(c)>>
<1>1. Len(<<c>>) = 1 /\ <<c>>[1] = c /\ 2 * 1 = 2
  OBVIOUS
<1>2. \A k \in 1..2 : (k % 2 = 1 <=> k = 1) /\ (k = 1 => (k + 1) \div 2 = 1) /\ (k = 2 => k \div 2 = 1)
  OBVIOUS
<1>3. Refused(<<c>>) = [k \in 1..2 |-> IF k = 1 THEN CallPart(c, "error") ELSE ResultPart(c)]
  BY <1>1, <1>2 DEF Refused
<1>. QED
  BY <1>3

(* Every step of the loop is of one of these kinds, and leaves the window  *)
(* and the calls of the window alone.                                      *)
LEMMA LoopKinds ==
    ASSUME TypeInv, LoopGoesOn \/ Others
    PROVE  UNCHANGED <<window, toMain, said>> /\ LoopKind
<1>0. loop \in LoopType /\ LoopFits
  BY DEF TypeInv, TypeOK, StepInv, LoopType, LoopFits
<1>. DEFINE Same == UNCHANGED <<window, toMain, said>>
            Rest1 == UNCHANGED <<entry, aborted, questions, allowed, used, asked>> /\ toWindow' = toWindow
<1>1. Emit(<<>>) => toWindow' = toWindow
  BY NoParts DEF TypeInv
<1>2. \A o : Finish(o) => loop'.at = "closing" /\ loop'.todo = loop.todo /\ loop'.server = loop.server
  BY <1>0 DEF Finish, LoopType
<1>3. NextServer => loop'.at = "servers" /\ loop'.todo = loop.todo
  BY <1>0 DEF NextServer, LoopType
<1>4. \A step : GoTo(step) => loop'.at = step /\ loop'.todo = loop.todo /\ loop'.server = loop.server
  BY <1>0 DEF GoTo, LoopType
<1>5. NextCall => loop'.at = "calls" /\ loop'.todo = Tail(loop.todo)
  BY <1>0 DEF NextCall, LoopType
<1>6. \A r : loop' = [loop EXCEPT !.at = "round", !.round = r] => loop'.at = "round" /\ loop'.todo = loop.todo
  BY <1>0 DEF LoopType
<1>7. ASSUME DepsLoaded PROVE Same /\ LoopKind
  <2>1. (GoTo("servers") \/ Finish("error")) /\ loop.at = "deps" /\ Same /\ Rest1
    BY <1>1, <1>7 DEF DepsLoaded, At
  <2>. QED
    BY <1>0, <1>2, <1>4, <2>1 DEF LoopFits, InRound, LoopKind, Quiet, Talking
<1>8. ASSUME ServersStep PROVE Same /\ LoopKind
  <2>1. /\ loop.at = "servers" /\ Same /\ Rest1
        /\ \/ loop' = [loop EXCEPT !.at = "round", !.round = 1]
           \/ Finish("cancelled") \/ NextServer \/ GoTo("isTrusted") \/ GoTo("openSession")
    BY <1>8 DEF ServersStep, At
  <2>. QED
    BY <1>0, <1>2, <1>3, <1>4, <1>6, <2>1 DEF LoopFits, InRound, LoopKind, Quiet, Talking
<1>9. ASSUME TrustChecked PROVE Same /\ LoopKind
  <2>1. loop.at = "isTrusted" /\ loop.server \in Servers
    BY <1>0, <1>9 DEF TrustChecked, At, LoopFits
  <2>2. CASE loop.server \in trusted
    <3>1. GoTo("openSession") /\ Same /\ Rest1
      BY <1>1, <1>9, <2>2 DEF TrustChecked
    <3>. QED
      BY <1>0, <1>4, <2>1, <3>1 DEF LoopFits, InRound, LoopKind, Quiet, Talking
  <2>3. CASE loop.server \notin trusted
    <3>1. /\ GoTo("askTrust") /\ Emit(<<Card(loop.server, "pending")>>)
          /\ gates' = (IF aborted THEN gates ELSE gates \cup {loop.server})
          /\ answer' = (IF aborted THEN "cancelled" ELSE "none")
          /\ UNCHANGED <<approvals, recording, trusted>>
          /\ UNCHANGED <<window, toMain, entry, aborted, open, allowed, used, asked, said>>
      BY <1>9, <2>3 DEF TrustChecked
    <3>. QED
      BY <1>4, <2>1, <3>1 DEF LoopKind, AsksTrust
  <2>. QED
    BY <2>2, <2>3
<1>10. ASSUME TrustAnswered PROVE Same /\ LoopKind
  <2>1. loop.at = "askTrust" /\ loop.server \in Servers
    BY <1>0, <1>10 DEF TrustAnswered, At, LoopFits
  <2>2. Finish("cancelled") \/ GoTo("openSession") \/ NextServer
    BY <1>10 DEF TrustAnswered
  <2>3. PICK st \in {"trusted", "skipped"} : Emit(<<Card(loop.server, st)>>)
    BY <1>10 DEF TrustAnswered
  <2>4. /\ UNCHANGED <<window, toMain, entry, aborted, approvals, gates, recording, trusted,
                       open, allowed, used, asked, said>>
        /\ answer # "none" /\ answer' = "none"
    BY <1>10 DEF TrustAnswered
  <2>. QED
    BY <1>2, <1>3, <1>4, <2>1, <2>2, <2>3, <2>4 DEF LoopKind, TrustSettled
<1>11. ASSUME OpenSession \/ SessionAborted \/ SessionOpens \/ SessionFails PROVE Same /\ LoopKind
  <2>1. /\ loop.at \in {"openSession", "opening"} /\ Same /\ Rest1
        /\ GoTo("opening") \/ Finish("cancelled") \/ NextServer
    BY <1>11 DEF OpenSession, SessionAborted, SessionOpens, SessionFails, At
  <2>. QED
    BY <1>0, <1>2, <1>3, <1>4, <2>1 DEF LoopFits, InRound, LoopKind, Quiet, Talking
<1>12. ASSUME StartRound \/ StreamAborted \/ \E o \in {"error", "cancelled"} : StreamFails(o)
       PROVE  Same /\ LoopKind
  <2>1. /\ loop.at \in {"round", "streaming"} /\ Same /\ Rest1
        /\ GoTo("streaming") \/ \E o : Finish(o)
    BY <1>12 DEF StartRound, StreamAborted, StreamFails, At
  <2>. QED
    BY <1>0, <1>2, <1>4, <2>1 DEF LoopFits, InRound, LoopKind, Quiet, Talking
<1>13. ASSUME CallsDone PROVE Same /\ LoopKind
  <2>1. /\ loop.at = "calls" /\ loop.todo = <<>> /\ Same /\ Rest1
        /\ Finish("cancelled") \/ loop' = [loop EXCEPT !.at = "round", !.round = loop.round + 1]
    BY <1>13 DEF CallsDone, At
  <2>. QED
    BY <1>2, <1>6, <2>1 DEF InRound, LoopKind, Quiet, Talking
<1>14. ASSUME NEW s \in Servers, CloseSession(s) PROVE Same /\ LoopKind
  <2>1. loop.at = "closing" /\ loop' = loop /\ Same /\ Rest1
    BY <1>14 DEF CloseSession, At
  <2>. QED
    BY <2>1 DEF InRound, LoopKind, Quiet, Talking
<1>15. ASSUME TurnEnds PROVE Same /\ LoopKind
  <2>1. /\ loop.at = "closing" /\ loop' = [loop EXCEPT !.at = "off", !.todo = <<>>] /\ Emit(<<Ended>>)
        /\ SettleQuestions /\ entry' = 0 /\ open' = {}
        /\ UNCHANGED <<window, toMain, aborted, recording, trusted, allowed, used, asked, said>>
    BY <1>15 DEF TurnEnds, At
  <2>2. loop'.at = "off" /\ loop'.todo = <<>>
    BY <1>0, <2>1 DEF LoopType
  <2>. QED
    BY <2>1, <2>2 DEF LoopKind, Ends
<1>16. ASSUME StartCall PROVE Same /\ LoopKind
  <2>. DEFINE c == Head(loop.todo)
  <2>1. loop.at = "calls" /\ loop.at \in InRound /\ loop.todo # <<>> /\ loop.at # "askApproval" /\ loop.at # "calling"
    BY <1>16 DEF StartCall, At, InRound
  <2>2. UNCHANGED <<window, toMain, entry, aborted, open, allowed, used, asked, said>>
    BY <1>16 DEF StartCall
  <2>3. \/ CancelCalls /\ UNCHANGED questions
        \/ NextCall /\ Emit(Refused(<<c>>)) /\ UNCHANGED questions
        \/ (setup.auto \/ c.on \in allowed) /\ RunTool /\ UNCHANGED questions
        \/ /\ GoTo("askApproval") /\ Emit(<<CallPart(c, "pending-approval")>>) /\ ~aborted
           /\ approvals' = approvals \cup {c.id} /\ answer' = "none"
           /\ UNCHANGED <<gates, recording, trusted>>
    BY <1>16 DEF StartCall
  <2>4. CASE CancelCalls /\ UNCHANGED questions
    BY <1>2, <2>1, <2>2, <2>4 DEF CancelCalls, LoopKind, GivesUp, Heeds, questions
  <2>5. CASE NextCall /\ Emit(Refused(<<c>>)) /\ UNCHANGED questions
    <3>1. SettlesCall("error")
      BY <1>5, <2>1, <2>2, <2>5, RefusedOne DEF SettlesCall, Heeds, questions
    <3>. QED
      BY <2>2, <3>1 DEF LoopKind, Finals
  <2>6. CASE (setup.auto \/ c.on \in allowed) /\ RunTool /\ UNCHANGED questions
    BY <1>4, <2>1, <2>2, <2>6 DEF RunTool, LoopKind, Runs, Heeds, questions
  <2>7. CASE /\ GoTo("askApproval") /\ Emit(<<CallPart(c, "pending-approval")>>) /\ ~aborted
             /\ approvals' = approvals \cup {c.id} /\ answer' = "none"
             /\ UNCHANGED <<gates, recording, trusted>>
    BY <1>4, <2>1, <2>2, <2>7 DEF LoopKind, Asks
  <2>. QED
    BY <2>3, <2>4, <2>5, <2>6, <2>7
<1>17. ASSUME CallAnswered PROVE Same /\ LoopKind
  <2>. DEFINE c == Head(loop.todo)
  <2>1. loop.at = "askApproval" /\ loop.at \in InRound /\ loop.todo # <<>> /\ loop.at # "calling"
    BY <1>0, <1>17 DEF CallAnswered, At, InRound, LoopFits
  <2>2. /\ UNCHANGED <<window, toMain, entry, aborted, approvals, gates, recording, trusted,
                       open, used, asked, said>>
        /\ answer # "none" /\ answer' = "none"
    BY <1>17 DEF CallAnswered
  <2>3. \/ CancelCalls /\ UNCHANGED allowed
        \/ NextCall /\ Emit(<<CallPart(c, "denied"), ResultPart(c)>>) /\ UNCHANGED allowed
        \/ RunTool /\ answer \notin {"deny", "cancelled"}
             /\ allowed' = (IF answer = "conversation" THEN allowed \cup {c.on} ELSE allowed)
    BY <1>17 DEF CallAnswered
  <2>4. CASE CancelCalls /\ UNCHANGED allowed
    BY <1>2, <2>1, <2>2, <2>4 DEF CancelCalls, LoopKind, GivesUp, Heeds
  <2>5. CASE NextCall /\ Emit(<<CallPart(c, "denied"), ResultPart(c)>>) /\ UNCHANGED allowed
    <3>1. SettlesCall("denied")
      BY <1>5, <2>1, <2>2, <2>5 DEF SettlesCall, Heeds
    <3>. QED
      BY <2>2, <3>1 DEF LoopKind, Finals
  <2>6. CASE RunTool /\ answer \notin {"deny", "cancelled"}
             /\ allowed' = (IF answer = "conversation" THEN allowed \cup {c.on} ELSE allowed)
    BY <1>4, <2>1, <2>2, <2>6 DEF RunTool, LoopKind, Runs, Heeds
  <2>. QED
    BY <2>3, <2>4, <2>5, <2>6
<1>18. ASSUME NEW status \in {"done", "error"}, ToolAnswers(status) PROVE Same /\ LoopKind
  <2>1. /\ loop.at = "calling" /\ loop.at \in InRound /\ loop.todo # <<>> /\ loop.at # "askApproval"
        /\ NextCall /\ Emit(<<CallPart(Head(loop.todo), status), ResultPart(Head(loop.todo))>>)
        /\ UNCHANGED <<window, toMain, entry, aborted, questions, open, allowed, used, asked, said>>
    BY <1>0, <1>18 DEF ToolAnswers, At, InRound, LoopFits
  <2>2. SettlesCall(status)
    BY <1>5, <2>1 DEF SettlesCall, Heeds, questions
  <2>. QED
    BY <2>1, <2>2 DEF LoopKind, Finals
<1>19. ASSUME ToolAborted PROVE Same /\ LoopKind
  <2>1. loop.at = "calling" /\ loop.at \in InRound /\ loop.todo # <<>> /\ loop.at # "askApproval"
    BY <1>0, <1>19 DEF ToolAborted, At, InRound, LoopFits
  <2>. QED
    BY <1>2, <1>19, <2>1 DEF ToolAborted, CancelCalls, LoopKind, GivesUp, Heeds, questions
<1>20. ASSUME NEW a \in Answers, NEW raws, raws = RawsOf(a), ModelAnswers(raws, OnsOf(a))
       PROVE  Same /\ LoopKind
  <2>1. PICK ids, calls :
          /\ ids \in Named(raws)
          /\ calls = CallsOf(a, ids)
          /\ used' = used \cup {ids[k] : k \in DOMAIN raws}
          /\ \/ calls = <<>> /\ Finish("done") /\ Emit(<<>>)
             \/ calls # <<>> /\ Finish("done") /\ Emit(Refused(calls))
             \/ /\ calls # <<>> /\ Emit(<<>>)
                /\ loop' = [loop EXCEPT !.at = "calls", !.todo = calls]
    BY <1>20 DEF ModelAnswers, CallsOf
  <2>2. /\ loop.at = "streaming" /\ asked' = asked + Len(raws)
        /\ UNCHANGED <<window, toMain, entry, aborted, questions, open, allowed, said>>
    BY <1>20 DEF ModelAnswers, At
  <2>3. /\ Len(raws) \in Nat /\ DOMAIN raws = 1..Len(raws) /\ calls \in Seq(Call)
        /\ Len(calls) = Len(raws) /\ DOMAIN calls = DOMAIN raws
        /\ calls = <<>> <=> Len(raws) = 0
        /\ \A k \in DOMAIN raws : calls[k].id = ids[k] /\ ids[k] \in Ids /\ ids[k] \notin used
        /\ \A j, k \in DOMAIN raws : ids[j] = ids[k] => j = k
    BY <1>20, <2>1, AnswerIs
  <2>4. CASE calls = <<>> /\ Finish("done") /\ Emit(<<>>)
    <3>1. used' = used /\ asked' = asked
      BY <2>1, <2>2, <2>3, <2>4 DEF TypeInv, TypeOK
    <3>. QED
      BY <1>0, <1>1, <1>2, <2>2, <2>4, <3>1 DEF LoopKind, Quiet, Talking, InRound, LoopFits
  <2>5. CASE calls # <<>>
    <3>1. Given(calls)
      <4>1. used' = used \cup {calls[k].id : k \in DOMAIN calls}
        BY <2>1, <2>3
      <4>. QED
        BY <2>2, <2>3, <2>5, <4>1 DEF Given
    <3>2. CASE Finish("done") /\ Emit(Refused(calls))
      BY <1>2, <2>2, <2>3, <3>1, <3>2 DEF LoopKind, RefusesAll
    <3>3. CASE Emit(<<>>) /\ loop' = [loop EXCEPT !.at = "calls", !.todo = calls]
      <4>1. loop'.at = "calls" /\ loop'.todo = calls
        BY <1>0, <3>3 DEF LoopType
      <4>. QED
        BY <1>1, <2>2, <2>3, <3>1, <3>3, <4>1 DEF LoopKind, TakesUp
    <3>. QED
      BY <2>1, <2>5, <3>2, <3>3
  <2>. QED
    BY <2>1, <2>4, <2>5
<1>. QED
  BY <1>7, <1>8, <1>9, <1>10, <1>11, <1>12, <1>13, <1>14, <1>15, <1>16, <1>17, <1>18, <1>19, <1>20
  DEF LoopGoesOn, Others, RawsOf, OnsOf

-----------------------------------------------------------------------------
(* The turn.                                                               *)

(* Messages other than aichat:send come and go.                            *)
LEMMA OtherMessages ==
    ASSUME TypeInv, OneSend, sends' = sends,
           \/ toMain' = toMain
           \/ \E m \in CallMessage : m.op # "send" /\ toMain' = Append(toMain, m)
           \/ toMain # <<>> /\ Head(toMain).op # "send" /\ toMain' = Tail(toMain)
    PROVE  (Sending' <=> Sending) /\ OneSend'
<1>0. toMain \in Seq(CallMessage)
  BY DEF TypeInv, TypeOK
<1>1. CASE toMain' = toMain
  BY <1>1 DEF Sending, OneSend
<1>2. ASSUME NEW m \in CallMessage, m.op # "send", toMain' = Append(toMain, m)
      PROVE  (Sending' <=> Sending) /\ OneSend'
  <2>1. /\ \A k \in DOMAIN toMain : k \in DOMAIN toMain' /\ toMain'[k] = toMain[k]
        /\ \A k \in DOMAIN toMain' : k \in DOMAIN toMain \/ toMain'[k] = m
    BY <1>0, <1>2, Appended
  <2>2. Sending' <=> Sending
    BY <1>2, <2>1 DEF Sending
  <2>3. OneSend'
    BY <1>2, <2>1 DEF OneSend
  <2>. QED
    BY <2>2, <2>3
<1>3. CASE toMain # <<>> /\ Head(toMain).op # "send" /\ toMain' = Tail(toMain)
  <2>1. /\ \A k \in DOMAIN toMain' : k + 1 \in DOMAIN toMain /\ toMain'[k] = toMain[k + 1]
        /\ \A k \in DOMAIN toMain : k # 1 => k - 1 \in DOMAIN toMain' /\ toMain'[k - 1] = toMain[k]
        /\ toMain[1].op # "send" /\ DOMAIN toMain' \subseteq Int
    BY <1>0, <1>3, Rest
  <2>2. Sending' <=> Sending
    BY <2>1 DEF Sending
  <2>3. OneSend'
    <3>1. SUFFICES ASSUME NEW k \in DOMAIN toMain', NEW j \in DOMAIN toMain', toMain'[k].op = "send",
                          toMain'[j].op = "send"
                   PROVE  toMain'[k].m = sends /\ j = k
      BY DEF OneSend
    <3>2. toMain[k + 1].m = sends /\ j + 1 = k + 1
      BY <2>1, <3>1 DEF OneSend
    <3>. QED
      BY <2>1, <3>2
  <2>. QED
    BY <2>2, <2>3
<1>. QED
  BY <1>1, <1>2, <1>3

(* The first state has no turn.                                            *)
LEMMA TurnBegins == ASSUME Init PROVE TurnInv
<1>1. loop.at = "off" /\ DOMAIN toMain = {} /\ DOMAIN toWindow = {} /\ DOMAIN shown = {}
  BY DEF Init, Off
<1>. QED
  BY <1>1 DEF Init, TurnInv, TabInv, SendInv, EventInv, EntryInv, Sending, OneSend, Settled

(* The window.                                                             *)
LEMMA WindowTurn == ASSUME TypeInv, TurnInv, WindowNext PROVE TurnInv'
<1>0. /\ toMain \in Seq(CallMessage) /\ toWindow \in Seq(EventMessage) /\ alive \in BOOLEAN
      /\ tab \in {"idle", "preparing", "asked", "streaming"}
      /\ tab # "idle" \/ toWindow # <<>> => sends \in Sends
  BY DEF TypeInv, TypeOK, StepInv
<1>. USE DEF TurnInv
<1>1. ASSUME SendPrompt PROVE TurnInv'
  <2>1. /\ Settled /\ tab' = "preparing" /\ shown' = <<>> /\ cards' = NoCards
        /\ UNCHANGED <<alive, granted, setup, toMain, toWindow, main, said>>
    BY <1>1 DEF SendPrompt, TabInv
  <2>2. ~Sending' /\ DOMAIN shown' = {} /\ Settled'
    BY <2>1 DEF Sending, Settled, main, turn
  <2>. QED
    BY <2>1, <2>2 DEF TabInv, SendInv, EventInv, EntryInv, Settled, Sending, OneSend, main, turn
<1>2. ASSUME Prepared PROVE TurnInv'
  <2>1. /\ Settled /\ tab' = "asked" /\ toMain' = Append(toMain, Send(sends, granted)) /\ sends \in Sends
        /\ DOMAIN shown = {} /\ cards = NoCards
        /\ UNCHANGED <<alive, sends, shown, cards, granted, setup, toWindow, main, said>>
    BY <1>0, <1>2 DEF Prepared, TabInv
  <2>2. /\ Send(sends, granted).op = "send" /\ Send(sends, granted).m = sends
        /\ Send(sends, granted) \in CallMessage
    BY <2>1, CallFields, CallMessages DEF TypeInv, TypeOK
  <2>3. /\ \A k \in DOMAIN toMain : k \in DOMAIN toMain' /\ toMain'[k] = toMain[k]
        /\ \A k \in DOMAIN toMain' : k \in DOMAIN toMain \/ k = Len(toMain) + 1
        /\ Len(toMain) + 1 \in DOMAIN toMain' /\ toMain'[Len(toMain) + 1] = Send(sends, granted)
    BY <1>0, <2>1, <2>2, Appended
  <2>4. \A k \in DOMAIN toMain : toMain[k].op # "send"
    BY <2>1 DEF Settled, Sending
  <2>5. OneSend' /\ Sending'
    BY <2>1, <2>2, <2>3, <2>4 DEF OneSend, Sending
  <2>6. loop'.at = "off" /\ entry' = 0 /\ toWindow' = <<>> /\ open' = open
    BY <2>1 DEF Settled, main, turn
  <2>. QED
    BY <2>1, <2>5, <2>6 DEF TabInv, SendInv, EventInv, EntryInv, Settled, main, turn
<1>3. ASSUME PrepareFails PROVE TurnInv'
  <2>1. /\ Settled /\ tab' = "idle"
        /\ UNCHANGED <<alive, sends, shown, cards, granted, setup, toMain, toWindow, main, said>>
    BY <1>3 DEF PrepareFails, TabInv
  <2>. QED
    BY <2>1 DEF TabInv, SendInv, EventInv, EntryInv, Settled, Sending, OneSend, main, turn
<1>4. ASSUME tab = "streaming", sends' = sends,
             toMain' = toMain \/ \E m \in CallMessage : m.op # "send" /\ toMain' = Append(toMain, m),
             UNCHANGED <<tab, alive, toWindow, main>>
      PROVE  TurnInv'
  <2>1. ~Sending' /\ OneSend'
    BY <1>4, OtherMessages DEF SendInv
  <2>. QED
    BY <1>4, <2>1 DEF TabInv, SendInv, EventInv, EntryInv, Settled, main, turn
<1>5. ASSUME Stop PROVE TurnInv'
  <2>1. Cancel(sends) \in CallMessage /\ Cancel(sends).op # "send"
    BY <1>0, <1>5, CallMessages, CallFields DEF Stop
  <2>. QED
    BY <1>4, <1>5, <2>1 DEF Stop, window
<1>6. ASSUME NEW id \in DOMAIN shown, NEW d \in Decisions, AnswerCall(id, d) PROVE TurnInv'
  <2>1. ApproveTool(sends, id, d) \in CallMessage /\ ApproveTool(sends, id, d).op # "send"
    BY <1>0, <1>6, CallMessages, CallFields DEF AnswerCall, TypeInv, TypeOK
  <2>. QED
    BY <1>4, <1>6, <2>1 DEF AnswerCall
<1>7. ASSUME NEW s \in Servers, NEW d \in {"trust", "skip"}, AnswerTrust(s, d) PROVE TurnInv'
  <2>1. ResolveTrust(sends, s, d) \in CallMessage /\ ResolveTrust(sends, s, d).op # "send"
    BY <1>0, <1>7, CallMessages, CallFields DEF AnswerTrust
  <2>. QED
    BY <1>4, <1>7, <2>1 DEF AnswerTrust, window
<1>8. ASSUME ClearConversation PROVE TurnInv'
  BY <1>8 DEF ClearConversation, TabInv, SendInv, EventInv, EntryInv, Settled, Sending, OneSend, main, turn
<1>9. ASSUME CloseTab PROVE TurnInv'
  <2>1. CASE tab = "streaming"
    <3>1. /\ tab' = "idle" /\ toMain' = Append(toMain, Cancel(sends)) /\ alive' = FALSE
          /\ UNCHANGED <<sends, toWindow, main>>
      BY <1>9, <2>1 DEF CloseTab
    <3>2. Cancel(sends) \in CallMessage /\ Cancel(sends).op # "send"
      BY <1>0, <2>1, CallMessages, CallFields
    <3>3. ~Sending' /\ OneSend'
      BY <2>1, <3>1, <3>2, OtherMessages DEF SendInv
    <3>. QED
      BY <2>1, <3>1, <3>3 DEF TabInv, SendInv, EventInv, EntryInv, Settled, main, turn
  <2>2. CASE tab # "streaming"
    <3>1. UNCHANGED <<tab, toMain, sends, shown, cards, toWindow, main>> /\ alive' = FALSE
      BY <1>9, <2>2 DEF CloseTab
    <3>. QED
      BY <2>2, <3>1 DEF TabInv, SendInv, EventInv, EntryInv, Settled, Sending, OneSend, main, turn
  <2>. QED
    BY <2>1, <2>2
<1>10. ASSUME Delivered
       PROVE  /\ toWindow # <<>> /\ ~Sending /\ Head(toWindow) = toWindow[1]
              /\ \A k \in DOMAIN toWindow' : k + 1 \in DOMAIN toWindow /\ toWindow'[k] = toWindow[k + 1]
                    /\ k + 1 # 1 /\ (k + 1 = Len(toWindow) => k = Len(toWindow'))
              /\ 1 \in DOMAIN toWindow /\ (1 = Len(toWindow) => toWindow' = <<>>)
              /\ sends \in Sends
  <2>1. toWindow # <<>> /\ ~Sending
    BY <1>10 DEF Delivered, SendInv
  <2>2. /\ toWindow' \in Seq(EventMessage) /\ Len(toWindow) \in Nat /\ Len(toWindow') = Len(toWindow) - 1
        /\ DOMAIN toWindow' = 1..(Len(toWindow) - 1)
        /\ Head(toWindow) = toWindow[1] /\ 1 \in DOMAIN toWindow
        /\ \A k \in DOMAIN toWindow' : k + 1 \in DOMAIN toWindow /\ toWindow'[k] = toWindow[k + 1]
        /\ 1 = Len(toWindow) => toWindow' = <<>>
    BY <1>0, <1>10, Rest DEF Delivered
  <2>. QED
    BY <1>0, <2>1, <2>2
<1>11. ASSUME Delivered, UNCHANGED main, tab' # "asked"
       PROVE  EventInv' /\ (sends' = sends => EntryInv')
  <2>2. ASSUME NEW k \in DOMAIN toWindow', toWindow'[k].type = "reply" PROVE FALSE
    BY <1>10, <1>11, <2>2 DEF EventInv
  <2>3. ASSUME NEW k \in DOMAIN toWindow', toWindow'[k].type = "end"
        PROVE  k = Len(toWindow') /\ loop'.at = "off"
    BY <1>10, <1>11, <2>3 DEF EventInv, main, turn
  <2>. QED
    BY <1>11, <2>2, <2>3 DEF EventInv, EntryInv, main, turn
<1>12. ASSUME ReplyArrives PROVE TurnInv'
  <2>1. /\ Delivered /\ toWindow[1].type = "reply" /\ tab = "asked"
        /\ UNCHANGED <<alive, sends, shown, cards, granted, setup, main, said>>
    BY <1>10, <1>12 DEF ReplyArrives, EventInv
  <2>2. /\ alive => tab' = "streaming" /\ toMain' = toMain
        /\ ~alive => tab' = "idle" /\ toMain' = Append(toMain, Cancel(Head(toWindow).m))
    BY <1>12 DEF ReplyArrives
  <2>3. Cancel(Head(toWindow).m) \in CallMessage /\ Cancel(Head(toWindow).m).op # "send"
    <3>1. Head(toWindow).m \in Sends
      BY <1>0, <1>10, <2>1, EventMessageIs
    <3>. QED
      BY <3>1, CallMessages, CallFields
  <2>4. ~Sending' /\ OneSend'
    BY <1>10, <2>1, <2>2, <2>3, OtherMessages DEF SendInv
  <2>. QED
    BY <1>11, <2>1, <2>2, <2>4 DEF TabInv, SendInv
<1>13. ASSUME PartArrives PROVE TurnInv'
  <2>1. /\ Delivered /\ toWindow[1].type \notin {"reply", "end"}
        /\ UNCHANGED <<tab, alive, sends, granted, setup, toMain, main, said>>
    BY <1>10, <1>13 DEF PartArrives
  <2>2. tab # "asked" /\ tab # "preparing" /\ ~(alive /\ tab = "idle")
    BY <1>10, <2>1 DEF SendInv, TabInv, Settled
  <2>3. ~Sending' /\ OneSend'
    BY <1>10, <2>1, OtherMessages DEF SendInv
  <2>. QED
    BY <1>11, <2>1, <2>2, <2>3 DEF TabInv, SendInv
<1>14. ASSUME EndArrives PROVE TurnInv'
  <2>1. /\ Delivered /\ toWindow[1].type = "end"
        /\ UNCHANGED <<alive, sends, shown, cards, granted, setup, toMain, main, said>>
        /\ tab' = IF tab = "streaming" THEN "idle" ELSE tab
    BY <1>10, <1>14 DEF EndArrives
  <2>2. tab # "asked" /\ tab # "preparing" /\ ~(alive /\ tab = "idle")
    BY <1>10, <2>1 DEF SendInv, TabInv, Settled
  <2>3. ~Sending' /\ OneSend'
    BY <1>10, <2>1, OtherMessages DEF SendInv
  <2>4. toWindow' = <<>> /\ loop.at = "off" /\ entry = 0
    BY <1>10, <2>1 DEF EventInv, EntryInv
  <2>5. tab' = "idle"
    BY <1>0, <2>1, <2>2
  <2>. QED
    BY <1>11, <2>1, <2>3, <2>4, <2>5 DEF TabInv, SendInv, Settled, main, turn
<1>. QED
  BY <1>1, <1>2, <1>3, <1>5, <1>6, <1>7, <1>8, <1>9, <1>12, <1>13, <1>14 DEF WindowNext, Decisions

(* The handlers.                                                           *)
LEMMA MainTurn == ASSUME TypeInv, TurnInv, MainNext PROVE TurnInv'
<1>0. /\ toMain \in Seq(CallMessage) /\ toWindow \in Seq(EventMessage)
  BY DEF TypeInv, TypeOK
<1>. USE DEF TurnInv
<1>1. ASSUME MainSends PROVE TurnInv'
  <2>1. /\ toMain # <<>> /\ Head(toMain).op = "send" /\ toMain' = Tail(toMain)
        /\ entry' = Head(toMain).m /\ aborted' = FALSE
        /\ loop' = [Off EXCEPT !.at = "deps", !.server = 1]
        /\ toWindow' = Append(toWindow, Reply(Head(toMain).m))
        /\ UNCHANGED window
    BY <1>1 DEF MainSends, Received
  <2>2. /\ Head(toMain) = toMain[1] /\ 1 \in DOMAIN toMain /\ Head(toMain) \in CallMessage
        /\ \A k \in DOMAIN toMain' : k + 1 \in DOMAIN toMain /\ toMain'[k] = toMain[k + 1] /\ k + 1 # 1
    <3>1. /\ Head(toMain) = toMain[1] /\ 1 \in DOMAIN toMain /\ toMain[1] \in CallMessage
          /\ DOMAIN toMain' = 1..(Len(toMain) - 1) /\ Len(toMain) \in Nat
          /\ \A k \in DOMAIN toMain' : k + 1 \in DOMAIN toMain /\ toMain'[k] = toMain[k + 1]
      BY <1>0, <2>1, Rest
    <3>. QED
      BY <3>1
  <2>3. Sending /\ Head(toMain).m = sends
    BY <2>1, <2>2 DEF Sending, SendInv, OneSend
  <2>4. ~Sending' /\ OneSend'
    <3>1. \A k \in DOMAIN toMain' : toMain'[k].op # "send"
      BY <2>1, <2>2 DEF SendInv, OneSend
    <3>. QED
      BY <3>1 DEF Sending, OneSend
  <2>5. tab = "asked" /\ toWindow = <<>>
    BY <2>3 DEF SendInv
  <2>6. DOMAIN toWindow' = {1} /\ toWindow'[1].type = "reply" /\ toWindow' # <<>>
    <3>1. Reply(sends).type = "reply" /\ Reply(sends) \in EventMessage
      BY <2>2, <2>3, CallMessageIs, EventFields, EventMessages
    <3>2. Append(<<>>, Reply(sends)) = <<Reply(sends)>>
      OBVIOUS
    <3>3. toWindow' = <<Reply(sends)>>
      BY <2>1, <2>3, <2>5, <3>2
    <3>. QED
      BY <3>1, <3>3
  <2>7. loop'.at = "deps"
    BY <2>1 DEF Off
  <2>. QED
    BY <2>1, <2>3, <2>4, <2>5, <2>6, <2>7 DEF TabInv, SendInv, EventInv, EntryInv, window
<1>2. ASSUME toMain # <<>>, Head(toMain).op # "send", toMain' = Tail(toMain),
             UNCHANGED <<window, toWindow, turn>>,
             UNCHANGED <<entry, aborted>> \/ (entry' = 0 /\ aborted' = TRUE)
      PROVE  TurnInv'
  <2>1. (Sending' <=> Sending) /\ OneSend'
    BY <1>2, OtherMessages DEF SendInv, window
  <2>. QED
    BY <1>2, <2>1 DEF TabInv, SendInv, EventInv, EntryInv, Settled, window, turn
<1>3. ASSUME MainApproves \/ MainResolvesTrust \/ MainCancels PROVE TurnInv'
  <2>1. /\ toMain # <<>> /\ Head(toMain).op # "send" /\ toMain' = Tail(toMain)
        /\ UNCHANGED <<window, toWindow, turn>>
        /\ UNCHANGED <<entry, aborted>> \/ (entry' = 0 /\ aborted' = TRUE)
    BY <1>3 DEF MainApproves, MainResolvesTrust, MainCancels, Received
  <2>. QED
    BY <1>2, <2>1
<1>4. ASSUME WindowGone PROVE TurnInv'
  <2>1. /\ alive' = FALSE /\ tab' = "idle" /\ toMain' = <<>> /\ toWindow' = <<>>
        /\ UNCHANGED <<sends, shown, cards, turn>>
        /\ entry' = 0 /\ (aborted' = TRUE \/ (entry = 0 /\ aborted' = aborted))
    BY <1>4 DEF WindowGone
  <2>2. ~Sending' /\ OneSend'
    BY <2>1 DEF Sending, OneSend
  <2>3. EntryInv'
    BY <2>1 DEF EntryInv, turn
  <2>. QED
    BY <2>1, <2>2, <2>3 DEF TabInv, SendInv, EventInv
<1>5. ASSUME NEW s \in Servers, TrustRecorded(s) PROVE TurnInv'
  <2>1. UNCHANGED <<window, toMain, toWindow, entry, aborted, turn>>
    BY <1>5 DEF TrustRecorded
  <2>. QED
    BY <2>1 DEF TabInv, SendInv, EventInv, EntryInv, Settled, Sending, OneSend, window, turn
<1>. QED
  BY <1>1, <1>3, <1>4, <1>5 DEF MainNext

(* What the loop emits: parts, and the end when it is over.                *)
Part(p) == p.type \in {"call", "result", "card"}

(* A step of the loop emits parts and goes on, or is the last.             *)
LEMMA LoopEmits ==
    ASSUME TypeInv, LoopKind
    PROVE  \/ /\ loop'.at # "off" /\ UNCHANGED <<entry, aborted>>
              /\ \E parts \in Seq(EventMessage) :
                    Emit(parts) /\ \A k \in DOMAIN parts : Part(parts[k])
           \/ Ends
<1>. DEFINE Goal == /\ loop'.at # "off" /\ UNCHANGED <<entry, aborted>>
                    /\ \E parts \in Seq(EventMessage) :
                          Emit(parts) /\ \A k \in DOMAIN parts : Part(parts[k])
<1>0. /\ TypeOK /\ toWindow \in Seq(EventMessage) /\ loop.todo \in Seq(Call)
      /\ \A c, st : Part(CallPart(c, st)) /\ \A s : Part(Card(s, st)) /\ Part(ResultPart(c))
  BY EventFields DEF TypeInv, TypeOK, Part
<1>1. ASSUME NEW p \in EventMessage, Part(p), Emit(<<p>>), loop'.at # "off", UNCHANGED <<entry, aborted>>
      PROVE  Goal
  <2>1. <<p>> \in Seq(EventMessage) /\ \A k \in DOMAIN <<p>> : Part(<<p>>[k])
    BY <1>1
  <2>. QED
    BY <1>1, <2>1
<1>2. ASSUME NEW p \in EventMessage, NEW r \in EventMessage, Part(p), Part(r), Emit(<<p, r>>),
             loop'.at # "off", UNCHANGED <<entry, aborted>>
      PROVE  Goal
  <2>1. <<p, r>> \in Seq(EventMessage) /\ \A k \in DOMAIN <<p, r>> : Part(<<p, r>>[k])
    BY <1>2
  <2>. QED
    BY <1>2, <2>1
<1>3. ASSUME NEW calls \in Seq(Call), Emit(Refused(calls)), loop'.at # "off", UNCHANGED <<entry, aborted>>
      PROVE  Goal
  <2>1. Refused(calls) \in Seq(EventMessage)
    BY RefusedParts
  <2>2. ASSUME NEW k \in DOMAIN Refused(calls) PROVE Part(Refused(calls)[k])
    <3>1. PICK j \in DOMAIN calls : Refused(calls)[k] = CallPart(calls[j], "error")
                                    \/ Refused(calls)[k] = ResultPart(calls[j])
      BY RefusedParts
    <3>. QED
      BY <1>0, <3>1
  <2>. QED
    BY <1>3, <2>1, <2>2
<1>4. ASSUME toWindow' = toWindow, loop'.at # "off", UNCHANGED <<entry, aborted>> PROVE Goal
  <2>1. <<>> \in Seq(EventMessage) /\ \A k \in DOMAIN <<>> : Part(<<>>[k])
    OBVIOUS
  <2>2. toWindow \o <<>> = toWindow
    BY <1>0, ConcatEmptySeq
  <2>. QED
    BY <1>4, <2>1, <2>2 DEF Emit
<1>5. loop.todo # <<>> => Head(loop.todo) \in Call
  BY <1>0, Rest
<1>6. ASSUME Quiet PROVE Goal
  BY <1>4, <1>6 DEF Quiet
<1>7. ASSUME AsksTrust PROVE Goal
  BY <1>0, <1>1, <1>7, EventMessages DEF AsksTrust
<1>8. ASSUME TrustSettled PROVE Goal
  <2>1. PICK st \in {"trusted", "skipped"} : Emit(<<Card(loop.server, st)>>)
    BY <1>8 DEF TrustSettled
  <2>2. loop.server \in Servers /\ loop'.at # "off" /\ UNCHANGED <<entry, aborted>>
    BY <1>8 DEF TrustSettled
  <2>. QED
    BY <1>0, <1>1, <2>1, <2>2, EventMessages
<1>9. ASSUME NEW calls \in Seq(Call), RefusesAll(calls) \/ TakesUp(calls) PROVE Goal
  BY <1>3, <1>4, <1>9 DEF RefusesAll, TakesUp, Given
<1>10. ASSUME GivesUp PROVE Goal
  BY <1>0, <1>3, <1>10 DEF GivesUp, Heeds
<1>11. ASSUME NEW st \in Finals, SettlesCall(st) PROVE Goal
  <2>1. st \in Statuses /\ Head(loop.todo) \in Call
    BY <1>5, <1>11 DEF Finals, Statuses, SettlesCall, Heeds
  <2>. QED
    BY <1>0, <1>2, <1>11, <2>1, EventMessages DEF SettlesCall, Heeds
<1>12. ASSUME Runs \/ Asks PROVE Goal
  <2>1. loop.todo # <<>> /\ UNCHANGED <<entry, aborted>> /\ loop'.at # "off"
    BY <1>12 DEF Runs, Asks, Heeds
  <2>2. PICK st \in Statuses : Emit(<<CallPart(Head(loop.todo), st)>>)
    BY <1>12 DEF Runs, Asks, Statuses
  <2>. QED
    BY <1>0, <1>1, <1>5, <2>1, <2>2, EventMessages
<1>. QED
  BY <1>6, <1>7, <1>8, <1>9, <1>10, <1>11, <1>12 DEF LoopKind

(* The loop keeps the window and main in the same turn.                    *)
LEMMA LoopTurn == ASSUME TypeInv, TurnInv, LoopGoesOn \/ Others PROVE TurnInv'
<1>0. /\ toWindow \in Seq(EventMessage) /\ loop.at # "off" /\ UNCHANGED <<window, toMain>> /\ LoopKind
  BY LoopKinds DEF TypeInv, TypeOK, LoopKind, Quiet, AsksTrust, TrustSettled, RefusesAll, TakesUp, Given,
     GivesUp, SettlesCall, Runs, Asks, Ends, Heeds, InRound
<1>. USE DEF TurnInv
<1>1. tab # "preparing" /\ ~(alive /\ tab = "idle") /\ ~Sending
  BY <1>0 DEF TabInv, Settled, SendInv
<1>2. TabInv'
  BY <1>0, <1>1 DEF TabInv, window
<1>3. ~Sending' /\ OneSend'
  BY <1>0, <1>1 DEF Sending, OneSend, SendInv, window
<1>4. \A k \in DOMAIN toWindow : toWindow[k].type # "end"
  BY <1>0 DEF EventInv
<1>5. ASSUME NEW parts \in Seq(EventMessage), Emit(parts), \A k \in DOMAIN parts : parts[k].type # "reply"
      PROVE  /\ SendInv'
             /\ \A k \in DOMAIN toWindow' : toWindow'[k].type = "reply" => k = 1 /\ tab' = "asked"
             /\ \A k \in DOMAIN toWindow' : toWindow'[k].type = "end" =>
                   alive /\ \E j \in DOMAIN parts : k = Len(toWindow) + j /\ parts[j].type = "end"
             /\ alive => Len(toWindow') = Len(toWindow) + Len(parts)
  <2>1. CASE ~alive
    <3>1. toWindow' = toWindow
      BY <1>5, <2>1 DEF Emit
    <3>. QED
      BY <1>0, <1>3, <1>4, <2>1, <3>1 DEF SendInv, EventInv, window
  <2>2. CASE alive
    <3>2. /\ toWindow' \in Seq(EventMessage) /\ Len(toWindow') = Len(toWindow) + Len(parts)
          /\ \A k \in DOMAIN toWindow : k \in DOMAIN toWindow' /\ toWindow'[k] = toWindow[k]
          /\ \A k \in DOMAIN parts : toWindow'[Len(toWindow) + k] = parts[k]
          /\ \A k \in DOMAIN toWindow' : k \in DOMAIN toWindow \/ \E j \in DOMAIN parts : k = Len(toWindow) + j
          /\ DOMAIN toWindow = 1..Len(toWindow) /\ Len(toWindow) \in Nat
      BY <1>5, <2>2, Emitted
    <3>3. toWindow # <<>> => 1 \in DOMAIN toWindow
      BY <1>0
    <3>4. toWindow # <<>> => toWindow' # <<>>
      BY <3>2, <3>3
    <3>. QED
      BY <1>0, <1>3, <1>4, <1>5, <2>2, <3>2, <3>3, <3>4 DEF SendInv, EventInv, window
  <2>. QED
    BY <2>1, <2>2
<1>6. CASE /\ loop'.at # "off" /\ UNCHANGED <<entry, aborted>>
           /\ \E parts \in Seq(EventMessage) : Emit(parts) /\ \A k \in DOMAIN parts : Part(parts[k])
  <2>1. PICK parts \in Seq(EventMessage) : Emit(parts) /\ \A k \in DOMAIN parts : Part(parts[k])
    BY <1>6
  <2>2. SendInv' /\ EventInv'
    BY <1>5, <2>1 DEF EventInv, Part
  <2>3. EntryInv'
    BY <1>0, <1>6 DEF EntryInv, window
  <2>. QED
    BY <1>2, <2>2, <2>3
<1>7. CASE Ends
  <2>1. /\ <<Ended>> \in Seq(EventMessage) /\ Emit(<<Ended>>) /\ Len(<<Ended>>) = 1
        /\ \A k \in DOMAIN <<Ended>> : <<Ended>>[k].type # "reply" /\ k = 1
    BY <1>7, EventMessages, EventFields DEF Ends
  <2>2. SendInv' /\ EventInv'
    BY <1>0, <1>5, <1>7, <2>1 DEF EventInv, Ends
  <2>3. EntryInv'
    BY <1>7 DEF EntryInv, Ends
  <2>. QED
    BY <1>2, <2>2, <2>3
<1>. QED
  BY <1>0, <1>6, <1>7, LoopEmits

(* So does every step.                                                     *)
LEMMA TurnStays == ASSUME TypeInv, TurnInv, [Next]_vars PROVE TurnInv'
<1>1. ASSUME UNCHANGED vars PROVE TurnInv'
  BY <1>1 DEF TurnInv, TabInv, SendInv, EventInv, EntryInv, Settled, Sending, OneSend, vars, window,
     main, questions, turn
<1>. QED
  BY <1>1, WindowTurn, MainTurn, LoopTurn DEF Next

-----------------------------------------------------------------------------
(* The question.                                                           *)

(* The first state has no question.                                        *)
LEMMA AskBegins == ASSUME Init PROVE AskInv
BY DEF Init, AskInv, Off

(* Every step keeps the one question and the one answer.                   *)
LEMMA AskStays == ASSUME TypeInv, TurnInv, AskInv, [Next]_vars PROVE AskInv'
<1>0. toMain # <<>> => Head(toMain) \in CallMessage /\ Head(toMain) = toMain[1] /\ 1 \in DOMAIN toMain
  BY Rest DEF TypeInv, TypeOK
<1>1. ASSUME UNCHANGED <<loop, approvals, gates, recording, answer>> PROVE AskInv'
  BY <1>1 DEF AskInv
<1>2. ASSUME UNCHANGED vars \/ WindowNext PROVE AskInv'
  <2>1. UNCHANGED main
    BY <1>2 DEF vars, WindowNext, SendPrompt, Prepared, PrepareFails, Stop, CloseTab, ClearConversation,
       AnswerCall, AnswerTrust, ReplyArrives, PartArrives, EndArrives
  <2>. QED
    BY <1>1, <2>1 DEF main, questions, turn
<1>3. ASSUME MainSends PROVE AskInv'
  <2>1. Sending
    BY <1>0, <1>3 DEF MainSends, Received, Sending
  <2>2. loop.at = "off"
    BY <2>1 DEF TurnInv, SendInv
  <2>3. loop'.at = "deps"
    BY <1>3 DEF MainSends, Off
  <2>. QED
    BY <1>3, <2>2, <2>3 DEF MainSends, AskInv
<1>4. ASSUME MainApproves PROVE AskInv'
  <2>1. /\ Head(toMain).decision \in Decisions
        /\ \/ UNCHANGED <<approvals, answer>>
           \/ /\ Head(toMain).id \in approvals /\ approvals' = approvals \ {Head(toMain).id}
              /\ answer' = Head(toMain).decision
        /\ UNCHANGED <<gates, recording, loop>>
    <3>1. Head(toMain).decision \in Decisions
      BY <1>0, <1>4, CallMessageIs DEF MainApproves, Received
    <3>. QED
      BY <1>4, <3>1 DEF MainApproves, turn
  <2>2. CASE Head(toMain).id \in approvals /\ approvals' = approvals \ {Head(toMain).id}
             /\ answer' = Head(toMain).decision
    <3>1. loop.at = "askApproval" /\ approvals' = {}
      BY <2>2 DEF AskInv
    <3>. QED
      BY <2>1, <2>2, <3>1 DEF AskInv
  <2>. QED
    BY <1>1, <2>1, <2>2
<1>5. ASSUME MainResolvesTrust PROVE AskInv'
  <2>1. /\ UNCHANGED <<approvals, loop>>
        /\ \/ UNCHANGED <<gates, recording, answer>>
           \/ /\ Head(toMain).server \in gates /\ gates' = gates \ {Head(toMain).server}
              /\ \/ recording' = recording \cup {Head(toMain).server} /\ answer' = answer
                 \/ recording' = recording /\ answer' = "skip"
    <3>1. Head(toMain).decision \in {"trust", "skip"}
      BY <1>0, <1>5, CallMessageIs DEF MainResolvesTrust, Received
    <3>. QED
      BY <1>5, <3>1 DEF MainResolvesTrust, turn
  <2>2. CASE /\ Head(toMain).server \in gates /\ gates' = gates \ {Head(toMain).server}
             /\ \/ recording' = recording \cup {Head(toMain).server} /\ answer' = answer
                \/ recording' = recording /\ answer' = "skip"
    <3>1. loop.at = "askTrust" /\ gates' = {} /\ Head(toMain).server = loop.server
      BY <2>2 DEF AskInv
    <3>. QED
      BY <2>1, <2>2, <3>1 DEF AskInv
  <2>. QED
    BY <1>1, <2>1, <2>2
<1>6. ASSUME NEW s \in Servers, TrustRecorded(s) PROVE AskInv'
  <2>1. /\ s \in recording /\ recording' = recording \ {s} /\ answer' = "trusted"
        /\ UNCHANGED <<approvals, gates, loop>>
    BY <1>6 DEF TrustRecorded, turn
  <2>2. loop.at = "askTrust" /\ recording' = {}
    BY <2>1 DEF AskInv
  <2>. QED
    BY <2>1, <2>2 DEF AskInv
<1>7. ASSUME MainCancels \/ WindowGone PROVE AskInv'
  <2>1. /\ UNCHANGED <<recording, loop>>
        /\ SettleQuestions \/ UNCHANGED <<approvals, gates, answer>>
    BY <1>7 DEF MainCancels, WindowGone, turn
  <2>. QED
    BY <2>1 DEF AskInv, SettleQuestions
<1>8. ASSUME LoopGoesOn \/ Others PROVE AskInv'
  <2>0. LoopKind
    BY <1>8, LoopKinds
  <2>1. ASSUME Quiet PROVE AskInv'
    BY <2>1 DEF Quiet, AskInv, Talking, questions
  <2>2. ASSUME AsksTrust PROVE AskInv'
    BY <2>2 DEF AsksTrust, AskInv
  <2>3. ASSUME TrustSettled PROVE AskInv'
    BY <2>3 DEF TrustSettled, AskInv
  <2>4. ASSUME NEW calls, RefusesAll(calls) \/ TakesUp(calls) PROVE AskInv'
    BY <2>4 DEF RefusesAll, TakesUp, Given, AskInv, questions
  <2>5. ASSUME NEW st, GivesUp \/ SettlesCall(st) \/ Runs PROVE AskInv'
    BY <2>5 DEF GivesUp, SettlesCall, Runs, Heeds, InRound, AskInv
  <2>6. ASSUME Asks PROVE AskInv'
    BY <2>6 DEF Asks, AskInv
  <2>7. ASSUME Ends PROVE AskInv'
    BY <2>7 DEF Ends, SettleQuestions, AskInv
  <2>. QED
    BY <2>0, <2>1, <2>2, <2>3, <2>4, <2>5, <2>6, <2>7 DEF LoopKind
<1>. QED
  BY <1>2, <1>3, <1>4, <1>5, <1>6, <1>7, <1>8 DEF Next, MainNext

-----------------------------------------------------------------------------
(* The ids.                                                                *)

(* The first state has no ids.                                             *)
LEMMA IdsBegin == ASSUME Init PROVE IdInv
<1>1. DOMAIN loop.todo = {} /\ DOMAIN toWindow = {} /\ DOMAIN shown = {} /\ used = {} /\ asked = 0
  BY DEF Init, Off
<1>. QED
  BY <1>1, FS_EmptySet DEF IdInv, CallsKnown, PartsKnown, ShownKnown

(* Calls of which each has an id of its own have as many ids.              *)
LEMMA AsManyIds ==
    ASSUME NEW calls \in Seq(Call), \A j, k \in DOMAIN calls : calls[j].id = calls[k].id => j = k
    PROVE  LET T == {calls[k].id : k \in DOMAIN calls}
           IN  IsFiniteSet(T) /\ Cardinality(T) = Len(calls)
<1>. DEFINE n == Len(calls)
            T == {calls[k].id : k \in DOMAIN calls}
            f == [k \in 1..n |-> calls[k].id]
<1>1. n \in Nat /\ DOMAIN calls = 1..n
  OBVIOUS
<1>2. f \in Surjection(1..n, T) /\ f \in Injection(1..n, T)
  <2>1. f \in [1..n -> T] /\ \A t \in T : \E k \in 1..n : f[k] = t
    BY <1>1
  <2>2. \A j, k \in 1..n : f[j] = f[k] => j = k
    BY <1>1
  <2>. QED
    BY <2>1, <2>2 DEF Surjection, Injection, IsInjective
<1>3. IsFiniteSet(1..n) /\ Cardinality(1..n) = n
  BY <1>1, FS_Interval
<1>. HIDE DEF T, f, n
<1>4. IsFiniteSet(T) /\ Cardinality(T) = n
  BY <1>2, <1>3, FS_Surjection
<1>. QED
  BY <1>4 DEF T, n

(* The window: what it shows of a call is what it was told.                *)
LEMMA WindowIds == ASSUME TypeInv, TurnInv, IdInv, WindowNext PROVE IdInv'
<1>0. toWindow \in Seq(EventMessage) /\ DOMAIN shown \subseteq Ids
  BY DEF TypeInv, TypeOK
<1>1. UNCHANGED main
  BY DEF WindowNext, SendPrompt, Prepared, PrepareFails, Stop, CloseTab, ClearConversation,
       AnswerCall, AnswerTrust, ReplyArrives, PartArrives, EndArrives
<1>2. UNCHANGED <<loop, used, asked>>
  BY <1>1 DEF main, turn
<1>3. ASSUME Delivered
      PROVE  /\ Head(toWindow) = toWindow[1] /\ 1 \in DOMAIN toWindow /\ toWindow[1] \in EventMessage
             /\ \A k \in DOMAIN toWindow' : k + 1 \in DOMAIN toWindow /\ toWindow'[k] = toWindow[k + 1]
  BY <1>0, <1>3, Rest DEF Delivered
<1>4. PartsKnown'
  <2>1. toWindow' = toWindow \/ Delivered
    BY DEF WindowNext, SendPrompt, Prepared, PrepareFails, Stop, CloseTab, ClearConversation,
       AnswerCall, AnswerTrust, ReplyArrives, PartArrives, EndArrives, window
  <2>2. CASE toWindow' = toWindow
    BY <1>2, <2>2 DEF IdInv, PartsKnown
  <2>3. CASE Delivered
    BY <1>2, <1>3, <2>3 DEF IdInv, PartsKnown
  <2>. QED
    BY <2>1, <2>2, <2>3
<1>5. ShownKnown'
  <2>1. CASE shown' = shown
    BY <1>2, <2>1 DEF IdInv, ShownKnown
  <2>2. CASE shown' = <<>>
    BY <2>2 DEF ShownKnown
  <2>3. CASE PartArrives /\ shown' # shown
    <3>. DEFINE p == Head(toWindow)
    <3>1. /\ Delivered /\ tab = "streaming" /\ p.type \in {"call", "result"}
          /\ p.type = "call" => \E had : shown' = [i \in DOMAIN shown \cup {p.call.id} |->
                IF i = p.call.id THEN [on |-> p.call.on, status |-> p.status, result |-> had]
                                 ELSE shown[i]]
          /\ p.type = "result" => shown' = [shown EXCEPT ![p.call.id].result = TRUE]
      BY <2>3 DEF PartArrives
    <3>2. /\ p.call.id \in used
          /\ \A j \in DOMAIN loop.todo : loop.todo[j].id = p.call.id => loop.todo[j] = p.call
      BY <1>3, <3>1 DEF IdInv, PartsKnown
    <3>. HIDE DEF p
    <3>3. CASE p.type = "call"
      <4>1. PICK had : shown' = [i \in DOMAIN shown \cup {p.call.id} |->
                IF i = p.call.id THEN [on |-> p.call.on, status |-> p.status, result |-> had]
                                 ELSE shown[i]]
        BY <3>1, <3>3
      <4>2. /\ DOMAIN shown' = DOMAIN shown \cup {p.call.id}
            /\ \A i \in DOMAIN shown' : shown'[i].on = IF i = p.call.id THEN p.call.on ELSE shown[i].on
        BY <4>1
      <4>. QED
        BY <1>2, <3>2, <4>2 DEF IdInv, ShownKnown
    <3>4. CASE p.type = "result"
      <4>1. shown' = [shown EXCEPT ![p.call.id].result = TRUE]
        BY <3>1, <3>4
      <4>2. DOMAIN shown' = DOMAIN shown /\ \A i \in DOMAIN shown' : shown'[i].on = shown[i].on
        BY <4>1 DEF TypeInv, TypeOK
      <4>. QED
        BY <1>2, <4>2 DEF IdInv, ShownKnown
    <3>. QED
      BY <3>1, <3>3, <3>4
  <2>4. shown' = shown \/ shown' = <<>> \/ PartArrives
    BY DEF WindowNext, SendPrompt, Prepared, PrepareFails, Stop, CloseTab, ClearConversation,
       AnswerCall, AnswerTrust, ReplyArrives, EndArrives, window
  <2>. QED
    BY <2>1, <2>2, <2>3, <2>4
<1>. QED
  BY <1>2, <1>4, <1>5 DEF IdInv, CallsKnown

(* The handlers.                                                           *)
LEMMA MainIds == ASSUME TypeInv, TurnInv, IdInv, MainNext PROVE IdInv'
<1>1. CASE MainSends
  <2>1. Sending
    <3>1. toMain # <<>> /\ Head(toMain).op = "send"
      BY <1>1 DEF MainSends, Received
    <3>2. Head(toMain) = toMain[1] /\ 1 \in DOMAIN toMain
      BY <3>1, Rest DEF TypeInv, TypeOK
    <3>. QED
      BY <3>1, <3>2 DEF Sending
  <2>2. tab = "asked" /\ toWindow = <<>> /\ DOMAIN shown = {}
    BY <2>1 DEF TurnInv, SendInv, TabInv
  <2>3. loop'.todo = <<>> /\ used' = {} /\ asked' = 0 /\ shown' = shown
        /\ toWindow' = <<Reply(Head(toMain).m)>>
    <3>1. Append(<<>>, Reply(Head(toMain).m)) = <<Reply(Head(toMain).m)>>
      OBVIOUS
    <3>. QED
      BY <1>1, <2>2, <3>1 DEF MainSends, Off, window
  <2>4. DOMAIN toWindow' = {1} /\ toWindow'[1].type = "reply"
    BY <2>3, EventFields
  <2>5. CallsKnown' /\ PartsKnown' /\ ShownKnown'
    BY <2>2, <2>3, <2>4 DEF CallsKnown, PartsKnown, ShownKnown
  <2>. QED
    BY <2>3, <2>5, FS_EmptySet DEF IdInv
<1>2. CASE ~MainSends
  <2>1. UNCHANGED <<loop, used, asked, shown>> /\ toWindow' \in {toWindow, <<>>}
    BY <1>2 DEF MainNext, MainApproves, MainResolvesTrust, MainCancels, WindowGone, TrustRecorded, turn, window
  <2>. QED
    BY <2>1 DEF IdInv, CallsKnown, PartsKnown, ShownKnown
<1>. QED
  BY <1>1, <1>2

(* A step of the loop, from the calls it holds and the parts it emits.     *)
LEMMA IdsMove ==
    ASSUME TypeInv, IdInv, UNCHANGED window, NEW parts \in Seq(EventMessage), Emit(parts),
           used \subseteq used', CallsKnown',
           \A j \in DOMAIN loop'.todo :
              loop'.todo[j].id \notin used \/ \E i \in DOMAIN loop.todo : loop'.todo[j] = loop.todo[i],
           \A k \in DOMAIN parts : parts[k].type \in {"call", "result"} =>
              /\ parts[k].call.id \in used'
              /\ \A j \in DOMAIN loop'.todo :
                    loop'.todo[j].id = parts[k].call.id => loop'.todo[j] = parts[k].call
    PROVE  PartsKnown' /\ ShownKnown'
<1>1. ShownKnown'
  BY DEF IdInv, ShownKnown, window
<1>2. ASSUME NEW k \in DOMAIN toWindow, toWindow[k].type \in {"call", "result"}
      PROVE  /\ toWindow[k].call.id \in used'
             /\ \A j \in DOMAIN loop'.todo :
                   loop'.todo[j].id = toWindow[k].call.id => loop'.todo[j] = toWindow[k].call
  BY <1>2 DEF IdInv, PartsKnown
<1>3. CASE ~alive
  <2>1. toWindow' = toWindow
    BY <1>3 DEF Emit
  <2>. QED
    BY <1>1, <1>2, <2>1 DEF PartsKnown
<1>4. CASE alive
  <2>1. SUFFICES ASSUME NEW k \in DOMAIN toWindow', toWindow'[k].type \in {"call", "result"}
                 PROVE  /\ toWindow'[k].call.id \in used'
                        /\ \A j \in DOMAIN loop'.todo :
                              loop'.todo[j].id = toWindow'[k].call.id => loop'.todo[j] = toWindow'[k].call
    BY <1>1 DEF PartsKnown
  <2>2. CASE k \in DOMAIN toWindow
    <3>1. toWindow'[k] = toWindow[k]
      BY <1>4, <2>2, Emitted
    <3>. QED
      BY <1>2, <2>1, <2>2, <3>1
  <2>3. CASE k \notin DOMAIN toWindow
    <3>1. PICK i \in DOMAIN parts : k = Len(toWindow) + i
      BY <1>4, <2>3, Emitted
    <3>2. toWindow'[k] = parts[i]
      BY <1>4, <3>1, Emitted
    <3>. QED
      BY <2>1, <3>2
  <2>. QED
    BY <2>2, <2>3
<1>. QED
  BY <1>1, <1>3, <1>4 DEF TypeInv, TypeOK

(* The loop gives every call an id of its own.                             *)
LEMMA LoopIds == ASSUME TypeInv, IdInv, LoopGoesOn \/ Others PROVE IdInv'
<1>0. /\ UNCHANGED window /\ LoopKind /\ loop.todo \in Seq(Call) /\ TypeOK
      /\ \A p \in EventMessage : <<p>> \in Seq(EventMessage) /\ <<>> \in Seq(EventMessage)
  BY LoopKinds DEF TypeInv, TypeOK
<1>. USE DEF IdInv
<1>1. ASSUME UNCHANGED <<used, asked>>, loop'.todo = loop.todo, NEW parts \in Seq(EventMessage), Emit(parts),
             \A k \in DOMAIN parts : parts[k].type \in {"call", "result"} =>
                \E j \in DOMAIN loop.todo : parts[k].call = loop.todo[j]
      PROVE  IdInv'
  <2>1. CallsKnown'
    BY <1>1 DEF CallsKnown
  <2>2. ASSUME NEW k \in DOMAIN parts, parts[k].type \in {"call", "result"}
        PROVE  /\ parts[k].call.id \in used'
               /\ \A j \in DOMAIN loop'.todo :
                     loop'.todo[j].id = parts[k].call.id => loop'.todo[j] = parts[k].call
    BY <1>1, <2>2 DEF CallsKnown
  <2>3. PartsKnown' /\ ShownKnown'
    BY <1>0, <1>1, <2>1, <2>2, IdsMove
  <2>. QED
    BY <1>1, <2>1, <2>3
<1>2. ASSUME Quiet PROVE IdInv'
  BY <1>0, <1>2 DEF Quiet, CallsKnown, PartsKnown, ShownKnown, window
<1>3. ASSUME NEW s \in Servers, NEW st \in {"pending", "trusted", "skipped"}, Emit(<<Card(s, st)>>),
             UNCHANGED <<used, asked>>, loop'.todo = loop.todo
      PROVE  IdInv'
  <2>1. <<Card(s, st)>> \in Seq(EventMessage) /\ \A k \in DOMAIN <<Card(s, st)>> : <<Card(s, st)>>[k].type = "card"
    BY EventMessages, EventFields
  <2>. QED
    BY <1>1, <1>3, <2>1
<1>4. ASSUME AsksTrust \/ TrustSettled PROVE IdInv'
  BY <1>3, <1>4 DEF AsksTrust, TrustSettled
<1>5. ASSUME NEW calls \in Seq(Call), Given(calls)
      PROVE  /\ IsFiniteSet(used') /\ Cardinality(used') = asked'
             /\ used \subseteq used' /\ loop.todo = <<>>
             /\ \A k \in DOMAIN calls : calls[k].id \in used' /\ calls[k].id \notin used
  <2>. DEFINE T == {calls[k].id : k \in DOMAIN calls}
  <2>1. IsFiniteSet(T) /\ Cardinality(T) = Len(calls) /\ Len(calls) \in Nat
    BY <1>5, AsManyIds DEF Given
  <2>2. used \cap T = {} /\ used' = used \cup T
    BY <1>5 DEF Given
  <2>. HIDE DEF T
  <2>3. IsFiniteSet(used') /\ Cardinality(used') = Cardinality(used) + Cardinality(T)
    <3>1. /\ IsFiniteSet(used \cup T)
          /\ Cardinality(used \cup T) = Cardinality(used) + Cardinality(T) - Cardinality(used \cap T)
      BY <2>1, FS_Union
    <3>2. Cardinality(used \cap T) = 0 /\ Cardinality(used) \in Nat
      BY <2>2, FS_EmptySet, FS_CardinalityType
    <3>. QED
      BY <2>1, <2>2, <3>1, <3>2
  <2>4. asked' = asked + Len(calls) /\ loop.todo = <<>>
    BY <1>5 DEF Given, TypeInv, StepInv, InRound
  <2>. QED
    BY <2>1, <2>2, <2>3, <2>4 DEF T, Given
<1>6. ASSUME NEW calls \in Seq(Call), RefusesAll(calls) PROVE IdInv'
  <2>1. Given(calls) /\ Emit(Refused(calls)) /\ loop'.todo = loop.todo
    BY <1>6 DEF RefusesAll
  <2>2. CallsKnown' /\ DOMAIN loop'.todo = {} /\ used \subseteq used'
    BY <1>5, <2>1 DEF CallsKnown
  <2>3. Refused(calls) \in Seq(EventMessage)
    BY RefusedParts
  <2>4. ASSUME NEW k \in DOMAIN Refused(calls) PROVE Refused(calls)[k].call.id \in used'
    <3>1. PICK j \in DOMAIN calls : Refused(calls)[k] = CallPart(calls[j], "error")
                                    \/ Refused(calls)[k] = ResultPart(calls[j])
      BY RefusedParts
    <3>2. Refused(calls)[k].call = calls[j]
      BY <3>1, EventFields
    <3>. QED
      BY <1>5, <2>1, <3>2
  <2>5. PartsKnown' /\ ShownKnown'
    BY <1>0, <2>1, <2>2, <2>3, <2>4, IdsMove
  <2>. QED
    BY <1>5, <2>1, <2>2, <2>5
<1>7. ASSUME NEW calls \in Seq(Call), TakesUp(calls) PROVE IdInv'
  <2>1. Given(calls) /\ toWindow' = toWindow /\ loop'.todo = calls
    BY <1>7 DEF TakesUp
  <2>2. CallsKnown'
    BY <1>5, <2>1 DEF CallsKnown, Given
  <2>3. PartsKnown'
    BY <1>5, <2>1 DEF PartsKnown
  <2>4. ShownKnown'
    BY <1>0, <1>5, <2>1 DEF ShownKnown, window
  <2>. QED
    BY <1>5, <2>1, <2>2, <2>3, <2>4
<1>8. ASSUME GivesUp PROVE IdInv'
  <2>1. Emit(Refused(loop.todo)) /\ loop'.todo = loop.todo /\ UNCHANGED <<used, asked>>
    BY <1>8 DEF GivesUp, Heeds
  <2>2. Refused(loop.todo) \in Seq(EventMessage)
    BY <1>0, RefusedParts
  <2>3. ASSUME NEW k \in DOMAIN Refused(loop.todo)
        PROVE  \E j \in DOMAIN loop.todo : Refused(loop.todo)[k].call = loop.todo[j]
    <3>1. PICK j \in DOMAIN loop.todo : Refused(loop.todo)[k] = CallPart(loop.todo[j], "error")
                                        \/ Refused(loop.todo)[k] = ResultPart(loop.todo[j])
      BY <1>0, RefusedParts
    <3>. QED
      BY <3>1, EventFields
  <2>. QED
    BY <1>1, <2>1, <2>2, <2>3
<1>9. ASSUME loop.todo # <<>>
      PROVE  /\ Head(loop.todo) = loop.todo[1] /\ 1 \in DOMAIN loop.todo /\ Head(loop.todo) \in Call
             /\ \A k \in DOMAIN Tail(loop.todo) : k + 1 \in DOMAIN loop.todo /\ k \in Nat \ {0}
                   /\ Tail(loop.todo)[k] = loop.todo[k + 1]
  <2>1. /\ Head(loop.todo) = loop.todo[1] /\ 1 \in DOMAIN loop.todo /\ loop.todo[1] \in Call
        /\ DOMAIN Tail(loop.todo) = 1..(Len(loop.todo) - 1) /\ Len(loop.todo) \in Nat
        /\ \A k \in DOMAIN Tail(loop.todo) : k + 1 \in DOMAIN loop.todo /\ Tail(loop.todo)[k] = loop.todo[k + 1]
    BY <1>0, <1>9, Rest
  <2>. QED
    BY <2>1
<1>10. ASSUME NEW st \in Finals, SettlesCall(st) PROVE IdInv'
  <2>. DEFINE c == Head(loop.todo)
              parts == <<CallPart(c, st), ResultPart(c)>>
  <2>1. /\ Emit(parts) /\ loop'.todo = Tail(loop.todo) /\ UNCHANGED <<used, asked>>
        /\ loop.todo # <<>>
    BY <1>10 DEF SettlesCall, Heeds
  <2>2. parts \in Seq(EventMessage)
    <3>1. CallPart(c, st) \in EventMessage /\ ResultPart(c) \in EventMessage
      BY <1>9, <2>1, EventMessages DEF Finals, Statuses
    <3>. QED
      BY <3>1
  <2>3. \A k \in DOMAIN parts : parts[k].call = c
    BY EventFields
  <2>. HIDE DEF parts
  <2>4. CallsKnown'
    <3>1. ASSUME NEW j \in DOMAIN loop'.todo, NEW i \in DOMAIN loop'.todo
          PROVE  loop'.todo[j].id \in used' /\ (loop'.todo[i].id = loop'.todo[j].id => i = j)
      <4>1. /\ j + 1 \in DOMAIN loop.todo /\ loop'.todo[j] = loop.todo[j + 1] /\ j \in Nat
            /\ i + 1 \in DOMAIN loop.todo /\ loop'.todo[i] = loop.todo[i + 1] /\ i \in Nat
        BY <1>9, <2>1
      <4>2. loop.todo[j + 1].id \in used
            /\ (loop.todo[i + 1].id = loop.todo[j + 1].id => i + 1 = j + 1)
        BY <4>1 DEF CallsKnown
      <4>. QED
        BY <2>1, <4>1, <4>2
    <3>. QED
      BY <3>1 DEF CallsKnown
  <2>5. c.id \in used' /\ \A j \in DOMAIN loop'.todo : loop'.todo[j].id # c.id
    <3>1. c = loop.todo[1] /\ 1 \in DOMAIN loop.todo
      BY <1>9, <2>1
    <3>2. c.id \in used'
      BY <2>1, <3>1 DEF CallsKnown
    <3>3. ASSUME NEW j \in DOMAIN loop'.todo PROVE loop'.todo[j].id # c.id
      <4>1. j + 1 \in DOMAIN loop.todo /\ loop'.todo[j] = loop.todo[j + 1] /\ j + 1 # 1
        BY <1>9, <2>1
      <4>. QED
        BY <3>1, <4>1 DEF CallsKnown
    <3>. QED
      BY <3>2, <3>3
  <2>6. \A j \in DOMAIN loop'.todo : \E i \in DOMAIN loop.todo : loop'.todo[j] = loop.todo[i]
    BY <1>9, <2>1
  <2>7. PartsKnown' /\ ShownKnown'
    BY <1>0, <2>1, <2>2, <2>3, <2>4, <2>5, <2>6, IdsMove
  <2>. QED
    BY <2>1, <2>4, <2>7
<1>11. ASSUME Runs \/ Asks PROVE IdInv'
  <2>1. PICK st \in Statuses : Emit(<<CallPart(Head(loop.todo), st)>>)
    BY <1>11 DEF Runs, Asks, Statuses
  <2>2. loop'.todo = loop.todo /\ UNCHANGED <<used, asked>> /\ loop.todo # <<>>
    BY <1>11 DEF Runs, Asks, Heeds
  <2>. DEFINE parts == <<CallPart(Head(loop.todo), st)>>
  <2>3. parts \in Seq(EventMessage) /\ \A k \in DOMAIN parts : parts[k].call = loop.todo[1]
    BY <1>9, <2>2, EventMessages, EventFields
  <2>. HIDE DEF parts
  <2>. QED
    BY <1>1, <1>9, <2>1, <2>2, <2>3 DEF parts
<1>12. ASSUME Ends PROVE IdInv'
  <2>1. loop'.todo = <<>> /\ UNCHANGED <<used, asked>> /\ Emit(<<Ended>>)
    BY <1>12 DEF Ends
  <2>2. <<Ended>> \in Seq(EventMessage) /\ \A k \in DOMAIN <<Ended>> : <<Ended>>[k].type = "end"
    BY EventMessages, EventFields
  <2>3. CallsKnown' /\ DOMAIN loop'.todo = {}
    BY <2>1 DEF CallsKnown
  <2>4. \A k \in DOMAIN <<Ended>> : <<Ended>>[k].type \notin {"call", "result"}
    BY <2>2
  <2>5. PartsKnown' /\ ShownKnown'
    BY <1>0, <2>1, <2>2, <2>3, <2>4, IdsMove
  <2>. QED
    BY <2>1, <2>3, <2>5
<1>. QED
  BY <1>0, <1>2, <1>4, <1>6, <1>7, <1>8, <1>10, <1>11, <1>12 DEF LoopKind

(* Every step keeps the ids apart.                                         *)
LEMMA IdsStay == ASSUME TypeInv, TurnInv, IdInv, [Next]_vars PROVE IdInv'
<1>1. ASSUME UNCHANGED vars PROVE IdInv'
  BY <1>1 DEF IdInv, CallsKnown, PartsKnown, ShownKnown, vars, window, main, turn
<1>. QED
  BY <1>1, WindowIds, MainIds, LoopIds DEF Next

-----------------------------------------------------------------------------
(* The word for a call.                                                    *)

(* The mail is what it was, without what was read, with what was sent.     *)
LEMMA MailIs ==
    ASSUME TypeInv
    PROVE  /\ Mail \subseteq CallMessage
           /\ toMain' = toMain \/ toMain' = <<>> => Mail' \subseteq Mail
           /\ \A m \in CallMessage : toMain' = Append(toMain, m) => Mail' \subseteq Mail \cup {m}
           /\ toMain # <<>> => Head(toMain) \in Mail
           /\ toMain # <<>> /\ toMain' = Tail(toMain) => Mail' \subseteq Mail
<1>0. toMain \in Seq(CallMessage)
  BY DEF TypeInv, TypeOK
<1>1. Mail \subseteq CallMessage
  BY <1>0 DEF Mail
<1>2. toMain' = toMain \/ toMain' = <<>> => Mail' \subseteq Mail
  BY DEF Mail
<1>3. ASSUME NEW m \in CallMessage, toMain' = Append(toMain, m) PROVE Mail' \subseteq Mail \cup {m}
  BY <1>0, <1>3, Appended DEF Mail
<1>4. ASSUME toMain # <<>> PROVE Head(toMain) \in Mail
  BY <1>0, <1>4, Rest DEF Mail
<1>5. ASSUME toMain # <<>>, toMain' = Tail(toMain) PROVE Mail' \subseteq Mail
  BY <1>0, <1>5, Rest DEF Mail
<1>. QED
  BY <1>1, <1>2, <1>3, <1>4, <1>5

(* Nothing needs a word in the first state.                                *)
LEMMA WordBegins == ASSUME Init PROVE WordInv
<1>1. loop.at = "off" /\ Mail = {} /\ granted = {}
  BY DEF Init, Off, Mail
<1>. QED
  BY <1>1 DEF WordInv, GrantInv, AnswerInv, CallsAreApproved, At

(* A word stays while its turn lasts, and no call takes another's id.      *)
LEMMA WordKept ==
    ASSUME NEW c, WordOf(c), sends' = sends, said \subseteq said', used \subseteq used',
           tab \in {"streaming", "idle"} => tab' \in {"streaming", "idle"},
           \A j \in DOMAIN loop'.todo :
              loop'.todo[j].id \notin used \/ \E i \in DOMAIN loop.todo : loop'.todo[j] = loop.todo[i]
    PROVE  WordOf(c)'
BY DEF WordOf, YesTool, YesCall

(* The window.                                                             *)
LEMMA WindowWord == ASSUME TypeInv, TurnInv, IdInv, WordInv, WindowNext PROVE WordInv'
<1>. USE DEF WordInv
<1>0. /\ sends \in Nat /\ (tab # "idle" => sends \in Sends) /\ MaxSends \in Nat
      /\ loop.at # "off" => tab # "preparing" /\ ~(alive /\ tab = "idle")
  BY AiChatConstants DEF TypeInv, TypeOK, StepInv, TurnInv, TabInv, Settled
<1>1. ASSUME UNCHANGED <<sends, setup, main>>, said \subseteq said', \A t \in granted' : t \in granted \/ YesTool(t)'
      PROVE  GrantInv' /\ AnswerInv'
  BY <1>1 DEF GrantInv, AnswerInv, CallsAreApproved, At, YesTool, YesCall, main, questions, turn
<1>2. ASSUME UNCHANGED <<sends, main>>, said \subseteq said',
             tab \in {"streaming", "idle"} => tab' \in {"streaming", "idle"}
      PROVE  \A c \in Mail : WordOf(c)'
  BY <1>2, WordKept DEF main, turn
<1>3. ASSUME SendPrompt PROVE WordInv'
  <2>1. /\ loop.at = "off" /\ ~Sending /\ sends' = sends + 1
        /\ UNCHANGED <<granted, toMain, main, said>>
    BY <1>3 DEF SendPrompt, TurnInv, TabInv, Settled
  <2>2. GrantInv' /\ AnswerInv'
    BY <2>1 DEF GrantInv, AnswerInv, CallsAreApproved, At, YesTool, main, turn
  <2>3. ASSUME NEW c \in Mail PROVE WordOf(c)'
    <3>1. c.op # "send" /\ (c.op = "approve" => c.m <= sends) /\ c.m \in Nat
      BY <2>1, MailIs, CallMessageIs DEF Sending, Mail, WordOf, Sends
    <3>. QED
      BY <1>0, <2>1, <3>1 DEF WordOf
  <2>. QED
    BY <2>1, <2>2, <2>3, MailIs
<1>4. ASSUME Prepared PROVE WordInv'
  <2>1. /\ tab = "preparing" /\ tab' = "asked" /\ toMain' = Append(toMain, Send(sends, granted))
        /\ UNCHANGED <<sends, granted, setup, main, said>>
    BY <1>4 DEF Prepared
  <2>2. Send(sends, granted) \in CallMessage /\ Send(sends, granted).op = "send"
        /\ Send(sends, granted).keys = granted
    BY <1>0, <2>1, CallMessages, CallFields DEF TypeInv, TypeOK
  <2>3. ASSUME NEW m, m = Send(sends, granted) PROVE WordOf(m)'
    BY <2>1, <2>2, <2>3 DEF WordOf, YesTool, GrantInv
  <2>4. \A c \in Mail : WordOf(c)'
    <3>1. \A c \in Mail : c.op = "approve" /\ c.m = sends => FALSE
      BY <2>1 DEF WordOf
    <3>. QED
      BY <2>1, <3>1 DEF WordOf, YesTool
  <2>5. Mail' \subseteq Mail \cup {Send(sends, granted)}
    BY <2>1, <2>2, MailIs
  <2>6. \A c \in Mail' : WordOf(c)'
    BY <2>3, <2>4, <2>5
  <2>. QED
    BY <1>1, <2>1, <2>6
<1>5. ASSUME NEW m \in CallMessage, WordOf(m)', toMain' = toMain \/ toMain' = Append(toMain, m),
             UNCHANGED <<sends, setup, main>>, said \subseteq said',
             \A t \in granted' : t \in granted \/ YesTool(t)',
             tab \in {"streaming", "idle"} => tab' \in {"streaming", "idle"}
      PROVE  WordInv'
  <2>1. Mail' \subseteq Mail \cup {m}
    BY <1>5, MailIs
  <2>. QED
    BY <1>1, <1>2, <1>5, <2>1
<1>6. ASSUME UNCHANGED <<granted, toMain, sends, setup, main, said>>,
             tab \in {"streaming", "idle"} => tab' \in {"streaming", "idle"}
      PROVE  WordInv'
  <2>1. Mail' \subseteq Mail
    BY <1>6, MailIs
  <2>. QED
    BY <1>1, <1>2, <1>6, <2>1
<1>7. ASSUME PrepareFails PROVE WordInv'
  BY <1>6, <1>7 DEF PrepareFails
<1>8. ASSUME NEW m \in CallMessage, m.op \in {"cancel", "trust"} PROVE WordOf(m)'
  BY <1>8 DEF WordOf
<1>9. ASSUME Stop PROVE WordInv'
  <2>1. Cancel(sends) \in CallMessage /\ Cancel(sends).op = "cancel"
    BY <1>0, <1>9, CallMessages, CallFields DEF Stop
  <2>2. PICK m : m = Cancel(sends)
    OBVIOUS
  <2>. QED
    BY <1>5, <1>8, <1>9, <2>1, <2>2 DEF Stop, window
<1>10. ASSUME NEW id \in DOMAIN shown, NEW d \in Decisions, AnswerCall(id, d) PROVE WordInv'
  <2>1. PICK m : m = ApproveTool(sends, id, d)
    OBVIOUS
  <2>2. /\ m \in CallMessage /\ m.op = "approve" /\ m.m = sends /\ m.id = id /\ m.decision = d
        /\ tab = "streaming" /\ sends \in Nat
    BY <1>0, <1>10, <2>1, CallMessages, CallFields DEF AnswerCall, TypeInv, TypeOK
  <2>3. /\ toMain' = Append(toMain, m) /\ UNCHANGED <<tab, sends, setup, main>> /\ said \subseteq said'
        /\ d = "once" => [yes |-> "call", to |-> <<sends, id>>] \in said'
        /\ d = "conversation" => [yes |-> "tool", to |-> shown[id].on] \in said'
        /\ granted' = granted \cup (IF d = "conversation" THEN {shown[id].on} ELSE {})
    BY <1>10, <2>1 DEF AnswerCall, Decisions
  <2>4. /\ id \in used
        /\ \A j \in DOMAIN loop.todo : loop.todo[j].id = id => loop.todo[j].on = shown[id].on
    BY DEF IdInv, ShownKnown
  <2>5. WordOf(m)'
    BY <2>2, <2>3, <2>4 DEF WordOf, YesTool, YesCall, main, turn
  <2>. QED
    BY <1>5, <2>2, <2>3, <2>5 DEF YesTool
<1>11. ASSUME NEW s \in Servers, NEW d \in {"trust", "skip"}, AnswerTrust(s, d) PROVE WordInv'
  <2>1. PICK m : m = ResolveTrust(sends, s, d)
    OBVIOUS
  <2>2. m \in CallMessage /\ m.op = "trust"
    BY <1>0, <1>11, <2>1, CallMessages, CallFields DEF AnswerTrust
  <2>. QED
    BY <1>5, <1>8, <1>11, <2>1, <2>2 DEF AnswerTrust, window
<1>12. ASSUME ClearConversation PROVE WordInv'
  <2>1. /\ loop.at = "off" /\ ~Sending /\ granted' = {}
        /\ UNCHANGED <<tab, sends, toMain, main>> /\ said' = {x \in said : x.yes # "tool"}
    BY <1>12 DEF ClearConversation, TurnInv, TabInv, Settled
  <2>2. loop.todo = <<>>
    BY <2>1 DEF TypeInv, StepInv, InRound
  <2>3. GrantInv' /\ AnswerInv'
    BY <2>1 DEF GrantInv, AnswerInv, CallsAreApproved, At, main, turn
  <2>4. ASSUME NEW c \in Mail PROVE WordOf(c)'
    <3>1. c.op # "send"
      BY <2>1 DEF Sending, Mail
    <3>2. \A id : YesCall(id) => YesCall(id)'
      BY <2>1 DEF YesCall
    <3>3. WordOf(c) /\ DOMAIN loop'.todo = {} /\ used' = used
      BY <2>1, <2>2 DEF main, turn
    <3>. QED
      BY <2>1, <3>1, <3>2, <3>3 DEF WordOf
  <2>. QED
    BY <2>1, <2>3, <2>4, MailIs
<1>13. ASSUME CloseTab PROVE WordInv'
  <2>1. CASE tab = "streaming"
    <3>1. PICK m : m = Cancel(sends)
      OBVIOUS
    <3>2. m \in CallMessage /\ m.op = "cancel"
      BY <1>0, <2>1, <3>1, CallMessages, CallFields
    <3>. QED
      BY <1>5, <1>8, <1>13, <2>1, <3>1, <3>2 DEF CloseTab
  <2>2. CASE tab # "streaming"
    BY <1>6, <1>13, <2>2 DEF CloseTab
  <2>. QED
    BY <2>1, <2>2
<1>14. ASSUME ReplyArrives PROVE WordInv'
  <2>1. /\ toWindow # <<>> /\ Head(toWindow).type = "reply" /\ tab' \in {"streaming", "idle"}
        /\ UNCHANGED <<sends, granted, setup, main, said>>
        /\ toMain' = toMain \/ toMain' = Append(toMain, Cancel(Head(toWindow).m))
    BY <1>14 DEF ReplyArrives, Delivered
  <2>2. PICK m : m = Cancel(Head(toWindow).m)
    OBVIOUS
  <2>3. m \in CallMessage /\ m.op = "cancel"
    <3>1. Head(toWindow) \in EventMessage
      BY <2>1, Rest DEF TypeInv, TypeOK
    <3>2. Head(toWindow).m \in Sends
      BY <2>1, <3>1, EventMessageIs
    <3>. QED
      BY <2>2, <3>2, CallMessages, CallFields
  <2>. QED
    BY <1>5, <1>8, <2>1, <2>2, <2>3
<1>15. ASSUME PartArrives \/ EndArrives PROVE WordInv'
  BY <1>6, <1>15 DEF PartArrives, EndArrives
<1>. QED
  BY <1>3, <1>4, <1>7, <1>9, <1>10, <1>11, <1>12, <1>13, <1>14, <1>15 DEF WindowNext, Decisions

(* The handlers.                                                           *)
LEMMA MainWord == ASSUME TypeInv, TurnInv, AskInv, IdInv, WordInv, MainNext PROVE WordInv'
<1>. USE DEF WordInv
<1>0. UNCHANGED <<sends, granted, setup, said>>
  BY DEF MainNext, MainSends, MainApproves, MainResolvesTrust, MainCancels, WindowGone, TrustRecorded, window
<1>1. Mail' \subseteq Mail
  BY MailIs DEF MainNext, MainSends, MainApproves, MainResolvesTrust, MainCancels, WindowGone,
     TrustRecorded, Received
<1>2. ASSUME UNCHANGED <<loop, allowed, used>>, tab' \in {tab, "idle"},
             answer' # answer => answer' \notin {"once", "conversation"}
      PROVE  WordInv'
  <2>1. GrantInv' /\ AnswerInv'
    BY <1>0, <1>2 DEF GrantInv, AnswerInv, CallsAreApproved, At, YesTool, YesCall
  <2>2. \A c \in Mail : WordOf(c)'
    BY <1>0, <1>2, WordKept
  <2>. QED
    BY <1>1, <2>1, <2>2
<1>3. ASSUME MainSends PROVE WordInv'
  <2>. DEFINE h == Head(toMain)
  <2>1. /\ h \in Mail /\ h.op = "send" /\ allowed' = h.keys
        /\ loop'.at = "deps" /\ UNCHANGED <<tab, sends, said>>
    BY <1>3, MailIs DEF MainSends, Received, Off, window
  <2>2. tab = "asked"
    BY <2>1 DEF Sending, Mail, TurnInv, SendInv
  <2>3. GrantInv' /\ AnswerInv'
    <3>1. \A t \in allowed' : YesTool(t)
      BY <2>1 DEF WordOf
    <3>. QED
      BY <1>0, <2>1, <3>1 DEF GrantInv, AnswerInv, CallsAreApproved, At, YesTool
  <2>4. ASSUME NEW c \in Mail PROVE WordOf(c)'
    <3>1. c.op = "approve" => c.m <= sends /\ c.m # sends
      BY <2>2 DEF WordOf
    <3>. QED
      BY <2>1, <3>1 DEF WordOf, YesTool
  <2>. QED
    BY <1>1, <2>3, <2>4
<1>4. ASSUME MainApproves PROVE WordInv'
  <2>. DEFINE c == Head(toMain)
  <2>1. /\ c \in Mail /\ c.op = "approve" /\ c.m \in Sends
        /\ UNCHANGED <<tab, loop, allowed, used>>
        /\ \/ answer' = answer
           \/ entry = c.m /\ c.id \in approvals /\ answer' = c.decision
    BY <1>4, MailIs, CallMessageIs DEF MainApproves, Received, window, turn
  <2>2. CASE answer' = answer
    BY <1>2, <2>1, <2>2
  <2>3. CASE entry = c.m /\ c.id \in approvals /\ answer' = c.decision
    <3>1. loop.at = "askApproval" /\ c.id = Head(loop.todo).id
      BY <2>3 DEF AskInv
    <3>2. c.m = sends
      BY <2>1, <2>3, <3>1 DEF TurnInv, EntryInv, Sends
    <3>3. Head(loop.todo) = loop.todo[1] /\ 1 \in DOMAIN loop.todo
      BY <3>1, Rest DEF TypeInv, TypeOK, StepInv
    <3>4. /\ c.decision = "once" => YesCall(Head(loop.todo).id)
          /\ c.decision = "conversation" => YesTool(Head(loop.todo).on)
      BY <2>1, <3>1, <3>2, <3>3 DEF WordOf
    <3>5. GrantInv' /\ AnswerInv'
      BY <1>0, <2>1, <2>3, <3>1, <3>4 DEF GrantInv, AnswerInv, CallsAreApproved, At, YesTool, YesCall
    <3>6. \A x \in Mail : WordOf(x)'
      BY <1>0, <2>1, WordKept
    <3>. QED
      BY <1>1, <3>5, <3>6
  <2>. QED
    BY <2>1, <2>2, <2>3
<1>5. ASSUME MainResolvesTrust PROVE WordInv'
  BY <1>2, <1>5 DEF MainResolvesTrust, window, turn
<1>6. ASSUME NEW s \in Servers, TrustRecorded(s) PROVE WordInv'
  BY <1>2, <1>6 DEF TrustRecorded, window, turn
<1>7. ASSUME MainCancels \/ WindowGone PROVE WordInv'
  BY <1>2, <1>7 DEF MainCancels, WindowGone, SettleQuestions, window, turn
<1>. QED
  BY <1>3, <1>4, <1>5, <1>6, <1>7 DEF MainNext

(* The loop: it calls what it was allowed to, by the tab's grants or by    *)
(* the answer it waited for.                                               *)
LEMMA LoopWord == ASSUME TypeInv, AskInv, IdInv, WordInv, LoopGoesOn \/ Others PROVE WordInv'
<1>. USE DEF WordInv
<1>0. UNCHANGED <<tab, sends, granted, setup, said, toMain>> /\ LoopKind /\ loop.todo \in Seq(Call)
  BY LoopKinds DEF window, TypeInv, TypeOK
<1>1. Mail' \subseteq Mail
  BY <1>0, MailIs
<1>2. ASSUME used \subseteq used',
             \A j \in DOMAIN loop'.todo :
                loop'.todo[j].id \notin used \/ \E i \in DOMAIN loop.todo : loop'.todo[j] = loop.todo[i]
      PROVE  \A c \in Mail' : WordOf(c)'
  BY <1>0, <1>1, <1>2, WordKept
<1>3. ASSUME loop.at # "off", loop'.at # "calling", loop'.at = "askApproval" => answer' = "none", allowed' = allowed
      PROVE  GrantInv' /\ AnswerInv'
  BY <1>0, <1>3 DEF GrantInv, AnswerInv, CallsAreApproved, At, YesTool
<1>4. ASSUME loop.todo # <<>>
      PROVE  \A k \in DOMAIN Tail(loop.todo) : \E i \in DOMAIN loop.todo : Tail(loop.todo)[k] = loop.todo[i]
  BY <1>0, <1>4, Rest
<1>5. ASSUME Quiet PROVE WordInv'
  <2>1. /\ loop.at # "off" /\ loop'.at \notin {"calling", "askApproval"} /\ allowed' = allowed
        /\ used' = used /\ loop'.todo = loop.todo
    BY <1>5 DEF Quiet, Talking
  <2>. QED
    BY <1>2, <1>3, <2>1
<1>6. ASSUME AsksTrust \/ TrustSettled PROVE WordInv'
  <2>1. /\ loop.at # "off" /\ loop'.at \notin {"calling", "askApproval"} /\ allowed' = allowed
        /\ used' = used /\ loop'.todo = loop.todo
    BY <1>6 DEF AsksTrust, TrustSettled
  <2>. QED
    BY <1>2, <1>3, <2>1
<1>7. ASSUME NEW calls \in Seq(Call), RefusesAll(calls) \/ TakesUp(calls) PROVE WordInv'
  <2>1. /\ loop.at # "off" /\ loop'.at \notin {"calling", "askApproval"} /\ allowed' = allowed
        /\ used \subseteq used' /\ (loop'.todo = loop.todo \/ loop'.todo = calls)
        /\ \A k \in DOMAIN calls : calls[k].id \notin used
    BY <1>7 DEF RefusesAll, TakesUp, Given
  <2>. QED
    BY <1>2, <1>3, <2>1
<1>8. ASSUME NEW st, GivesUp \/ SettlesCall(st) PROVE WordInv'
  <2>1. /\ loop.at # "off" /\ loop'.at \notin {"calling", "askApproval"} /\ allowed' = allowed
        /\ used' = used /\ (loop'.todo = loop.todo \/ loop'.todo = Tail(loop.todo)) /\ loop.todo # <<>>
    BY <1>8 DEF GivesUp, SettlesCall, Heeds, InRound
  <2>. QED
    BY <1>2, <1>3, <1>4, <2>1
<1>9. ASSUME Asks PROVE WordInv'
  <2>1. /\ loop.at # "off" /\ loop'.at = "askApproval" /\ answer' = "none" /\ allowed' = allowed
        /\ used' = used /\ loop'.todo = loop.todo
    BY <1>9 DEF Asks
  <2>. QED
    BY <1>2, <1>3, <2>1
<1>10. ASSUME Runs PROVE WordInv'
  <2>. DEFINE c == Head(loop.todo)
  <2>1. /\ loop.at \in {"calls", "askApproval"} /\ loop'.at = "calling" /\ loop'.todo = loop.todo
        /\ used' = used
    BY <1>10 DEF Runs, Heeds, InRound
  <2>2. \/ loop.at = "calls" /\ (setup.auto \/ c.on \in allowed) /\ allowed' = allowed
        \/ loop.at = "askApproval" /\ answer = "once" /\ allowed' = allowed
        \/ loop.at = "askApproval" /\ answer = "conversation" /\ allowed' = allowed \cup {c.on}
    BY <1>10 DEF Runs, Heeds, InRound, AskInv, Decisions
  <2>3. \/ setup.auto \/ YesTool(c.on) \/ YesCall(c.id)
    BY <2>1, <2>2 DEF GrantInv, AnswerInv
  <2>4. \A t \in allowed' : YesTool(t)
    BY <2>1, <2>2 DEF GrantInv, AnswerInv
  <2>5. GrantInv' /\ AnswerInv'
    BY <1>0, <2>1, <2>3, <2>4 DEF GrantInv, AnswerInv, CallsAreApproved, At, YesTool, YesCall
  <2>. QED
    BY <1>2, <2>1, <2>5
<1>11. ASSUME Ends PROVE WordInv'
  <2>1. loop.at # "off" /\ loop'.at = "off" /\ allowed' = allowed /\ used' = used /\ loop'.todo = <<>>
    BY <1>11 DEF Ends
  <2>2. DOMAIN loop'.todo = {}
    BY <2>1
  <2>. QED
    BY <1>2, <1>3, <2>1, <2>2
<1>. QED
  BY <1>0, <1>5, <1>6, <1>7, <1>8, <1>9, <1>10, <1>11 DEF LoopKind

(* Every step keeps the user's word.                                       *)
LEMMA WordStays == ASSUME TypeInv, TurnInv, AskInv, IdInv, WordInv, [Next]_vars PROVE WordInv'
<1>1. ASSUME UNCHANGED vars PROVE WordInv'
  BY <1>1 DEF WordInv, GrantInv, AnswerInv, CallsAreApproved, At, YesTool, YesCall, WordOf, Mail, vars,
     window, main, questions, turn
<1>. QED
  BY <1>1, WindowWord, MainWord, LoopWord DEF Next

-----------------------------------------------------------------------------
(* The screen.                                                             *)

(* What follows and what is carried, when the loop emits ...               *)
LEMMA EmitCarries ==
    ASSUME TypeInv, alive, NEW parts \in Seq(EventMessage), Emit(parts), NEW B,
           Carries(toWindow, B) \/ Carries(parts, B)
    PROVE  Carries(toWindow', B)
<1>1. CASE Carries(toWindow, B)
  <2>1. PICK k \in DOMAIN toWindow : toWindow[k] \in B
    BY <1>1 DEF Carries
  <2>2. k \in DOMAIN toWindow' /\ toWindow'[k] = toWindow[k]
    BY <2>1, Emitted
  <2>. QED
    BY <2>1, <2>2 DEF Carries
<1>2. CASE Carries(parts, B)
  <2>1. PICK k \in DOMAIN parts : parts[k] \in B
    BY <1>2 DEF Carries
  <2>2. Len(toWindow) + k \in DOMAIN toWindow' /\ toWindow'[Len(toWindow) + k] = parts[k]
    BY <2>1, Emitted
  <2>. QED
    BY <2>1, <2>2 DEF Carries
<1>. QED
  BY <1>1, <1>2

(* ... what was followed stays so, or is followed now.                     *)
LEMMA EmitFollowed ==
    ASSUME TypeInv, alive, NEW parts \in Seq(EventMessage), Emit(parts), NEW A, NEW B,
           ~Carries(parts, A), Followed(toWindow, A, B) \/ Carries(parts, B)
    PROVE  Followed(toWindow', A, B)
<1>1. SUFFICES ASSUME NEW k \in DOMAIN toWindow', toWindow'[k] \in A
               PROVE  \E j \in DOMAIN toWindow' : j > k /\ toWindow'[j] \in B
  BY DEF Followed
<1>2. k \in DOMAIN toWindow
  <2>1. ASSUME NEW j \in DOMAIN parts, k = Len(toWindow) + j PROVE FALSE
    <3>1. toWindow'[k] = parts[j]
      BY <2>1, Emitted
    <3>. QED
      BY <1>1, <3>1 DEF Carries
  <2>. QED
    BY <1>1, <2>1, Emitted
<1>3. toWindow'[k] = toWindow[k]
  BY <1>2, Emitted
<1>4. CASE Followed(toWindow, A, B)
  <2>1. PICK j \in DOMAIN toWindow : j > k /\ toWindow[j] \in B
    BY <1>1, <1>2, <1>3, <1>4 DEF Followed
  <2>2. j \in DOMAIN toWindow' /\ toWindow'[j] = toWindow[j]
    BY <2>1, Emitted
  <2>. QED
    BY <2>1, <2>2
<1>5. CASE Carries(parts, B)
  <2>1. PICK i \in DOMAIN parts : parts[i] \in B
    BY <1>5 DEF Carries
  <2>2. Len(toWindow) + i \in DOMAIN toWindow' /\ toWindow'[Len(toWindow) + i] = parts[i]
    BY <2>1, Emitted
  <2>3. Len(toWindow) + i > k
    <3>1. k \in 1..Len(toWindow) /\ i \in 1..Len(parts) /\ Len(toWindow) \in Nat /\ Len(parts) \in Nat
      BY <1>2, <2>1, Emitted
    <3>. QED
      BY <3>1
  <2>. QED
    BY <2>1, <2>2, <2>3
<1>. QED
  BY <1>4, <1>5

(* ... and when an event arrives.                                          *)
LEMMA Arrived ==
    ASSUME TypeInv, Delivered
    PROVE  /\ Head(toWindow) = toWindow[1] /\ 1 \in DOMAIN toWindow /\ Head(toWindow) \in EventMessage
           /\ \A k \in DOMAIN toWindow' : k \in Nat \ {0} /\ k + 1 \in DOMAIN toWindow
                 /\ toWindow'[k] = toWindow[k + 1]
           /\ \A k \in DOMAIN toWindow : k \in Nat \ {0} /\
                 (k # 1 => k - 1 \in DOMAIN toWindow' /\ toWindow'[k - 1] = toWindow[k])
<1>1. toWindow \in Seq(EventMessage) /\ toWindow # <<>> /\ toWindow' = Tail(toWindow)
  BY DEF TypeInv, TypeOK, Delivered
<1>2. /\ Head(toWindow) = toWindow[1] /\ toWindow[1] \in EventMessage /\ 1 \in DOMAIN toWindow
      /\ Len(toWindow) \in Nat
      /\ DOMAIN toWindow = 1..Len(toWindow) /\ DOMAIN toWindow' = 1..(Len(toWindow) - 1)
      /\ \A k \in DOMAIN toWindow' : k + 1 \in DOMAIN toWindow /\ toWindow'[k] = toWindow[k + 1]
      /\ \A k \in DOMAIN toWindow : k # 1 => k - 1 \in DOMAIN toWindow' /\ toWindow'[k - 1] = toWindow[k]
  BY <1>1, Rest
<1>. QED
  BY <1>2

(* What another event than the first carries is still carried.             *)
LEMMA ArrivalCarries ==
    ASSUME TypeInv, Delivered, NEW B, Carries(toWindow, B), Head(toWindow) \notin B
    PROVE  Carries(toWindow', B)
<1>1. PICK k \in DOMAIN toWindow : toWindow[k] \in B
  BY DEF Carries
<1>2. k # 1
  BY <1>1, Arrived
<1>3. k - 1 \in DOMAIN toWindow' /\ toWindow'[k - 1] = toWindow[k]
  BY <1>1, <1>2, Arrived
<1>. QED
  BY <1>1, <1>3 DEF Carries

(* What was followed stays so, and what follows the first is still there.  *)
LEMMA ArrivalFollowed ==
    ASSUME TypeInv, Delivered, NEW A, NEW B, Followed(toWindow, A, B)
    PROVE  /\ Followed(toWindow', A, B)
           /\ Head(toWindow) \in A => Carries(toWindow', B)
<1>1. ASSUME NEW k \in DOMAIN toWindow', toWindow'[k] \in A
      PROVE  \E j \in DOMAIN toWindow' : j > k /\ toWindow'[j] \in B
  <2>1. k \in Nat \ {0} /\ k + 1 \in DOMAIN toWindow /\ toWindow[k + 1] \in A
    BY <1>1, Arrived
  <2>2. PICK j \in DOMAIN toWindow : j > k + 1 /\ toWindow[j] \in B
    BY <2>1 DEF Followed
  <2>3. j \in Nat /\ j # 1 /\ j - 1 \in DOMAIN toWindow' /\ toWindow'[j - 1] = toWindow[j] /\ j - 1 > k
    <3>1. j \in Nat
      BY Arrived
    <3>2. j # 1 /\ j - 1 > k
      BY <2>1, <2>2, <3>1
    <3>. QED
      BY <3>1, <3>2, Arrived
  <2>. QED
    BY <2>2, <2>3
<1>2. ASSUME Head(toWindow) \in A PROVE Carries(toWindow', B)
  <2>1. 1 \in DOMAIN toWindow /\ toWindow[1] \in A
    BY <1>2, Arrived
  <2>2. PICK j \in DOMAIN toWindow : j > 1 /\ toWindow[j] \in B
    BY <2>1 DEF Followed
  <2>3. j # 1
    BY <2>2
  <2>4. j - 1 \in DOMAIN toWindow' /\ toWindow'[j - 1] = toWindow[j]
    BY <2>3, Arrived
  <2>. QED
    BY <2>2, <2>4 DEF Carries
<1>. QED
  BY <1>1, <1>2 DEF Followed

(* The first screen is empty.                                              *)
LEMMA ScreenBegins == ASSUME Init PROVE ScreenInv
<1>1. /\ loop.at = "off" /\ toWindow = <<>> /\ DOMAIN shown = {} /\ used = {}
      /\ DOMAIN toWindow = {} /\ \A s \in Servers : cards[s] = "none"
  BY DEF Init, Off, NoCards
<1>. QED
  BY <1>1 DEF ScreenInv, CallsOnScreen, CardsOnScreen, ResultsOnScreen, CallSettles, CardSettles, Introduced,
     Followed, ShownAs, OnScreen

(* An event that arrives settles no more than it shows.                    *)
LEMMA ArrivalSettles ==
    ASSUME TypeInv, Delivered, NEW id, NEW S, CallSettles(id, S),
           ShownAs(id, S)' => \/ Head(toWindow) \in Parts(id, S)
                              \/ ShownAs(id, S) /\ Head(toWindow) \notin Parts(id, Statuses \ S)
    PROVE  CallSettles(id, S)'
<1>1. Followed(toWindow', Parts(id, S), Parts(id, Statuses \ S))
  BY ArrivalFollowed DEF CallSettles
<1>2. ASSUME ShownAs(id, S)' PROVE Carries(toWindow', Parts(id, Statuses \ S))
  <2>1. CASE Head(toWindow) \in Parts(id, S)
    BY <2>1, ArrivalFollowed DEF CallSettles
  <2>2. CASE ShownAs(id, S) /\ Head(toWindow) \notin Parts(id, Statuses \ S)
    BY <2>2, ArrivalCarries DEF CallSettles
  <2>. QED
    BY <1>2, <2>1, <2>2
<1>. QED
  BY <1>1, <1>2 DEF CallSettles, Parts, Followed, Carries

(* The same for a card.                                                    *)
LEMMA ArrivalSettlesCard ==
    ASSUME TypeInv, Delivered, NEW s, CardSettles(s),
           cards'[s] = "pending" => \/ Head(toWindow) \in CardsOf(s, {"pending"})
                                    \/ cards[s] = "pending" /\ Head(toWindow) \notin CardsOf(s, Answering)
    PROVE  CardSettles(s)'
<1>1. Followed(toWindow', CardsOf(s, {"pending"}), CardsOf(s, Answering))
  BY ArrivalFollowed DEF CardSettles
<1>2. ASSUME cards'[s] = "pending" PROVE Carries(toWindow', CardsOf(s, Answering))
  <2>1. CASE Head(toWindow) \in CardsOf(s, {"pending"})
    BY <2>1, ArrivalFollowed DEF CardSettles
  <2>2. CASE cards[s] = "pending" /\ Head(toWindow) \notin CardsOf(s, Answering)
    BY <2>2, ArrivalCarries DEF CardSettles
  <2>. QED
    BY <1>2, <2>1, <2>2
<1>. QED
  BY <1>1, <1>2 DEF CardSettles, CardsOf, Followed, Carries

(* What an event of another kind leaves alone.                             *)
LEMMA ArrivalIntroduces ==
    ASSUME TypeInv, Delivered, NEW id, Introduced(id), DOMAIN shown \subseteq DOMAIN shown',
           Head(toWindow) \in Parts(id, Statuses) => id \in DOMAIN shown'
    PROVE  Introduced(id)'
<1>1. SUFFICES ASSUME NEW k \in DOMAIN toWindow', toWindow'[k] \in Results(id), id \notin DOMAIN shown'
               PROVE  \E j \in DOMAIN toWindow' : j < k /\ toWindow'[j] \in Parts(id, Statuses)
  BY DEF Introduced, Results, Parts
<1>2. k \in Nat \ {0} /\ k + 1 \in DOMAIN toWindow /\ toWindow[k + 1] \in Results(id)
  BY <1>1, Arrived
<1>3. PICK j \in DOMAIN toWindow : j < k + 1 /\ toWindow[j] \in Parts(id, Statuses)
  BY <1>1, <1>2 DEF Introduced
<1>4. j \in Nat \ {0} /\ j # 1
  BY <1>1, <1>3, Arrived
<1>5. j - 1 \in DOMAIN toWindow' /\ toWindow'[j - 1] = toWindow[j] /\ j - 1 < k
  BY <1>2, <1>3, <1>4, Arrived
<1>. QED
  BY <1>3, <1>5

(* The window.                                                             *)
LEMMA WindowScreen == ASSUME TypeInv, TurnInv, IdInv, ScreenInv, WindowNext PROVE ScreenInv'
<1>. SUFFICES ASSUME alive' PROVE CallsOnScreen' /\ CardsOnScreen' /\ ResultsOnScreen'
  BY DEF ScreenInv
<1>1. alive
  BY DEF WindowNext, SendPrompt, Prepared, PrepareFails, Stop, CloseTab, ClearConversation,
       AnswerCall, AnswerTrust, ReplyArrives, PartArrives, EndArrives, window
<1>2. CallsOnScreen /\ CardsOnScreen /\ ResultsOnScreen
  BY <1>1 DEF ScreenInv
<1>3. UNCHANGED <<loop, used>>
  BY DEF WindowNext, SendPrompt, Prepared, PrepareFails, Stop, CloseTab, ClearConversation,
       AnswerCall, AnswerTrust, ReplyArrives, PartArrives, EndArrives, main, turn
<1>4. CASE UNCHANGED <<shown, cards, toWindow>>
  BY <1>2, <1>3, <1>4 DEF CallsOnScreen, CardsOnScreen, ResultsOnScreen, CallSettles, CardSettles, Introduced,
     ShownAs, Asking, Busy, AsksFor, Due, OnScreen, Answered
<1>5. CASE SendPrompt
  <2>1. /\ loop.at = "off" /\ toWindow = <<>> /\ toWindow' = toWindow /\ shown' = <<>> /\ cards' = NoCards
    BY <1>1, <1>5 DEF SendPrompt, TurnInv, TabInv, Settled
  <2>2. /\ DOMAIN toWindow' = {} /\ DOMAIN shown' = {} /\ \A s \in Servers : cards'[s] = "none"
        /\ ~OnScreen'
    BY <1>3, <2>1 DEF NoCards, OnScreen
  <2>. QED
    BY <2>2 DEF CallsOnScreen, CardsOnScreen, ResultsOnScreen, CallSettles, CardSettles, Introduced,
       Followed, ShownAs
<1>. DEFINE h == Head(toWindow)
<1>6. ASSUME Delivered PROVE OnScreen /\ h \in EventMessage
  BY <1>6, Arrived DEF OnScreen, Delivered
<1>7. CASE ReplyArrives \/ EndArrives
  <2>1. Delivered /\ h.type \in {"reply", "end"} /\ UNCHANGED <<shown, cards>>
    BY <1>7 DEF ReplyArrives, EndArrives
  <2>2. /\ \A id, S : h \notin Parts(id, S)
        /\ \A id : h \notin Results(id)
        /\ \A s, S : h \notin CardsOf(s, S)
    BY <2>1 DEF Parts, Results, CardsOf
  <2>3. ASSUME NEW id, NEW S, CallSettles(id, S) PROVE CallSettles(id, S)'
    <3>1. ShownAs(id, S)' => ShownAs(id, S)
      BY <2>1 DEF ShownAs
    <3>. QED
      BY <2>1, <2>2, <2>3, <3>1, ArrivalSettles
  <2>4. ASSUME NEW s, CardSettles(s) PROVE CardSettles(s)'
    BY <2>1, <2>2, <2>4, ArrivalSettlesCard
  <2>5. ASSUME NEW id, Introduced(id) PROVE Introduced(id)'
    BY <2>1, <2>2, <2>5, ArrivalIntroduces
  <2>6. CallsOnScreen' /\ CardsOnScreen'
    BY <1>2, <1>3, <2>3, <2>4, <2>5 DEF CallsOnScreen, CardsOnScreen, Asking, Busy, AsksFor
  <2>7. ASSUME NEW id \in used PROVE Answered(id)'
    <3>1. Answered(id)
      BY <1>2, <1>6, <2>1 DEF ResultsOnScreen
    <3>2. Carries(toWindow, Results(id)) => Carries(toWindow', Results(id))
      BY <2>1, <2>2, ArrivalCarries
    <3>. QED
      BY <1>3, <2>1, <3>1, <3>2 DEF Answered, Due, Results, Carries
  <2>. QED
    BY <1>3, <2>6, <2>7 DEF ResultsOnScreen
<1>8. CASE PartArrives
  <2>1. Delivered /\ h.type \in {"call", "result", "card"}
    BY <1>8 DEF PartArrives
  <2>2. tab = "streaming"
    <3>1. toWindow # <<>> /\ toWindow[1].type # "reply"
      BY <2>1, Arrived DEF Delivered
    <3>. QED
      BY <1>1, <3>1 DEF TypeInv, TypeOK, TurnInv, TabInv, SendInv, Settled
  <2>3. /\ h \in EventMessage
        /\ h.type = "call" => h.call \in Call /\ h.call.id \in Ids /\ h.status \in Statuses
        /\ h.type = "result" => h.call \in Call /\ h.call.id \in Ids
        /\ h.type = "card" => h.server \in Servers /\ h.status \in {"pending", "trusted", "skipped"}
    BY <1>6, <2>1, EventMessageIs DEF Call
  <2>4. /\ h.type = "card" => shown' = shown
        /\ h.type = "call" => \E had : /\ had = (h.call.id \in DOMAIN shown /\ shown[h.call.id].result)
             /\ shown' = [i \in DOMAIN shown \cup {h.call.id} |->
                  IF i = h.call.id THEN [on |-> h.call.on, status |-> h.status, result |-> had]
                                   ELSE shown[i]]
        /\ h.type = "result" => shown' = [shown EXCEPT ![h.call.id].result = TRUE]
        /\ cards' = IF h.type = "card" THEN [cards EXCEPT ![h.server] = h.status] ELSE cards
    BY <1>8, <2>1, <2>2 DEF PartArrives
  <2>. HIDE DEF h
  <2>5. /\ DOMAIN shown \subseteq DOMAIN shown'
        /\ DOMAIN shown' = IF h.type = "call" THEN DOMAIN shown \cup {h.call.id} ELSE DOMAIN shown
        /\ \A i \in DOMAIN shown : (h.type = "call" /\ h.call.id = i) \/ shown'[i].status = shown[i].status
        /\ \A i \in DOMAIN shown : shown[i].result => shown'[i].result
        /\ h.type = "call" => shown'[h.call.id].status = h.status
        /\ h.type = "result" /\ h.call.id \in DOMAIN shown => shown'[h.call.id].result
    <3>1. CASE h.type = "card"
      BY <2>4, <3>1
    <3>2. CASE h.type = "call"
      <4>1. PICK had : /\ had = (h.call.id \in DOMAIN shown /\ shown[h.call.id].result)
             /\ shown' = [i \in DOMAIN shown \cup {h.call.id} |->
                  IF i = h.call.id THEN [on |-> h.call.on, status |-> h.status, result |-> had]
                                   ELSE shown[i]]
        BY <2>4, <3>2
      <4>. QED
        BY <3>2, <4>1
    <3>3. CASE h.type = "result"
      <4>1. shown' = [shown EXCEPT ![h.call.id].result = TRUE]
        BY <2>4, <3>3
      <4>2. \A i \in DOMAIN shown : shown[i] \in [on : Targets, status : Statuses, result : BOOLEAN]
        BY DEF TypeInv, TypeOK
      <4>. QED
        BY <3>3, <4>1, <4>2
    <3>. QED
      BY <2>1, <3>1, <3>2, <3>3 DEF h
  <2>6. ASSUME NEW id, NEW S, CallSettles(id, S) PROVE CallSettles(id, S)'
    <3>1. CASE h.type = "call" /\ h.call.id = id
      <4>1. ShownAs(id, S)' => h \in Parts(id, S)
        BY <2>3, <2>5, <3>1 DEF ShownAs, Parts
      <4>. QED
        BY <2>1, <2>6, <4>1, ArrivalSettles DEF h
    <3>2. CASE ~(h.type = "call" /\ h.call.id = id)
      <4>1. ShownAs(id, S)' => ShownAs(id, S)
        BY <2>5, <3>2 DEF ShownAs
      <4>2. h \notin Parts(id, Statuses \ S)
        BY <3>2 DEF Parts
      <4>. QED
        BY <2>1, <2>6, <4>1, <4>2, ArrivalSettles DEF h
    <3>. QED
      BY <3>1, <3>2
  <2>7. ASSUME NEW s \in Servers, CardSettles(s) PROVE CardSettles(s)'
    <3>1. CASE h.type = "card" /\ h.server = s
      <4>1. cards'[s] = "pending" => h \in CardsOf(s, {"pending"})
        BY <2>3, <2>4, <3>1 DEF CardsOf, TypeInv, TypeOK
      <4>. QED
        BY <2>1, <2>7, <4>1, ArrivalSettlesCard DEF h
    <3>2. CASE ~(h.type = "card" /\ h.server = s)
      <4>1. cards'[s] = cards[s] /\ h \notin CardsOf(s, Answering)
        BY <2>4, <3>2 DEF CardsOf, TypeInv, TypeOK
      <4>. QED
        BY <2>1, <2>7, <4>1, ArrivalSettlesCard DEF h
    <3>. QED
      BY <3>1, <3>2
  <2>8. ASSUME NEW id, Introduced(id) PROVE Introduced(id)'
    <3>1. h \in Parts(id, Statuses) => id \in DOMAIN shown'
      BY <2>5 DEF Parts
    <3>. QED
      BY <2>1, <2>5, <2>8, <3>1, ArrivalIntroduces DEF h
  <2>9. CallsOnScreen' /\ CardsOnScreen'
    BY <1>2, <1>3, <2>6, <2>7, <2>8 DEF CallsOnScreen, CardsOnScreen, Asking, Busy, AsksFor
  <2>10. ASSUME NEW id \in used PROVE Answered(id)'
    <3>1. Answered(id) /\ Introduced(id)
      BY <1>2, <1>6, <2>1 DEF ResultsOnScreen, CallsOnScreen, TypeInv, TypeOK
    <3>2. CASE Due(id)
      BY <1>3, <3>2 DEF Answered, Due
    <3>3. CASE id \in DOMAIN shown /\ shown[id].result
      BY <2>5, <3>3 DEF Answered
    <3>4. CASE Carries(toWindow, Results(id)) /\ h \notin Results(id)
      <4>1. Carries(toWindow', Results(id))
        BY <2>1, <3>4, ArrivalCarries DEF h
      <4>. QED
        BY <4>1 DEF Answered, Results, Carries
    <3>5. CASE h \in Results(id)
      <4>1. 1 \in DOMAIN toWindow /\ toWindow[1] \in Results(id)
        BY <2>1, <3>5, Arrived DEF h
      <4>2. id \in DOMAIN shown
        <5>1. \A j \in DOMAIN toWindow : ~(j < 1)
          BY <2>1, Arrived
        <5>. QED
          BY <3>1, <4>1, <5>1 DEF Introduced
      <4>. QED
        BY <2>5, <3>5, <4>2 DEF Answered, Results
    <3>. QED
      BY <3>1, <3>2, <3>3, <3>4, <3>5 DEF Answered
  <2>. QED
    BY <1>3, <2>9, <2>10 DEF ResultsOnScreen
<1>9. \/ UNCHANGED <<shown, cards, toWindow>> \/ SendPrompt \/ ReplyArrives \/ EndArrives \/ PartArrives
  BY DEF WindowNext, Prepared, PrepareFails, Stop, CloseTab, ClearConversation, AnswerCall, AnswerTrust, window
<1>. QED
  BY <1>4, <1>5, <1>7, <1>8, <1>9

(* The handlers.                                                           *)
LEMMA MainScreen == ASSUME TypeInv, TurnInv, ScreenInv, MainNext PROVE ScreenInv'
<1>. SUFFICES ASSUME alive' PROVE CallsOnScreen' /\ CardsOnScreen' /\ ResultsOnScreen'
  BY DEF ScreenInv
<1>1. ~WindowGone
  BY DEF WindowGone
<1>2. alive /\ CallsOnScreen /\ CardsOnScreen /\ ResultsOnScreen
  BY <1>1 DEF MainNext, MainSends, MainApproves, MainResolvesTrust, MainCancels, TrustRecorded, window, ScreenInv
<1>3. CASE MainSends
  <2>1. /\ toMain # <<>> /\ Head(toMain).op = "send" /\ UNCHANGED window /\ used' = {}
        /\ loop' = [Off EXCEPT !.at = "deps", !.server = 1]
        /\ toWindow' = Append(toWindow, Reply(Head(toMain).m))
    BY <1>3 DEF MainSends, Received
  <2>2. Sending
    <3>1. Head(toMain) = toMain[1] /\ 1 \in DOMAIN toMain
      BY <2>1, Rest DEF TypeInv, TypeOK
    <3>. QED
      BY <2>1, <3>1 DEF Sending
  <2>3. toWindow = <<>> /\ DOMAIN shown' = {} /\ cards' = NoCards
    BY <2>1, <2>2 DEF TurnInv, TabInv, SendInv, window
  <2>4. \A k \in DOMAIN toWindow' : toWindow'[k].type = "reply"
    <3>1. PICK p : p = Reply(Head(toMain).m)
      OBVIOUS
    <3>2. p.type = "reply"
      BY <3>1, EventFields
    <3>3. toWindow' = <<p>>
      BY <2>1, <2>3, <3>1
    <3>. QED
      BY <3>2, <3>3
  <2>5. /\ \A k \in DOMAIN toWindow' : \A id, S : toWindow'[k] \notin Parts(id, S)
        /\ \A k \in DOMAIN toWindow' : \A id : toWindow'[k] \notin Results(id)
        /\ \A k \in DOMAIN toWindow' : \A s, S : toWindow'[k] \notin CardsOf(s, S)
    BY <2>4 DEF Parts, Results, CardsOf
  <2>6. \A s \in Servers : cards'[s] = "none"
    BY <2>3 DEF NoCards
  <2>7. \A id, S : CallSettles(id, S)'
    BY <2>3, <2>5 DEF CallSettles, Followed, ShownAs, Parts
  <2>8. \A s \in Servers : CardSettles(s)'
    BY <2>5, <2>6 DEF CardSettles, Followed, CardsOf
  <2>9. \A id : Introduced(id)'
    BY <2>5 DEF Introduced, Results
  <2>. QED
    BY <2>1, <2>7, <2>8, <2>9 DEF CallsOnScreen, CardsOnScreen, ResultsOnScreen
<1>4. CASE UNCHANGED <<window, toWindow, turn>>
  BY <1>2, <1>4 DEF CallsOnScreen, CardsOnScreen, ResultsOnScreen, CallSettles, CardSettles, Introduced,
     ShownAs, Asking, Busy, AsksFor, Due, OnScreen, Answered, window, turn
<1>. QED
  BY <1>1, <1>3, <1>4 DEF MainNext, MainApproves, MainResolvesTrust, MainCancels, TrustRecorded

(* What the parts say.                                                     *)
LEMMA PartsSay ==
    /\ \A c \in Call, st \in Statuses :
          /\ \A id, S : CallPart(c, st) \in Parts(id, S) <=> c.id = id /\ st \in S
          /\ \A id : CallPart(c, st) \notin Results(id)
          /\ \A s, S : CallPart(c, st) \notin CardsOf(s, S)
    /\ \A c \in Call :
          /\ \A id, S : ResultPart(c) \notin Parts(id, S)
          /\ \A id : ResultPart(c) \in Results(id) <=> c.id = id
          /\ \A s, S : ResultPart(c) \notin CardsOf(s, S)
    /\ \A s \in Servers, st \in {"pending", "trusted", "skipped"} :
          /\ \A id, S : Card(s, st) \notin Parts(id, S)
          /\ \A id : Card(s, st) \notin Results(id)
          /\ \A t, S : Card(s, st) \in CardsOf(t, S) <=> s = t /\ st \in S
    /\ /\ \A id, S : Ended \notin Parts(id, S)
       /\ \A id : Ended \notin Results(id)
       /\ \A t, S : Ended \notin CardsOf(t, S)
<1>1. ASSUME NEW c \in Call, NEW st \in Statuses
      PROVE  /\ \A id, S : CallPart(c, st) \in Parts(id, S) <=> c.id = id /\ st \in S
             /\ \A id : CallPart(c, st) \notin Results(id)
             /\ \A s, S : CallPart(c, st) \notin CardsOf(s, S)
  <2>1. PICK p : p = CallPart(c, st)
    OBVIOUS
  <2>2. p \in EventMessage /\ p.type = "call" /\ p.call = c /\ p.status = st
    BY <2>1, EventMessages, EventFields
  <2>3. /\ \A id, S : p \in Parts(id, S) <=> c.id = id /\ st \in S
        /\ \A id : p \notin Results(id)
        /\ \A s, S : p \notin CardsOf(s, S)
    BY <2>2 DEF Parts, Results, CardsOf
  <2>. QED
    BY <2>1, <2>3
<1>2. ASSUME NEW c \in Call
      PROVE  /\ \A id, S : ResultPart(c) \notin Parts(id, S)
             /\ \A id : ResultPart(c) \in Results(id) <=> c.id = id
             /\ \A s, S : ResultPart(c) \notin CardsOf(s, S)
  <2>1. PICK p : p = ResultPart(c)
    OBVIOUS
  <2>2. p \in EventMessage /\ p.type = "result" /\ p.call = c
    BY <2>1, EventMessages, EventFields
  <2>3. /\ \A id, S : p \notin Parts(id, S)
        /\ \A id : p \in Results(id) <=> c.id = id
        /\ \A s, S : p \notin CardsOf(s, S)
    BY <2>2 DEF Parts, Results, CardsOf
  <2>. QED
    BY <2>1, <2>3
<1>3. ASSUME NEW s \in Servers, NEW st \in {"pending", "trusted", "skipped"}
      PROVE  /\ \A id, S : Card(s, st) \notin Parts(id, S)
             /\ \A id : Card(s, st) \notin Results(id)
             /\ \A t, S : Card(s, st) \in CardsOf(t, S) <=> s = t /\ st \in S
  <2>1. PICK p : p = Card(s, st)
    OBVIOUS
  <2>2. p \in EventMessage /\ p.type = "card" /\ p.server = s /\ p.status = st
    BY <2>1, EventMessages, EventFields
  <2>3. /\ \A id, S : p \notin Parts(id, S)
        /\ \A id : p \notin Results(id)
        /\ \A t, S : p \in CardsOf(t, S) <=> s = t /\ st \in S
    BY <2>2 DEF Parts, Results, CardsOf
  <2>. QED
    BY <2>1, <2>3
<1>4. /\ \A id, S : Ended \notin Parts(id, S)
      /\ \A id : Ended \notin Results(id)
      /\ \A t, S : Ended \notin CardsOf(t, S)
  <2>1. PICK p : p = Ended
    OBVIOUS
  <2>2. p.type = "end"
    BY <2>1, EventFields
  <2>. QED
    BY <2>1, <2>2 DEF Parts, Results, CardsOf
<1>. QED
  BY <1>1, <1>2, <1>3, <1>4

(* What the loop emits settles a call or a card when it ends with another  *)
(* status, or does not touch it.                                           *)
LEMMA EmitSettles ==
    ASSUME TypeInv, alive, NEW parts \in Seq(EventMessage), Emit(parts), UNCHANGED shown,
           NEW id, NEW S, ~Carries(parts, Parts(id, S)),
           CallSettles(id, S) \/ Carries(parts, Parts(id, Statuses \ S))
    PROVE  CallSettles(id, S)'
<1>1. Followed(toWindow', Parts(id, S), Parts(id, Statuses \ S))
  BY EmitFollowed DEF CallSettles
<1>2. ShownAs(id, S) => Carries(toWindow', Parts(id, Statuses \ S))
  BY EmitCarries DEF CallSettles
<1>. QED
  BY <1>1, <1>2 DEF CallSettles, Parts, Followed, Carries, ShownAs

(* The same for a card.                                                    *)
LEMMA EmitSettlesCard ==
    ASSUME TypeInv, alive, NEW parts \in Seq(EventMessage), Emit(parts), UNCHANGED cards,
           NEW s, ~Carries(parts, CardsOf(s, {"pending"})),
           CardSettles(s) \/ Carries(parts, CardsOf(s, Answering))
    PROVE  CardSettles(s)'
<1>1. Followed(toWindow', CardsOf(s, {"pending"}), CardsOf(s, Answering))
  BY EmitFollowed DEF CardSettles
<1>2. cards[s] = "pending" => Carries(toWindow', CardsOf(s, Answering))
  BY EmitCarries DEF CardSettles
<1>. QED
  BY <1>1, <1>2 DEF CardSettles, CardsOf, Followed, Carries

(* A result the loop emits comes after a part of its call.                 *)
LEMMA EmitIntroduces ==
    ASSUME TypeInv, alive, NEW parts \in Seq(EventMessage), Emit(parts), UNCHANGED shown,
           NEW id, Introduced(id),
           \A k \in DOMAIN parts : parts[k] \in Results(id) =>
              \E j \in DOMAIN parts : j < k /\ parts[j] \in Parts(id, Statuses)
    PROVE  Introduced(id)'
<1>1. SUFFICES ASSUME NEW k \in DOMAIN toWindow', toWindow'[k] \in Results(id), id \notin DOMAIN shown
               PROVE  \E j \in DOMAIN toWindow' : j < k /\ toWindow'[j] \in Parts(id, Statuses)
  BY DEF Introduced, Results, Parts
<1>2. CASE k \in DOMAIN toWindow
  <2>1. toWindow[k] \in Results(id)
    BY <1>1, <1>2, Emitted
  <2>2. PICK j \in DOMAIN toWindow : j < k /\ toWindow[j] \in Parts(id, Statuses)
    BY <1>1, <1>2, <2>1 DEF Introduced
  <2>3. j \in DOMAIN toWindow' /\ toWindow'[j] = toWindow[j]
    BY <2>2, Emitted
  <2>. QED
    BY <2>2, <2>3
<1>3. ASSUME NEW i \in DOMAIN parts, k = Len(toWindow) + i
      PROVE  \E j \in DOMAIN toWindow' : j < k /\ toWindow'[j] \in Parts(id, Statuses)
  <2>1. parts[i] \in Results(id)
    BY <1>1, <1>3, Emitted
  <2>2. PICK j \in DOMAIN parts : j < i /\ parts[j] \in Parts(id, Statuses)
    BY <2>1
  <2>3. Len(toWindow) + j \in DOMAIN toWindow' /\ toWindow'[Len(toWindow) + j] = parts[j]
    BY <2>2, Emitted
  <2>4. Len(toWindow) + j < k
    <3>1. i \in Nat /\ j \in Nat /\ Len(toWindow) \in Nat
      BY <2>2, Emitted
    <3>. QED
      BY <1>3, <2>2, <3>1
  <2>. QED
    BY <2>2, <2>3, <2>4
<1>. QED
  BY <1>1, <1>2, <1>3, Emitted

(* What the loop has to say for the screen to stay right.                  *)
LEMMA EmitScreen ==
    ASSUME TypeInv, alive, ScreenInv, loop.at # "off", UNCHANGED window,
           NEW parts \in Seq(EventMessage), Emit(parts),
           \A id \in Ids : \/ Asking(id)'
                           \/ /\ ~Carries(parts, Parts(id, Waiting))
                              /\ ~Asking(id) \/ Carries(parts, Parts(id, Statuses \ Waiting)),
           \A id \in Ids : \/ Busy(id)'
                           \/ /\ ~Carries(parts, Parts(id, AtWork))
                              /\ ~Busy(id) \/ Carries(parts, Parts(id, Statuses \ AtWork)),
           \A id \in Ids : \A k \in DOMAIN parts : parts[k] \in Results(id) =>
              \E j \in DOMAIN parts : j < k /\ parts[j] \in Parts(id, Statuses),
           \A s \in Servers : \/ AsksFor(s)'
                              \/ /\ ~Carries(parts, CardsOf(s, {"pending"}))
                                 /\ ~AsksFor(s) \/ Carries(parts, CardsOf(s, Answering)),
           \A id \in used' : \/ Due(id)' \/ Carries(parts, Results(id))
                             \/ id \in used /\ ~Due(id)
    PROVE  ScreenInv'
<1>1. CallsOnScreen /\ CardsOnScreen /\ (\A id \in used : Answered(id)) /\ UNCHANGED <<shown, cards>>
  BY DEF ScreenInv, ResultsOnScreen, OnScreen, window
<1>2. ASSUME NEW id \in Ids PROVE Asking(id)' \/ CallSettles(id, Waiting)'
  BY <1>1, EmitSettles DEF CallsOnScreen
<1>3. ASSUME NEW id \in Ids PROVE Busy(id)' \/ CallSettles(id, AtWork)'
  BY <1>1, EmitSettles DEF CallsOnScreen
<1>4. ASSUME NEW id \in Ids PROVE Introduced(id)'
  BY <1>1, EmitIntroduces DEF CallsOnScreen
<1>5. ASSUME NEW s \in Servers PROVE AsksFor(s)' \/ CardSettles(s)'
  BY <1>1, EmitSettlesCard DEF CardsOnScreen
<1>6. ASSUME NEW id \in used' PROVE Answered(id)'
  <2>1. CASE Due(id)'
    BY <2>1 DEF Answered
  <2>2. CASE Carries(parts, Results(id))
    <3>1. Carries(toWindow', Results(id))
      BY <2>2, EmitCarries
    <3>. QED
      BY <3>1 DEF Answered, Results, Carries
  <2>3. CASE id \in used /\ ~Due(id)
    <3>1. Carries(toWindow, Results(id)) => Carries(toWindow', Results(id))
      BY EmitCarries
    <3>. QED
      BY <1>1, <2>3, <3>1 DEF Answered, Results, Carries
  <2>. QED
    BY <1>6, <2>1, <2>2, <2>3
<1>. QED
  BY <1>2, <1>3, <1>4, <1>5, <1>6 DEF ScreenInv, CallsOnScreen, CardsOnScreen, ResultsOnScreen

(* The loop.                                                               *)
LEMMA LoopScreen == ASSUME TypeInv, ScreenInv, LoopGoesOn \/ Others PROVE ScreenInv'
<1>0. LoopKind /\ UNCHANGED window
  BY LoopKinds
<1>. SUFFICES ASSUME alive PROVE ScreenInv'
  BY <1>0 DEF ScreenInv, window
<1>1. /\ TypeOK /\ toWindow \in Seq(EventMessage) /\ loop.todo \in Seq(Call)
      /\ toWindow' = toWindow => Emit(<<>>)
  <2>1. /\ TypeOK /\ toWindow \in Seq(EventMessage) /\ loop.todo \in Seq(Call)
    BY DEF TypeInv, TypeOK
  <2>2. toWindow \o <<>> = toWindow
    BY <2>1, ConcatEmptySeq
  <2>. QED
    BY <2>1, <2>2 DEF Emit
<1>2. /\ <<>> \in Seq(EventMessage) /\ \A A : ~Carries(<<>>, A)
  BY DEF Carries
<1>3. loop.todo # <<>> => /\ Head(loop.todo) = loop.todo[1] /\ Head(loop.todo) \in Call
                         /\ 1 \in DOMAIN loop.todo /\ Head(loop.todo).id \in Ids
  <2>1. ASSUME loop.todo # <<>>
        PROVE  Head(loop.todo) = loop.todo[1] /\ Head(loop.todo) \in Call /\ 1 \in DOMAIN loop.todo
    BY <1>1, <2>1, Rest
  <2>2. \A c \in Call : c.id \in Ids
    BY DEF Call
  <2>. QED
    BY <2>1, <2>2
<1>4. ASSUME NEW p, NEW A PROVE Carries(<<p>>, A) <=> p \in A
  <2>1. DOMAIN <<p>> = {1} /\ <<p>>[1] = p
    OBVIOUS
  <2>. QED
    BY <2>1 DEF Carries
<1>5. ASSUME NEW p, NEW q, NEW A PROVE Carries(<<p, q>>, A) <=> p \in A \/ q \in A
  <2>1. DOMAIN <<p, q>> = {1, 2} /\ <<p, q>>[1] = p /\ <<p, q>>[2] = q
    OBVIOUS
  <2>. QED
    BY <2>1 DEF Carries
<1>6. ASSUME NEW calls \in Seq(Call)
      PROVE  /\ Refused(calls) \in Seq(EventMessage)
             /\ \A id : ~Carries(Refused(calls), Parts(id, Waiting)) /\ ~Carries(Refused(calls), Parts(id, AtWork))
             /\ \A s, S : ~Carries(Refused(calls), CardsOf(s, S))
             /\ \A j \in DOMAIN calls :
                   /\ Carries(Refused(calls), Results(calls[j].id))
                   /\ Carries(Refused(calls), Parts(calls[j].id, Statuses \ Waiting))
                   /\ Carries(Refused(calls), Parts(calls[j].id, Statuses \ AtWork))
             /\ \A id : \A k \in DOMAIN Refused(calls) : Refused(calls)[k] \in Results(id) =>
                   \E j \in DOMAIN Refused(calls) : j < k /\ Refused(calls)[j] \in Parts(id, Statuses)
  <2>. DEFINE r == Refused(calls)
  <2>. HIDE DEF r
  <2>1. /\ r \in Seq(EventMessage)
        /\ \A k \in DOMAIN r : \E j \in DOMAIN calls :
              r[k] = CallPart(calls[j], "error") \/ r[k] = ResultPart(calls[j])
        /\ \A j \in DOMAIN calls : \E k \in DOMAIN r :
              r[k] = CallPart(calls[j], "error") /\ k + 1 \in DOMAIN r /\ r[k + 1] = ResultPart(calls[j])
        /\ \A k \in DOMAIN r, j \in DOMAIN calls : r[k] = ResultPart(calls[j]) =>
              k > 1 /\ r[k - 1] = CallPart(calls[j], "error")
    <3>1. r \in Seq(EventMessage)
      BY RefusedParts DEF r
    <3>2. \A k \in DOMAIN r : \E j \in DOMAIN calls :
              r[k] = CallPart(calls[j], "error") \/ r[k] = ResultPart(calls[j])
      BY RefusedParts DEF r
    <3>3. \A j \in DOMAIN calls : \E k \in DOMAIN r :
              r[k] = CallPart(calls[j], "error") /\ k + 1 \in DOMAIN r /\ r[k + 1] = ResultPart(calls[j])
      BY RefusedParts DEF r
    <3>4. \A k \in DOMAIN r, j \in DOMAIN calls : r[k] = ResultPart(calls[j]) =>
              k > 1 /\ r[k - 1] = CallPart(calls[j], "error")
      BY RefusedParts DEF r
    <3>. QED
      BY <3>1, <3>2, <3>3, <3>4
  <2>2. /\ \A j \in DOMAIN calls : calls[j] \in Call
        /\ "error" \in Statuses /\ "error" \notin Waiting /\ "error" \notin AtWork
    BY DEF Statuses, Waiting, AtWork
  <2>3. ASSUME NEW k \in DOMAIN r
        PROVE  /\ \A id : r[k] \notin Parts(id, Waiting) /\ r[k] \notin Parts(id, AtWork)
               /\ \A s, S : r[k] \notin CardsOf(s, S)
    <3>1. PICK j \in DOMAIN calls : r[k] = CallPart(calls[j], "error") \/ r[k] = ResultPart(calls[j])
      BY <2>1
    <3>. QED
      BY <2>2, <3>1, PartsSay
  <2>4. ASSUME NEW j \in DOMAIN calls
        PROVE  /\ Carries(r, Results(calls[j].id))
               /\ Carries(r, Parts(calls[j].id, Statuses \ Waiting))
               /\ Carries(r, Parts(calls[j].id, Statuses \ AtWork))
    <3>1. PICK k \in DOMAIN r : /\ r[k] = CallPart(calls[j], "error") /\ k + 1 \in DOMAIN r
                                /\ r[k + 1] = ResultPart(calls[j])
      BY <2>1
    <3>2. /\ r[k] \in Parts(calls[j].id, Statuses \ Waiting) /\ r[k] \in Parts(calls[j].id, Statuses \ AtWork)
          /\ r[k + 1] \in Results(calls[j].id)
      BY <2>2, <3>1, PartsSay
    <3>. QED
      BY <3>1, <3>2 DEF Carries
  <2>5. ASSUME NEW id, NEW k \in DOMAIN r, r[k] \in Results(id)
        PROVE  \E j \in DOMAIN r : j < k /\ r[j] \in Parts(id, Statuses)
    <3>1. PICK j \in DOMAIN calls : r[k] = CallPart(calls[j], "error") \/ r[k] = ResultPart(calls[j])
      BY <2>1
    <3>2. r[k] = ResultPart(calls[j]) /\ calls[j].id = id
      BY <2>2, <2>5, <3>1, PartsSay
    <3>3. k > 1 /\ r[k - 1] = CallPart(calls[j], "error")
      BY <2>1, <3>2
    <3>6. DOMAIN r = 1..Len(r) /\ Len(r) \in Nat
      BY <2>1
    <3>4. k - 1 \in DOMAIN r /\ k - 1 < k
      BY <3>3, <3>6
    <3>5. r[k - 1] \in Parts(id, Statuses)
      BY <2>2, <3>2, <3>3, PartsSay
    <3>. QED
      BY <3>4, <3>5
  <2>. QED
    BY <2>1, <2>3, <2>4, <2>5 DEF r, Carries
<1>7. ASSUME NEW id, Busy(id) \/ Asking(id) PROVE id = Head(loop.todo).id
  BY <1>7 DEF Busy, Asking
<1>8. ASSUME Quiet PROVE ScreenInv'
  <2>1. /\ toWindow' = toWindow /\ used' = used /\ loop.at \notin Talking \cup {"off"}
        /\ loop.at \in InRound => loop.todo = <<>>
    BY <1>8 DEF Quiet
  <2>2. /\ \A id : ~Asking(id) /\ ~Busy(id) /\ ~Due(id)
        /\ \A s : ~AsksFor(s)
    BY <2>1 DEF Asking, Busy, Due, AsksFor, Talking
  <2>3. DOMAIN <<>> = {}
    OBVIOUS
  <2>. QED
    BY <1>0, <1>1, <1>2, <2>1, <2>2, <2>3, EmitScreen
<1>9. ASSUME AsksTrust PROVE ScreenInv'
  <2>0. PICK s : s = loop.server
    OBVIOUS
  <2>1. /\ s \in Servers /\ Emit(<<Card(s, "pending")>>) /\ used' = used
        /\ loop.at = "isTrusted" /\ AsksFor(s)'
    BY <1>9, <2>0 DEF AsksTrust, AsksFor
  <2>2. /\ \A id : ~Asking(id) /\ ~Busy(id) /\ ~Due(id)
        /\ \A t : ~AsksFor(t)
    BY <2>1 DEF Asking, Busy, Due, AsksFor, InRound
  <2>3. PICK p : p = Card(s, "pending")
    OBVIOUS
  <2>4. /\ p \in EventMessage
        /\ \A id, S : p \notin Parts(id, S)
        /\ \A id : p \notin Results(id)
        /\ \A t, S : p \in CardsOf(t, S) => s = t
    BY <2>1, <2>3, PartsSay, EventMessages
  <2>5. <<p>> \in Seq(EventMessage) /\ Emit(<<p>>) /\ DOMAIN <<p>> = {1} /\ <<p>>[1] = p
    BY <2>1, <2>3, <2>4
  <2>6. \A A : Carries(<<p>>, A) <=> p \in A
    BY <1>4
  <2>7. \A t \in Servers : AsksFor(t)' \/ (~Carries(<<p>>, CardsOf(t, {"pending"})) /\ ~AsksFor(t))
    BY <2>1, <2>2, <2>4, <2>6
  <2>8. \A id : ~Carries(<<p>>, Parts(id, Waiting)) /\ ~Carries(<<p>>, Parts(id, AtWork))
    BY <2>4, <2>6
  <2>. QED
    BY <1>0, <2>1, <2>2, <2>4, <2>5, <2>7, <2>8, EmitScreen
<1>10. ASSUME TrustSettled PROVE ScreenInv'
  <2>. DEFINE s == loop.server
  <2>1. /\ s \in Servers /\ used' = used /\ loop.at = "askTrust"
        /\ \A t : AsksFor(t) => t = s
    BY <1>10 DEF TrustSettled, AsksFor
  <2>2. \A id : ~Asking(id) /\ ~Busy(id) /\ ~Due(id)
    BY <2>1 DEF Asking, Busy, Due, InRound
  <2>3. PICK st \in {"trusted", "skipped"} : Emit(<<Card(s, st)>>)
    BY <1>10 DEF TrustSettled
  <2>. HIDE DEF s
  <2>4. PICK p : p = Card(s, st)
    OBVIOUS
  <2>5. /\ p \in EventMessage
        /\ \A id, S : p \notin Parts(id, S)
        /\ \A id : p \notin Results(id)
        /\ \A t : p \notin CardsOf(t, {"pending"})
        /\ p \in CardsOf(s, Answering)
    BY <2>1, <2>4, PartsSay, EventMessages DEF Answering
  <2>6. <<p>> \in Seq(EventMessage) /\ Emit(<<p>>) /\ DOMAIN <<p>> = {1} /\ <<p>>[1] = p
    BY <2>3, <2>4, <2>5
  <2>7. \A A : Carries(<<p>>, A) <=> p \in A
    BY <1>4
  <2>8. \A t \in Servers : /\ ~Carries(<<p>>, CardsOf(t, {"pending"}))
                           /\ ~AsksFor(t) \/ Carries(<<p>>, CardsOf(t, Answering))
    BY <2>1, <2>5, <2>7 DEF s
  <2>9. \A id : ~Carries(<<p>>, Parts(id, Waiting)) /\ ~Carries(<<p>>, Parts(id, AtWork))
    BY <2>5, <2>7
  <2>. QED
    BY <1>0, <2>1, <2>2, <2>5, <2>6, <2>8, <2>9, EmitScreen
<1>11. ASSUME NEW calls \in Seq(Call), RefusesAll(calls) PROVE ScreenInv'
  <2>1. /\ used' = used \cup {calls[k].id : k \in DOMAIN calls} /\ loop.at = "streaming"
        /\ Emit(Refused(calls))
    BY <1>11 DEF RefusesAll, Given
  <2>2. /\ \A id : ~Asking(id) /\ ~Busy(id) /\ ~Due(id)
        /\ \A t : ~AsksFor(t)
    BY <2>1 DEF Asking, Busy, Due, AsksFor, InRound
  <2>. QED
    BY <1>0, <1>6, <2>1, <2>2, EmitScreen
<1>12. ASSUME NEW calls \in Seq(Call), TakesUp(calls) PROVE ScreenInv'
  <2>1. /\ used' = used \cup {calls[k].id : k \in DOMAIN calls} /\ loop.at = "streaming"
        /\ toWindow' = toWindow /\ loop'.at = "calls" /\ loop'.todo = calls
    BY <1>12 DEF TakesUp, Given
  <2>2. /\ \A id : ~Asking(id) /\ ~Busy(id) /\ ~Due(id)
        /\ \A t : ~AsksFor(t)
    BY <2>1 DEF Asking, Busy, Due, AsksFor, InRound
  <2>3. \A k \in DOMAIN calls : Due(calls[k].id)'
    BY <2>1 DEF Due, InRound
  <2>4. DOMAIN <<>> = {}
    OBVIOUS
  <2>. QED
    BY <1>0, <1>1, <1>2, <2>1, <2>2, <2>3, <2>4, EmitScreen
<1>13. ASSUME GivesUp PROVE ScreenInv'
  <2>1. PICK r : r = Refused(loop.todo)
    OBVIOUS
  <2>2. /\ loop.at \in InRound /\ loop.todo # <<>> /\ loop.at # "off" /\ used' = used /\ Emit(r)
    BY <1>13, <2>1 DEF GivesUp, Heeds, InRound
  <2>3. \A t : ~AsksFor(t)
    BY <2>2 DEF AsksFor, InRound
  <2>4. \A id : Busy(id) \/ Asking(id) => id = loop.todo[1].id
    BY <1>3, <1>7, <2>2
  <2>5. /\ r \in Seq(EventMessage)
        /\ \A id : ~Carries(r, Parts(id, Waiting)) /\ ~Carries(r, Parts(id, AtWork))
        /\ \A s : ~Carries(r, CardsOf(s, {"pending"}))
        /\ \A id : \A k \in DOMAIN r : r[k] \in Results(id) =>
              \E j \in DOMAIN r : j < k /\ r[j] \in Parts(id, Statuses)
        /\ \A j \in DOMAIN loop.todo :
              /\ Carries(r, Results(loop.todo[j].id))
              /\ Carries(r, Parts(loop.todo[j].id, Statuses \ Waiting))
              /\ Carries(r, Parts(loop.todo[j].id, Statuses \ AtWork))
    BY <1>1, <1>6, <2>1
  <2>6. \A id : Busy(id) \/ Asking(id) =>
              /\ Carries(r, Parts(id, Statuses \ Waiting))
              /\ Carries(r, Parts(id, Statuses \ AtWork))
    BY <1>3, <2>2, <2>4, <2>5
  <2>7. \A id : Due(id) => Carries(r, Results(id))
    BY <2>5 DEF Due
  <2>8. /\ \A id \in Ids : \/ Asking(id)'
                           \/ /\ ~Carries(r, Parts(id, Waiting))
                              /\ ~Asking(id) \/ Carries(r, Parts(id, Statuses \ Waiting))
        /\ \A id \in Ids : \/ Busy(id)'
                           \/ /\ ~Carries(r, Parts(id, AtWork))
                              /\ ~Busy(id) \/ Carries(r, Parts(id, Statuses \ AtWork))
    BY <2>5, <2>6
  <2>. QED
    BY <1>0, <2>2, <2>3, <2>5, <2>7, <2>8, EmitScreen
<1>14. ASSUME NEW st \in Finals, SettlesCall(st) PROVE ScreenInv'
  <2>1. /\ loop.at \in InRound /\ loop.todo # <<>> /\ used' = used
        /\ loop'.at = "calls" /\ loop'.todo = Tail(loop.todo)
        /\ Emit(<<CallPart(Head(loop.todo), st), ResultPart(Head(loop.todo))>>)
    BY <1>14 DEF SettlesCall, Heeds
  <2>2. PICK c : c = Head(loop.todo)
    OBVIOUS
  <2>3. PICK p, r : p = CallPart(c, st) /\ r = ResultPart(c)
    OBVIOUS
  <2>4. /\ c \in Call /\ c = loop.todo[1] /\ st \in Statuses /\ st \notin Waiting /\ st \notin AtWork
    BY <1>3, <2>1, <2>2 DEF Finals, Statuses, Waiting, AtWork
  <2>5. /\ p \in EventMessage /\ r \in EventMessage
        /\ \A id, S : p \in Parts(id, S) <=> c.id = id /\ st \in S
        /\ \A id, S : r \notin Parts(id, S)
        /\ \A id : p \notin Results(id) /\ (r \in Results(id) <=> c.id = id)
        /\ \A t, S : p \notin CardsOf(t, S) /\ r \notin CardsOf(t, S)
    BY <2>3, <2>4, PartsSay, EventMessages
  <2>6. /\ <<p, r>> \in Seq(EventMessage) /\ Emit(<<p, r>>)
        /\ DOMAIN <<p, r>> = {1, 2} /\ <<p, r>>[1] = p /\ <<p, r>>[2] = r
    BY <2>1, <2>2, <2>3, <2>5
  <2>7. \A t : ~AsksFor(t)
    BY <2>1 DEF AsksFor, InRound
  <2>8. \A id : Busy(id) \/ Asking(id) => id = c.id
    BY <1>7, <2>2
  <2>9. ASSUME NEW id, Due(id) PROVE Due(id)' \/ id = c.id
    <3>1. PICK j \in DOMAIN loop.todo : loop.todo[j].id = id
      BY <2>9 DEF Due
    <3>2. CASE j = 1
      BY <2>4, <3>1, <3>2
    <3>3. CASE j # 1
      <4>1. j - 1 \in DOMAIN Tail(loop.todo) /\ Tail(loop.todo)[j - 1] = loop.todo[j]
        BY <1>1, <2>1, <3>1, <3>3, Rest
      <4>. QED
        BY <2>1, <3>1, <4>1 DEF Due, InRound
    <3>. QED
      BY <3>2, <3>3
  <2>10. \A id : \A k \in DOMAIN <<p, r>> : <<p, r>>[k] \in Results(id) =>
            \E j \in DOMAIN <<p, r>> : j < k /\ <<p, r>>[j] \in Parts(id, Statuses)
    BY <2>4, <2>5, <2>6
  <2>11. /\ \A id : ~Carries(<<p, r>>, Parts(id, Waiting)) /\ ~Carries(<<p, r>>, Parts(id, AtWork))
         /\ \A t, S : ~Carries(<<p, r>>, CardsOf(t, S))
         /\ Carries(<<p, r>>, Results(c.id))
         /\ Carries(<<p, r>>, Parts(c.id, Statuses \ Waiting))
         /\ Carries(<<p, r>>, Parts(c.id, Statuses \ AtWork))
    BY <1>5, <2>4, <2>5
  <2>. QED
    BY <1>0, <2>1, <2>6, <2>7, <2>8, <2>9, <2>10, <2>11, EmitScreen DEF InRound
<1>15. ASSUME NEW st \in AtWork, Emit(<<CallPart(Head(loop.todo), st)>>), loop.at \in InRound,
              loop.todo # <<>>, loop'.todo = loop.todo, used' = used,
              \/ st = "running" /\ loop'.at = "calling"
              \/ st = "pending-approval" /\ loop'.at = "askApproval" /\ loop.at = "calls"
       PROVE  ScreenInv'
  <2>1. PICK c : c = Head(loop.todo)
    OBVIOUS
  <2>2. PICK p : p = CallPart(c, st)
    OBVIOUS
  <2>3. c \in Call /\ st \in Statuses
    BY <1>3, <1>15, <2>1 DEF Statuses, AtWork
  <2>4. /\ p \in EventMessage
        /\ \A id, S : p \in Parts(id, S) <=> c.id = id /\ st \in S
        /\ \A id : p \notin Results(id)
        /\ \A t, S : p \notin CardsOf(t, S)
    BY <2>2, <2>3, PartsSay, EventMessages
  <2>5. /\ <<p>> \in Seq(EventMessage) /\ Emit(<<p>>) /\ DOMAIN <<p>> = {1} /\ <<p>>[1] = p
    BY <1>15, <2>1, <2>2, <2>4
  <2>6. \A t : ~AsksFor(t)
    BY <1>15 DEF AsksFor, InRound
  <2>7. \A id : Busy(id) \/ Asking(id) => id = c.id
    BY <1>7, <2>1
  <2>8. \A id : Due(id) => Due(id)'
    BY <1>15 DEF Due, InRound
  <2>9. /\ Busy(c.id)'
        /\ st = "pending-approval" => Asking(c.id)'
        /\ st = "running" => st \in Statuses \ Waiting /\ st \notin Waiting
    BY <1>15, <2>1, <2>3 DEF Busy, Asking, Waiting
  <2>10. \A A : Carries(<<p>>, A) <=> p \in A
    BY <1>4
  <2>11. \A id : \/ Asking(id)'
                 \/ /\ ~Carries(<<p>>, Parts(id, Waiting))
                    /\ ~Asking(id) \/ Carries(<<p>>, Parts(id, Statuses \ Waiting))
    BY <1>15, <2>4, <2>7, <2>9, <2>10
  <2>12. \A id : Busy(id)' \/ (~Carries(<<p>>, Parts(id, AtWork)) /\ ~Busy(id))
    BY <2>4, <2>7, <2>9, <2>10
  <2>13. \A id \in Ids : \A k \in DOMAIN <<p>> : <<p>>[k] \in Results(id) =>
            \E j \in DOMAIN <<p>> : j < k /\ <<p>>[j] \in Parts(id, Statuses)
    BY <2>4, <2>5
  <2>14. \A s \in Servers : ~Carries(<<p>>, CardsOf(s, {"pending"}))
    BY <2>4, <2>10
  <2>. QED
    BY <1>0, <1>15, <2>5, <2>6, <2>8, <2>11, <2>12, <2>13, <2>14, EmitScreen DEF InRound
<1>16. ASSUME Runs \/ Asks PROVE ScreenInv'
  BY <1>15, <1>16 DEF Runs, Asks, Heeds, InRound, AtWork
<1>17. ASSUME Ends PROVE ScreenInv'
  <2>1. Emit(<<Ended>>) /\ used' = used /\ loop.at = "closing"
    BY <1>17 DEF Ends
  <2>2. /\ \A id : ~Asking(id) /\ ~Busy(id) /\ ~Due(id)
        /\ \A t : ~AsksFor(t)
    BY <2>1 DEF Asking, Busy, Due, AsksFor, InRound
  <2>3. PICK p : p = Ended
    OBVIOUS
  <2>4. /\ p \in EventMessage
        /\ \A id, S : p \notin Parts(id, S)
        /\ \A id : p \notin Results(id)
        /\ \A t, S : p \notin CardsOf(t, S)
    BY <2>3, PartsSay, EventMessages
  <2>5. <<p>> \in Seq(EventMessage) /\ Emit(<<p>>) /\ DOMAIN <<p>> = {1} /\ <<p>>[1] = p
    BY <2>1, <2>3, <2>4
  <2>. QED
    BY <1>0, <1>4, <2>1, <2>2, <2>4, <2>5, EmitScreen
<1>. QED
  BY <1>0, <1>8, <1>9, <1>10, <1>11, <1>12, <1>13, <1>14, <1>16, <1>17 DEF LoopKind

(* Every step keeps the screen right.                                      *)
LEMMA ScreenStays == ASSUME TypeInv, TurnInv, IdInv, ScreenInv, [Next]_vars PROVE ScreenInv'
<1>1. ASSUME UNCHANGED vars PROVE ScreenInv'
  BY <1>1 DEF ScreenInv, CallsOnScreen, CardsOnScreen, ResultsOnScreen, CallSettles, CardSettles, Introduced,
     ShownAs, Asking, Busy, AsksFor, Due, OnScreen, Answered, vars, window, main, turn
<1>. QED
  BY <1>1, WindowScreen, MainScreen, LoopScreen DEF Next

-----------------------------------------------------------------------------
(* All of it together, and what follows.                                   *)
ChatInv == TypeInv /\ TurnInv /\ AskInv /\ IdInv /\ WordInv /\ ScreenInv

(* The invariant holds in every state.                                     *)
LEMMA ChatInvariant == Spec => []ChatInv
<1>1. Init => ChatInv
  BY TypesBegin, TurnBegins, AskBegins, IdsBegin, WordBegins, ScreenBegins DEF ChatInv
<1>2. ChatInv /\ [Next]_vars => ChatInv'
  BY TypesStay, TurnStays, AskStays, IdsStay, WordStays, ScreenStays DEF ChatInv
<1>. QED
  BY <1>1, <1>2, PTL DEF Spec

(* No tool and no command runs before the user's word for it: not when the *)
(* click is late, is for another call, or was for an earlier conversation. *)
THEOREM ConsentComesFirst == Spec => []ConsentFirst
<1>1. ChatInv => CallsAreApproved
  BY DEF ChatInv, WordInv, AnswerInv
<1>. QED
  BY <1>1, ChatInvariant, CommandsNeedTrust, PTL DEF ConsentFirst

(* A question on the screen of a quiet turn has its resolver in main.      *)
THEOREM QuestionsAnswerable == Spec => []QuestionsCanBeAnswered
<1>1. ASSUME ChatInv, tab = "streaming", toMain = <<>>, toWindow = <<>>, answer = "none"
      PROVE  /\ \A id \in DOMAIN shown : shown[id].status = "pending-approval" => id \in approvals
             /\ \A s \in Servers : cards[s] = "pending" => s \in gates \cup recording
  <2>1. CallsOnScreen /\ CardsOnScreen
    BY <1>1 DEF ChatInv, TurnInv, TabInv, ScreenInv
  <2>2. \A A : ~Carries(toWindow, A)
    BY <1>1 DEF Carries
  <2>3. ASSUME NEW id \in DOMAIN shown, shown[id].status = "pending-approval" PROVE id \in approvals
    <3>1. id \in Ids /\ ShownAs(id, Waiting)
      BY <1>1, <2>3 DEF ChatInv, TypeInv, TypeOK, ShownAs, Waiting
    <3>2. Asking(id)
      BY <2>1, <2>2, <3>1 DEF CallsOnScreen, CallSettles
    <3>. QED
      BY <1>1, <3>2 DEF ChatInv, AskInv, Asking, Decisions
  <2>4. ASSUME NEW s \in Servers, cards[s] = "pending" PROVE s \in gates \cup recording
    <3>1. AsksFor(s)
      BY <2>1, <2>2, <2>4 DEF CardsOnScreen, CardSettles
    <3>. QED
      BY <1>1, <3>1 DEF ChatInv, AskInv, AsksFor
  <2>. QED
    BY <2>3, <2>4
<1>2. ChatInv => QuestionsCanBeAnswered
  BY <1>1 DEF QuestionsCanBeAnswered
<1>. QED
  BY <1>2, ChatInvariant, PTL

(* A turn that is over left nothing undecided on the screen, has a result  *)
(* for each call the model asked for, and holds no session.                *)
THEOREM TurnSettles == Spec => []TurnIsSettled
<1>1. ASSUME ChatInv, alive, tab = "idle", At("off"), DOMAIN shown # {}
      PROVE  /\ Cardinality(DOMAIN shown) = asked
             /\ \A id \in DOMAIN shown :
                   shown[id].result /\ shown[id].status \notin {"pending-approval", "running"}
             /\ \A s \in Servers : cards[s] # "pending"
             /\ open = {} /\ entry = 0
  <2>1. /\ loop.at = "off" /\ toWindow = <<>> /\ open = {} /\ entry = 0
        /\ \A A : ~Carries(toWindow, A)
    BY <1>1 DEF ChatInv, TurnInv, TabInv, Settled, EntryInv, Carries, At
  <2>2. CallsOnScreen /\ CardsOnScreen /\ \A id \in used : Answered(id)
    BY <1>1 DEF ChatInv, ScreenInv, ResultsOnScreen, OnScreen
  <2>3. \A id \in used : id \in DOMAIN shown /\ shown[id].result
    BY <2>1, <2>2 DEF Answered, Due, InRound
  <2>4. DOMAIN shown = used /\ Cardinality(used) = asked
    BY <1>1, <2>3 DEF ChatInv, IdInv, ShownKnown
  <2>5. ASSUME NEW id \in DOMAIN shown PROVE shown[id].status \notin {"pending-approval", "running"}
    <3>1. id \in Ids /\ ~Busy(id)
      BY <1>1, <2>1 DEF ChatInv, TypeInv, TypeOK, Busy
    <3>2. ~ShownAs(id, AtWork)
      BY <2>1, <2>2, <3>1 DEF CallsOnScreen, CallSettles
    <3>. QED
      BY <3>2 DEF ShownAs, AtWork
  <2>6. ASSUME NEW s \in Servers PROVE cards[s] # "pending"
    BY <2>1, <2>2 DEF CardsOnScreen, CardSettles, AsksFor
  <2>. QED
    BY <2>1, <2>3, <2>4, <2>5, <2>6
<1>2. ChatInv => TurnIsSettled
  BY <1>1 DEF TurnIsSettled
<1>. QED
  BY <1>2, ChatInvariant, PTL

=============================================================================
