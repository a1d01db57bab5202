------------------------------- MODULE ChatTui -------------------------------
(***************************************************************************)
(* The terminal client of the chat example: one thread draws and handles  *)
(* the buttons, one task makes the remote calls, and a channel of bounded *)
(* capacity is between them.  A button that wants an answer puts the      *)
(* sender of a oneshot into its request and blocks the thread in recv(),  *)
(* so the client draws nothing until the task, which serves one request   *)
(* after the other, has come to it.                                        *)
(*                                                                         *)
(* What the server does is any outcome of a call: success, a refusal (of  *)
(* a login) or an error.  The text of a message is its number.            *)
(***************************************************************************)
EXTENDS Naturals, SequencesExt

CONSTANTS
    Users,       (* nicknames the server may list                           *)
    GlobalChat,  (* the text "GLOBAL CHAT"                                  *)
    Capacity,    (* of the channel, 32 in the code                          *)
    Blanks,      (* blank lines the list of messages starts with, 34        *)
    MaxLines,    (* bound: lines shown and received                         *)
    None

ASSUME CapacityAssumption == Capacity \in Nat \ {0}
ASSUME BlanksAssumption == Blanks \in Nat \ {0}
ASSUME MaxLinesAssumption == MaxLines \in Nat

VARIABLES
    \* the thread: where it stands, the dialog on top, what it waits for
    ui, layer, asked, rx,
    \* the views: whom to write to, the lines, and how many there have been
    to, messages, MESSAGE_COUNT,
    \* the channel, the request the task is at, and whether its call hangs
    queue, hand, hung,
    \* the lines of other users, not yet shown
    inbox,
    \* history: the messages the task has made its calls for
    called

waitVars   == <<asked, rx>>
viewVars   == <<to, messages, MESSAGE_COUNT>>
workerVars == <<hand, hung, called>>
vars == <<ui, layer, waitVars, viewVars, queue, workerVars, inbox>>

Targets  == Users \cup {GlobalChat}
Texts    == 0 .. MaxLines
Asks     == {"Login", "GetAllUser", "Ping"}
MessageSend == [kind : Asks \cup {"Talk", "PrivateChat"}, to : Targets, text : Texts]
Lines    == [from : {"blank", "me", "other"}, to : Targets, text : Texts]
Line(from, t, text) == [from |-> from, to |-> t, text |-> text]

ASSUME NoneAssumption ==
    /\ None \notin MessageSend \cup Asks \cup {"empty", "ok", "refused", "dropped"}
    /\ GlobalChat \notin Users

TypeOK ==
    /\ ui \in {"connect", "error", "login", "chat", "wait", "quit", "panicked"}
    /\ layer \in {"none", "info", "select"}
    /\ asked \in Asks \cup {None}
    /\ rx \in {None, "empty", "ok", "refused", "dropped"}
    /\ to \in Targets
    /\ messages \in Seq(Lines)
    /\ MESSAGE_COUNT \in 0 .. MaxLines
    /\ queue \in Seq(MessageSend) /\ Len(queue) <= Capacity
    /\ hand \in MessageSend \cup {None}
    /\ hung \in BOOLEAN
    /\ inbox \in Seq(Lines)
    /\ called \in Seq(MessageSend)

Init ==
    /\ ui = "connect" /\ layer = "none" /\ asked = None /\ rx = None
    /\ to = GlobalChat /\ messages = << >> /\ MESSAGE_COUNT = 0
    /\ queue = << >> /\ hand = None /\ hung = FALSE
    /\ inbox = << >> /\ called = << >>

\* A handler runs: no dialog is on top, and the thread does not wait.
Handles(view) == ui = view /\ layer = "none"
Running       == ui \notin {"quit", "panicked"}

\* A dialog that only says something.
Inform == layer' = "info" /\ UNCHANGED <<ui, waitVars, viewVars, queue, workerVars, inbox>>

-----------------------------------------------------------------------------
(* The views                                                               *)

\* Mutant: one line too many.
Limit_late == Blanks + 1

Limit == Blanks - 1     \* 33

Smaller(a, b) == IF a < b THEN a ELSE b

\* Each new line takes the place of the first one, until Limit lines have come.
Show(lines) ==
    LET n    == MESSAGE_COUNT + Len(lines)
        gone == Smaller(n, Limit) - Smaller(MESSAGE_COUNT, Limit)
        all  == messages \o lines
    IN  /\ MESSAGE_COUNT' = n
        /\ messages' = SubSeq(all, gone + 1, Len(all))

ConnectNetwork ==
    /\ ui = "connect"
    /\ ui' \in {"login", "error"}
    /\ UNCHANGED <<layer, waitVars, viewVars, queue, workerVars, inbox>>

\* The button of the dialog that says why, or Quit.
Quit ==
    /\ Handles("chat") \/ ui = "error"
    /\ ui' = "quit"
    /\ UNCHANGED <<layer, waitVars, viewVars, queue, workerVars, inbox>>

\* Okay, Ok or Exit.
Dismiss ==
    /\ ui \in {"login", "chat"} /\ layer # "none"
    /\ layer' = "none"
    /\ UNCHANGED <<ui, waitVars, viewVars, queue, workerVars, inbox>>

\* The loop shows what has come; before the login there is nowhere to show it.
TryIter ==
    /\ ui \in {"login", "chat"} /\ inbox # << >>
    /\ inbox' = << >>
    /\ IF ui = "chat" THEN Show(inbox) ELSE UNCHANGED <<messages, MESSAGE_COUNT>>
    /\ UNCHANGED <<ui, layer, waitVars, to, queue, workerVars>>

-----------------------------------------------------------------------------
(* The channel                                                             *)

\* Mutant: a full channel takes the request and loses it.
TrySend_lossy(m) == queue' = IF Len(queue) < Capacity THEN Append(queue, m) ELSE queue

TrySend(m) == Len(queue) < Capacity /\ queue' = Append(queue, m)

Full == Len(queue) >= Capacity

Request(kind, t, text) == [kind |-> kind, to |-> t, text |-> text]

\* Put the sender of a new oneshot into the channel and wait at its receiver.
Ask(kind, t) ==
    /\ TrySend(Request(kind, t, 0))
    /\ ui' = "wait" /\ asked' = kind /\ rx' = "empty"
    /\ UNCHANGED <<layer, viewVars, workerVars, inbox>>

Panic == ui' = "panicked" /\ UNCHANGED <<layer, waitVars, viewVars, queue, workerVars, inbox>>

-----------------------------------------------------------------------------
(* The buttons                                                             *)

NoName == Handles("login") /\ Inform

\* Mutant: the login dialog does not wait for the answer.
Login_hasty ==
    /\ Handles("login")
    /\ \/ TrySend(Request("Login", GlobalChat, 0)) /\ UNCHANGED ui
       \/ Full /\ ui' = "panicked" /\ UNCHANGED queue
    /\ UNCHANGED <<layer, waitVars, viewVars, workerVars, inbox>>

\* try_send(..).unwrap()
Login ==
    /\ Handles("login")
    /\ \/ Ask("Login", GlobalChat)
       \/ Full /\ Panic

\* No text, or no room in the channel: a dialog, and the text stays.
NotSent == Handles("chat") /\ Inform

\* Mutant: the line is shown whether the channel takes it or not.
SendMsg_shown ==
    LET text == MESSAGE_COUNT + 1 IN
    /\ Handles("chat")
    /\ MESSAGE_COUNT + Len(inbox) < MaxLines
    /\ TrySend_lossy(Request(IF to = GlobalChat THEN "Talk" ELSE "PrivateChat", to, text))
    /\ Show(<<Line("me", to, text)>>)
    /\ UNCHANGED <<ui, layer, waitVars, to, workerVars, inbox>>

\* event_send_msg: the line is shown when the channel has taken it.
SendMsg ==
    LET text == MESSAGE_COUNT + 1 IN
    /\ Handles("chat")
    /\ MESSAGE_COUNT + Len(inbox) < MaxLines
    /\ TrySend(Request(IF to = GlobalChat THEN "Talk" ELSE "PrivateChat", to, text))
    /\ Show(<<Line("me", to, text)>>)
    /\ UNCHANGED <<ui, layer, waitVars, to, workerVars, inbox>>

PrivateChat ==
    /\ Handles("chat")
    /\ \/ Ask("GetAllUser", GlobalChat)
       \/ Full /\ Inform

Ping ==
    /\ Handles("chat")
    /\ \/ to = GlobalChat /\ Inform
       \/ to # GlobalChat /\ Ask("Ping", to)
       \/ to # GlobalChat /\ Full /\ Inform

\* The list holds GLOBAL CHAT and whom the server has named, who may have left since.
Submit(n) ==
    /\ ui = "chat" /\ layer = "select"
    /\ to' = n
    /\ layer' = "none"
    /\ UNCHANGED <<ui, waitVars, messages, MESSAGE_COUNT, queue, workerVars, inbox>>

Woken(view, dialog) ==
    /\ ui' = view /\ layer' = dialog /\ asked' = None /\ rx' = None
    /\ UNCHANGED <<to, queue, workerVars, inbox>>

\* recv() returns: the thread goes on with its handler.
LoggedIn ==
    /\ ui = "wait" /\ asked = "Login" /\ rx = "ok"
    /\ messages' = [i \in 1 .. Blanks |-> Line("blank", GlobalChat, 0)]
    /\ Woken("chat", "none")
    /\ UNCHANGED MESSAGE_COUNT

LoginError ==
    /\ ui = "wait" /\ asked = "Login" /\ rx = "refused"
    /\ Woken("login", "info")
    /\ UNCHANGED <<messages, MESSAGE_COUNT>>

Answered ==
    /\ ui = "wait" /\ asked # "Login" /\ rx = "ok"
    /\ Woken("chat", IF asked = "GetAllUser" THEN "select" ELSE "info")
    /\ UNCHANGED <<messages, MESSAGE_COUNT>>

\* recv().unwrap() of a sender that is gone.
Unanswered == ui = "wait" /\ rx = "dropped" /\ Panic

-----------------------------------------------------------------------------
(* The task                                                                *)

Recv ==
    /\ Running /\ hand = None /\ queue # << >>
    /\ hand' = Head(queue)
    /\ queue' = Tail(queue)
    /\ UNCHANGED <<ui, layer, waitVars, viewVars, hung, called, inbox>>

Returns == Running /\ hand # None /\ ~hung /\ hand' = None

\* talk or to; an error is only logged.
Say ==
    /\ Returns /\ hand.kind \notin Asks
    /\ called' = Append(called, hand)
    /\ UNCHANGED <<ui, layer, waitVars, viewVars, queue, hung, inbox>>

\* Mutant: an error leaves the sender unused and alive.
Verdict_kept(kind) == CASE kind = "Login" -> {"ok", "refused"} [] OTHER -> {"ok", "empty"}

\* login answers its errors too; the others drop the sender.
Verdict(kind) == CASE kind = "Login" -> {"ok", "refused"} [] OTHER -> {"ok", "dropped"}

Answer ==
    /\ Returns /\ hand.kind \in Asks
    /\ rx' \in Verdict(hand.kind)
    /\ UNCHANGED <<ui, layer, asked, viewVars, queue, hung, called, inbox>>

\* Calls time out, but one that connects anew may wait for the server's handshake as
\* long as that takes.
Handshake ==
    /\ Running /\ hand # None
    /\ hung' = ~hung
    /\ UNCHANGED <<ui, layer, waitVars, viewVars, queue, hand, called, inbox>>

\* The controller's message: a task of the client's own.
Message ==
    /\ Running
    /\ MESSAGE_COUNT + Len(inbox) < MaxLines
    /\ inbox' = Append(inbox, Line("other", GlobalChat, 0))
    /\ UNCHANGED <<ui, layer, waitVars, viewVars, queue, workerVars>>

-----------------------------------------------------------------------------
Wakes == LoggedIn \/ LoginError \/ Answered \/ Unanswered

Thread ==
    \/ ConnectNetwork \/ Quit \/ Dismiss \/ TryIter \/ NoName \/ Login
    \/ NotSent \/ SendMsg \/ PrivateChat \/ Ping \/ Wakes
    \/ \E n \in Targets : Submit(n)

Worker == Recv \/ Say \/ Answer

Next == Thread \/ Worker \/ Handshake \/ Message

\* The thread and the task are scheduled, and a call ends unless it hangs in a
\* handshake.  The user owes nothing.
Fairness == WF_vars(Wakes) /\ WF_vars(Worker)

Spec     == Init /\ [][Next]_vars
FairSpec == Spec /\ Fairness
-----------------------------------------------------------------------------
IsMessage(m) == m.kind \notin Asks
InHand       == IF hand = None THEN << >> ELSE <<hand>>
Requests     == called \o InHand \o queue
Shown(l)     == Request(IF l.to = GlobalChat THEN "Talk" ELSE "PrivateChat", l.to, l.text)

\* The lines the user has written are the calls the task has made, makes and is going to
\* make, to whom they show; and both are in the order of their numbers.
ShownIsSent ==
    /\ {Shown(l) : l \in {l \in ToSet(messages) : l.from = "me"}} =
          {m \in ToSet(Requests) : IsMessage(m)}
    /\ \A i, j \in DOMAIN messages :
          i < j /\ messages[i].from = "me" /\ messages[j].from = "me" =>
              messages[i].text < messages[j].text
    /\ \A i, j \in DOMAIN Requests :
          i < j /\ IsMessage(Requests[i]) /\ IsMessage(Requests[j]) =>
              Requests[i].text < Requests[j].text

\* Only an error of get_users or ping ends the client: a login finds room in the
\* channel, and is always answered.
PanicsOnErrors == ui = "panicked" => rx = "dropped" /\ asked \in {"GetAllUser", "Ping"}

\* Lines that go are blank ones at the front; the others stay in front of what comes.
BlankOnesGo ==
    \E gone \in 0 .. Len(messages) :
       /\ \A i \in 1 .. gone : messages[i].from = "blank"
       /\ \A i \in gone + 1 .. Len(messages) :
             i - gone \in DOMAIN messages' /\ messages'[i - gone] = messages[i]

\* No line of the chat goes again, however many come, for the blank ones are enough.
LinesStay == [][BlankOnesGo]_vars

\* The thread does not wait for good, unless the task's call hangs.
WaitEnds == ui = "wait" ~> ui # "wait" \/ hung
=============================================================================
