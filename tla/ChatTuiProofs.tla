---------------------------- MODULE ChatTuiProofs ----------------------------
(* Proofs of the safety properties of ChatTui, for any users, capacity of *)
(* the channel and number of lines.                                        *)
EXTENDS ChatTui, SequenceFacts, TLAPS

-----------------------------------------------------------------------------
(* The invariants                                                          *)

\* The request in the task's hand, if there is one.
Hand == IF hand = None THEN {} ELSE {hand}

Typing ==
    /\ TypeOK
    /\ MESSAGE_COUNT + Len(inbox) <= MaxLines
    /\ \A l \in ToSet(inbox) : l.from = "other"

\* No request that wants an answer is under way.
Quiet ==
    /\ hand # None => IsMessage(hand)
    /\ \A i \in DOMAIN queue : IsMessage(queue[i])

\* The one the thread waits for is, in the task's hand or in the channel.
Asked ==
    \/ /\ hand # None /\ hand.kind = asked
       /\ \A i \in DOMAIN queue : IsMessage(queue[i])
    \/ /\ hand # None => IsMessage(hand)
       /\ \E i \in DOMAIN queue :
             queue[i].kind = asked /\ \A j \in DOMAIN queue : j # i => IsMessage(queue[j])

\* The thread waits for an answer that is to come, or has come, or never will; when it
\* does not wait there is none.
Waits ==
    /\ ui = "wait" => asked \in Asks /\ rx \in {"empty", "ok", "refused", "dropped"}
    /\ ui \notin {"wait", "panicked"} => asked = None /\ rx = None
    /\ rx = "empty" => ui = "wait" /\ Asked
    /\ rx # "empty" => Quiet
    /\ rx = "refused" => asked = "Login"
    /\ rx = "dropped" => asked \in {"GetAllUser", "Ping"}
    /\ PanicsOnErrors

\* Before the login there are no lines; after it the blank ones are in front, as many as
\* the lines shown have left, and more than none.
Fresh == messages = << >> /\ MESSAGE_COUNT = 0

Blanked ==
    /\ Len(messages) = Blanks + (MESSAGE_COUNT - Smaller(MESSAGE_COUNT, Limit))
    /\ \A i \in 1 .. Blanks - Smaller(MESSAGE_COUNT, Limit) : messages[i].from = "blank"

Views ==
    /\ ui \in {"connect", "error", "login"} \/ (ui = "wait" /\ asked = "Login") => Fresh
    /\ ui = "chat" \/ (ui = "wait" /\ asked # "Login") => Blanked

\* The elements of D in the sequence s have rising numbers.
Sorted(s, D) == \A i, j \in DOMAIN s : i < j /\ s[i] \in D /\ s[j] \in D => s[i].text < s[j].text

\* The messages in A have lower numbers than those in B.
Before(A, B) == \A a \in A, b \in B : IsMessage(a) /\ IsMessage(b) => a.text < b.text

Messages == {m \in MessageSend : IsMessage(m)}
OwnLines == {l \in Lines : l.from = "me"}

\* The user's own lines are the messages, and both are in order.
Written ==
    /\ {Shown(l) : l \in ToSet(messages) \cap OwnLines} =
          (ToSet(called) \cup Hand \cup ToSet(queue)) \cap Messages
    /\ \A l \in ToSet(messages) \cap OwnLines : l.text <= MESSAGE_COUNT
    /\ Sorted(messages, OwnLines)
    /\ Sorted(called, Messages) /\ Sorted(queue, Messages)
    /\ Before(ToSet(called), Hand) /\ Before(ToSet(called), ToSet(queue))
    /\ Before(Hand, ToSet(queue))

IInv == Typing /\ Waits /\ Views /\ Written

-----------------------------------------------------------------------------
(* Sequences whose elements are in order                                   *)

LEMMA SortedAppend ==
    ASSUME NEW S, NEW D, NEW q \in Seq(S), NEW e \in S, Sorted(q, D),
           e \in D => \A x \in ToSet(q) \cap D : x.text < e.text
    PROVE  Sorted(Append(q, e), D)
<1>1. PICK r \in Seq(S) : r = Append(q, e) BY AppendProperties
<1>2. /\ Len(r) = Len(q) + 1 /\ Len(q) \in Nat /\ r[Len(q) + 1] = e
      /\ \A i \in 1 .. Len(q) : r[i] = q[i]
      /\ DOMAIN r = 1 .. Len(r) /\ DOMAIN q = 1 .. Len(q)
  BY <1>1, AppendProperties, LenProperties
<1>3. ASSUME NEW i \in DOMAIN r, NEW j \in DOMAIN r, i < j, r[i] \in D, r[j] \in D
      PROVE  r[i].text < r[j].text
  <2>1. i \in 1 .. Len(q) BY <1>2, <1>3
  <2>2. r[i] = q[i] /\ q[i] \in ToSet(q) BY <1>2, <2>1 DEF ToSet
  <2>3. CASE j \in 1 .. Len(q) BY <1>2, <1>3, <2>1, <2>3 DEF Sorted
  <2>4. CASE j = Len(q) + 1 BY <1>2, <1>3, <2>2, <2>4
  <2>5. QED BY <1>2, <1>3, <2>3, <2>4
<1>4. QED BY <1>1, <1>3 DEF Sorted

LEMMA SortedConcat ==
    ASSUME NEW S, NEW D, NEW a \in Seq(S), NEW b \in Seq(S), Sorted(a, D), Sorted(b, D),
           \A x \in ToSet(a) \cap D, y \in ToSet(b) \cap D : x.text < y.text
    PROVE  Sorted(a \o b, D)
<1>1. PICK c \in Seq(S) : c = a \o b BY ConcatProperties
<1>2. /\ Len(c) = Len(a) + Len(b) /\ Len(a) \in Nat /\ Len(b) \in Nat
      /\ \A i \in 1 .. Len(a) + Len(b) : c[i] = IF i <= Len(a) THEN a[i] ELSE b[i - Len(a)]
      /\ DOMAIN a = 1 .. Len(a) /\ DOMAIN b = 1 .. Len(b) /\ DOMAIN c = 1 .. Len(c)
  BY <1>1, ConcatProperties, LenProperties
<1>3. ASSUME NEW i \in DOMAIN c, i <= Len(a)
      PROVE  i \in DOMAIN a /\ c[i] = a[i] /\ c[i] \in ToSet(a)
  <2>1. i \in DOMAIN a /\ c[i] = a[i] BY <1>2, <1>3
  <2>2. QED BY <2>1 DEF ToSet
<1>4. ASSUME NEW i \in DOMAIN c, ~(i <= Len(a))
      PROVE  i - Len(a) \in DOMAIN b /\ c[i] = b[i - Len(a)] /\ c[i] \in ToSet(b)
  <2>1. i - Len(a) \in DOMAIN b /\ c[i] = b[i - Len(a)] BY <1>2, <1>4
  <2>2. QED BY <2>1 DEF ToSet
<1>5. ASSUME NEW i \in DOMAIN c, NEW j \in DOMAIN c, i < j, c[i] \in D, c[j] \in D
      PROVE  c[i].text < c[j].text
  <2>1. i \in Nat /\ j \in Nat BY <1>2
  <2>2. CASE j <= Len(a)
    <3>1. i <= Len(a) BY <1>2, <1>5, <2>1, <2>2
    <3>2. QED BY <1>3, <1>5, <2>2, <3>1 DEF Sorted
  <2>3. CASE i <= Len(a) /\ ~(j <= Len(a)) BY <1>3, <1>4, <1>5, <2>3
  <2>4. CASE ~(i <= Len(a))
    <3>1. ~(j <= Len(a)) /\ i - Len(a) < j - Len(a) BY <1>2, <1>5, <2>1, <2>4
    <3>2. QED BY <1>4, <1>5, <2>4, <3>1 DEF Sorted
  <2>5. QED BY <2>2, <2>3, <2>4
<1>6. QED BY <1>1, <1>5 DEF Sorted

LEMMA SortedEnd ==
    ASSUME NEW S, NEW D, NEW q \in Seq(S), NEW d \in 0 .. Len(q), Sorted(q, D)
    PROVE  Sorted(SubSeq(q, d + 1, Len(q)), D)
<1>1. PICK r \in Seq(S) : r = SubSeq(q, d + 1, Len(q)) BY EndMeans
<1>2. /\ Len(r) = Len(q) - d /\ Len(q) \in Nat /\ \A i \in 1 .. Len(q) - d : r[i] = q[d + i]
      /\ DOMAIN r = 1 .. Len(r) /\ DOMAIN q = 1 .. Len(q)
  BY <1>1, EndMeans, LenProperties
<1>3. ASSUME NEW i \in DOMAIN r, NEW j \in DOMAIN r, i < j, r[i] \in D, r[j] \in D
      PROVE  r[i].text < r[j].text
  <2>1. /\ d + i \in DOMAIN q /\ d + j \in DOMAIN q /\ d + i < d + j
        /\ r[i] = q[d + i] /\ r[j] = q[d + j]
    BY <1>2, <1>3
  <2>2. QED BY <1>3, <2>1 DEF Sorted
<1>4. QED BY <1>1, <1>3 DEF Sorted

LEMMA SortedTail ==
    ASSUME NEW S, NEW D, NEW q \in Seq(S), q # << >>, Sorted(q, D)
    PROVE  /\ Sorted(Tail(q), D)
           /\ Head(q) \in D => \A x \in ToSet(Tail(q)) \cap D : Head(q).text < x.text
<1>1. PICK r \in Seq(S) : r = Tail(q) BY HeadTailProperties
<1>2. /\ Len(r) = Len(q) - 1 /\ Len(q) \in Nat /\ Len(q) > 0
      /\ \A i \in 1 .. Len(r) : r[i] = q[i + 1]
      /\ DOMAIN r = 1 .. Len(r) /\ DOMAIN q = 1 .. Len(q)
  BY <1>1, HeadTailProperties, LenProperties, EmptySeq
<1>3. Head(q) = q[1] OBVIOUS
<1>4. \A i \in DOMAIN r : i + 1 \in DOMAIN q /\ 1 < i + 1 /\ r[i] = q[i + 1] BY <1>2
<1>5. \A i, j \in DOMAIN r : i < j => i + 1 < j + 1 BY <1>2
<1>6. Sorted(r, D) BY <1>4, <1>5 DEF Sorted
<1>7. 1 \in DOMAIN q BY <1>2
<1>8. ASSUME q[1] \in D, NEW x \in ToSet(r) \cap D PROVE q[1].text < x.text
  <2>1. PICK i \in DOMAIN r : r[i] = x BY <1>8 DEF ToSet
  <2>2. QED BY <1>4, <1>7, <1>8, <2>1 DEF Sorted
<1>9. QED BY <1>1, <1>3, <1>6, <1>8

-----------------------------------------------------------------------------
(* The lines                                                               *)

\* What is shown pushes blank lines out at the front, and leaves some.
LEMMA ShowMeans ==
    ASSUME TypeOK, Blanked, NEW lines \in Seq(Lines), Show(lines)
    PROVE  \E gone \in 0 .. Len(messages) :
              /\ \A i \in 1 .. gone : messages[i].from = "blank"
              /\ \A i \in gone + 1 .. Len(messages) :
                    i - gone \in DOMAIN messages' /\ messages'[i - gone] = messages[i]
              /\ messages' = SubSeq(messages \o lines, gone + 1, Len(messages \o lines))
              /\ gone \in 0 .. Len(messages \o lines)
              /\ Blanked'
<1>1. PICK q \in Seq(Lines) : q = messages BY DEF TypeOK
<1>2. PICK n : n = MESSAGE_COUNT OBVIOUS
<1>3. PICK k : k = n + Len(lines) OBVIOUS
<1>4. PICK L : L = Blanks - 1 OBVIOUS
<1>5. L \in Nat /\ Blanks = L + 1 /\ Limit = L
  BY <1>4, BlanksAssumption DEF Limit
<1>6. Len(lines) \in Nat /\ Len(q) \in Nat /\ n \in Nat /\ k \in Nat /\ n <= k
  BY <1>2, <1>3, LenProperties, MaxLinesAssumption DEF TypeOK
<1>7. PICK a : a = Smaller(n, L) OBVIOUS
<1>8. PICK b : b = Smaller(k, L) OBVIOUS
<1>9. /\ a \in Nat /\ b \in Nat /\ a <= b /\ b <= L /\ a <= n /\ b - a <= k - n
      /\ b <= k
  BY <1>5, <1>6, <1>7, <1>8 DEF Smaller
<1>10. PICK d : d = b - a OBVIOUS
<1>11. PICK all \in Seq(Lines) : all = q \o lines BY ConcatProperties
<1>12. /\ Len(all) = Len(q) + Len(lines)
       /\ \A i \in 1 .. Len(q) : all[i] = q[i]
  BY <1>6, <1>11, ConcatProperties
<1>13. MESSAGE_COUNT' = k /\ messages' = SubSeq(all, d + 1, Len(all))
  BY <1>1, <1>2, <1>3, <1>5, <1>7, <1>8, <1>10, <1>11 DEF Show
<1>14. Len(q) = (L + 1) + (n - a) /\ \A i \in 1 .. (L + 1) - a : q[i].from = "blank"
  BY <1>1, <1>2, <1>5, <1>7 DEF Blanked
<1>15. d \in 0 .. Len(q) /\ d \in 0 .. Len(all) /\ d <= (L + 1) - a
  BY <1>5, <1>6, <1>9, <1>10, <1>12, <1>14
<1>16. PICK r \in Seq(Lines) : r = SubSeq(all, d + 1, Len(all)) BY <1>15, EndMeans
<1>17. /\ Len(r) = Len(all) - d /\ DOMAIN r = 1 .. Len(r)
       /\ \A i \in 1 .. Len(all) - d : r[i] = all[d + i]
  BY <1>15, <1>16, EndMeans, LenProperties
<1>18. \A i \in 1 .. d : q[i].from = "blank" BY <1>5, <1>9, <1>10, <1>14, <1>15
<1>19. ASSUME NEW i \in d + 1 .. Len(q) PROVE i - d \in DOMAIN r /\ r[i - d] = q[i]
  <2>1. i - d \in 1 .. Len(all) - d /\ d + (i - d) = i /\ i \in 1 .. Len(q)
    BY <1>6, <1>12, <1>15, <1>19
  <2>2. QED BY <1>12, <1>17, <2>1
<1>20. Len(r) = Blanks + (k - b)
  <2>1. PICK m \in Nat : m = Len(lines) BY <1>6
  <2>2. k = n + m BY <1>3, <2>1
  <2>3. Len(r) = (((L + 1) + (n - a)) + m) - (b - a) BY <1>10, <1>12, <1>14, <1>17, <2>1
  <2>4. (((L + 1) + (n - a)) + m) - (b - a) = (L + 1) + ((n + m) - b) BY <1>5, <1>6, <1>9
  <2>5. QED BY <1>5, <2>2, <2>3, <2>4
<1>21. ASSUME NEW i \in 1 .. Blanks - b PROVE r[i].from = "blank"
  <2>1. d + i \in 1 .. (L + 1) - a /\ d + i \in 1 .. Len(q) /\ i \in 1 .. Len(all) - d
    BY <1>5, <1>6, <1>9, <1>10, <1>12, <1>14, <1>21
  <2>2. r[i] = q[d + i] BY <1>12, <1>17, <2>1
  <2>3. QED BY <1>14, <2>1, <2>2
<1>22. Blanked' BY <1>5, <1>8, <1>13, <1>16, <1>20, <1>21 DEF Blanked, Limit
<1>23. QED BY <1>1, <1>11, <1>13, <1>15, <1>16, <1>18, <1>19, <1>22

\* The user's own lines after that.
LEMMA ShownLines ==
    ASSUME TypeOK, NEW lines \in Seq(Lines), NEW gone \in 0 .. Len(messages),
           \A i \in 1 .. gone : messages[i].from = "blank",
           gone \in 0 .. Len(messages \o lines),
           messages' = SubSeq(messages \o lines, gone + 1, Len(messages \o lines)),
           Sorted(messages \o lines, OwnLines)
    PROVE  /\ messages' \in Seq(Lines) /\ Sorted(messages', OwnLines)
           /\ ToSet(messages') \cap OwnLines = (ToSet(messages) \cup ToSet(lines)) \cap OwnLines
<1>1. PICK q \in Seq(Lines) : q = messages BY DEF TypeOK
<1>2. PICK all \in Seq(Lines) : all = q \o lines BY ConcatProperties
<1>3. PICK r \in Seq(Lines) : r = SubSeq(all, gone + 1, Len(all))
  BY <1>1, <1>2, EndMeans
<1>4. messages' = r /\ gone \in 0 .. Len(all) BY <1>1, <1>2, <1>3
<1>5. Sorted(r, OwnLines) BY <1>1, <1>2, <1>3, <1>4, SortedEnd
<1>6. ToSet(all) = ToSet(q) \cup ToSet(lines) BY <1>2, ToSetConcat
<1>7. /\ Len(r) = Len(all) - gone /\ Len(all) \in Nat /\ DOMAIN r = 1 .. Len(r)
      /\ DOMAIN all = 1 .. Len(all) /\ \A i \in 1 .. Len(all) - gone : r[i] = all[gone + i]
  BY <1>3, <1>4, EndMeans, LenProperties
<1>8. \A i \in 1 .. gone : all[i].from = "blank"
  <2>1. /\ \A i \in 1 .. Len(q) + Len(lines) : all[i] = IF i <= Len(q) THEN q[i] ELSE lines[i - Len(q)]
        /\ Len(q) \in Nat /\ Len(lines) \in Nat
    BY <1>2, ConcatProperties, LenProperties
  <2>2. gone \in Nat /\ gone <= Len(q) BY <1>1, <2>1
  <2>3. ASSUME NEW i \in 1 .. gone PROVE all[i] = q[i]
    <3>1. i \in 1 .. Len(q) + Len(lines) /\ i <= Len(q) BY <2>1, <2>2
    <3>2. QED BY <2>1, <3>1
  <2>4. QED BY <1>1, <2>3
<1>9. ASSUME NEW x \in ToSet(r) PROVE x \in ToSet(all)
  <2>1. PICK i \in DOMAIN r : r[i] = x BY <1>9 DEF ToSet
  <2>2. i \in 1 .. Len(all) - gone /\ all[gone + i] = x BY <1>7, <2>1
  <2>3. gone \in Nat /\ gone <= Len(all) BY <1>4, <1>7
  <2>4. gone + i \in 1 .. Len(all) BY <1>7, <2>2, <2>3
  <2>5. QED BY <1>7, <2>2, <2>4 DEF ToSet
<1>10. ASSUME NEW x \in ToSet(all) \cap OwnLines PROVE x \in ToSet(r)
  <2>1. PICK i \in DOMAIN all : all[i] = x BY <1>10 DEF ToSet
  <2>2. x.from = "me" BY <1>10 DEF OwnLines
  <2>3. i \in 1 .. Len(all) /\ ~(i \in 1 .. gone) BY <1>7, <1>8, <2>1, <2>2
  <2>4. i - gone \in DOMAIN r /\ i - gone \in 1 .. Len(all) - gone /\ gone + (i - gone) = i
    BY <1>4, <1>7, <2>3
  <2>5. r[i - gone] = x BY <1>7, <2>1, <2>4
  <2>6. QED BY <2>4, <2>5 DEF ToSet
<1>11. QED BY <1>1, <1>4, <1>5, <1>6, <1>9, <1>10

\* A message under way or made has the number of a line, so one that has been given.
LEMMA NumbersAreGiven ==
    ASSUME IInv, NEW m \in (ToSet(called) \cup Hand \cup ToSet(queue)) \cap Messages
    PROVE  m.text <= MESSAGE_COUNT
<1>1. PICK l \in ToSet(messages) \cap OwnLines : m = Shown(l) BY DEF IInv, Written
<1>2. m.text = l.text BY <1>1 DEF Shown, Request
<1>3. QED BY <1>1, <1>2 DEF IInv, Written

LEMMA WrittenStays ==
    ASSUME Written, UNCHANGED <<messages, MESSAGE_COUNT, called, hand, queue>>
    PROVE  Written'
BY DEF Written, Hand, Sorted, Before

\* A step of the thread or of a controller that touches neither lines nor requests.
LEMMA ViewStep ==
    ASSUME IInv, TypeOK', Waits', Views',
           UNCHANGED <<messages, MESSAGE_COUNT, called, hand, queue, inbox>>
    PROVE  IInv'
<1>1. Typing' BY DEF IInv, Typing
<1>2. Written' BY WrittenStays DEF IInv
<1>3. QED BY <1>1, <1>2 DEF IInv

-----------------------------------------------------------------------------
(* The thread                                                              *)

LEMMA InformStep == ASSUME IInv, Inform PROVE IInv'
<1>1. /\ layer' = "info"
      /\ UNCHANGED <<ui, asked, rx, to, messages, MESSAGE_COUNT, queue, hand, hung, called, inbox>>
  BY DEF Inform, waitVars, viewVars, workerVars
<1>2. TypeOK' BY <1>1 DEF IInv, Typing, TypeOK
<1>3. Waits' BY <1>1 DEF IInv, Waits, Asked, Quiet, PanicsOnErrors
<1>4. Views' BY <1>1 DEF IInv, Views, Fresh, Blanked
<1>5. QED BY <1>1, <1>2, <1>3, <1>4, ViewStep

LEMMA DialogStep == ASSUME IInv, Dismiss \/ \E n \in Targets : Submit(n) PROVE IInv'
<1>1. /\ layer' = "none" /\ to' \in Targets
      /\ UNCHANGED <<ui, asked, rx, messages, MESSAGE_COUNT, queue, hand, hung, called, inbox>>
  BY DEF IInv, Typing, TypeOK, Dismiss, Submit, waitVars, viewVars, workerVars
<1>2. TypeOK' BY <1>1 DEF IInv, Typing, TypeOK
<1>3. Waits' BY <1>1 DEF IInv, Waits, Asked, Quiet, PanicsOnErrors
<1>4. Views' BY <1>1 DEF IInv, Views, Fresh, Blanked
<1>5. QED BY <1>1, <1>2, <1>3, <1>4, ViewStep

LEMMA ConnectStep == ASSUME IInv, ConnectNetwork \/ Quit PROVE IInv'
<1>1. /\ \/ ui = "connect" /\ ui' \in {"login", "error"}
         \/ ui \in {"chat", "error"} /\ ui' = "quit"
      /\ UNCHANGED <<layer, asked, rx, to, messages, MESSAGE_COUNT, queue, hand, hung, called, inbox>>
  BY DEF ConnectNetwork, Quit, Handles, waitVars, viewVars, workerVars
<1>2. TypeOK' BY <1>1 DEF IInv, Typing, TypeOK
<1>3. Waits'
  <2>1. rx = None /\ asked = None BY <1>1 DEF IInv, Waits
  <2>2. rx # "empty" /\ rx # "refused" /\ rx # "dropped" BY <2>1, NoneAssumption
  <2>3. Quiet' BY <1>1, <2>2 DEF IInv, Waits, Quiet
  <2>4. QED BY <1>1, <2>1, <2>2, <2>3 DEF Waits, PanicsOnErrors
<1>4. Views' BY <1>1 DEF IInv, Views, Fresh
<1>5. QED BY <1>1, <1>2, <1>3, <1>4, ViewStep

\* A request goes into the channel, behind everything else.
LEMMA AppendMeans ==
    ASSUME TypeOK, NEW m \in MessageSend, TrySend(m)
    PROVE  /\ queue' \in Seq(MessageSend) /\ Len(queue') <= Capacity
           /\ Len(queue') = Len(queue) + 1 /\ Len(queue) \in Nat
           /\ \A i \in 1 .. Len(queue) : queue'[i] = queue[i]
           /\ queue'[Len(queue) + 1] = m
           /\ DOMAIN queue = 1 .. Len(queue) /\ DOMAIN queue' = 1 .. Len(queue')
           /\ ToSet(queue') = ToSet(queue) \cup {m}
<1>1. PICK q \in Seq(MessageSend) : q = queue BY DEF TypeOK
<1>2. PICK r \in Seq(MessageSend) : r = Append(q, m) BY AppendProperties
<1>3. /\ Len(r) = Len(q) + 1 /\ Len(q) \in Nat
      /\ \A i \in 1 .. Len(q) : r[i] = q[i]
      /\ r[Len(q) + 1] = m /\ DOMAIN q = 1 .. Len(q) /\ DOMAIN r = 1 .. Len(r)
      /\ ToSet(r) = ToSet(q) \cup {m}
  BY <1>2, AppendProperties, LenProperties, ToSetAppend
<1>4. queue' = r /\ Len(q) < Capacity BY <1>1, <1>2 DEF TrySend
<1>5. QED BY <1>1, <1>3, <1>4, CapacityAssumption

\* The thread asks and waits: Login from its view, the others from the chat.
LEMMA AskStep ==
    ASSUME IInv, NEW kind \in Asks, NEW t \in Targets, Ask(kind, t),
           ui \in {"login", "chat"}, kind = "Login" <=> ui = "login"
    PROVE  IInv'
<1>1. TypeOK BY DEF IInv, Typing
<1>2. PICK m : m = Request(kind, t, 0) OBVIOUS
<1>3. m \in MessageSend /\ m.kind = kind /\ ~IsMessage(m) /\ m \notin Messages
  BY <1>2, MaxLinesAssumption DEF MessageSend, Request, IsMessage, Messages, Texts
<1>4. /\ TrySend(m) /\ ui' = "wait" /\ asked' = kind /\ rx' = "empty"
      /\ UNCHANGED <<layer, to, messages, MESSAGE_COUNT, hand, hung, called, inbox>>
  BY <1>2 DEF Ask, viewVars, workerVars
<1>5. /\ queue' \in Seq(MessageSend) /\ Len(queue') <= Capacity
      /\ Len(queue') = Len(queue) + 1 /\ Len(queue) \in Nat
      /\ \A i \in 1 .. Len(queue) : queue'[i] = queue[i]
      /\ queue'[Len(queue) + 1] = m
      /\ DOMAIN queue = 1 .. Len(queue) /\ DOMAIN queue' = 1 .. Len(queue')
      /\ ToSet(queue') = ToSet(queue) \cup {m}
  BY <1>1, <1>3, <1>4, AppendMeans
<1>6. Typing'
  <2>1. TypeOK' BY <1>1, <1>4, <1>5 DEF TypeOK
  <2>2. QED BY <1>4, <2>1 DEF IInv, Typing
<1>7. Waits'
  <2>1. rx # "empty" BY NoneAssumption DEF IInv, Waits
  <2>2. Quiet BY <2>1 DEF IInv, Waits
  <2>3. Len(queue) + 1 \in DOMAIN queue' BY <1>5
  <2>4. \A j \in DOMAIN queue' : j # Len(queue) + 1 => IsMessage(queue'[j])
    <3>1. ASSUME NEW j \in DOMAIN queue', j # Len(queue) + 1
          PROVE  j \in DOMAIN queue /\ queue'[j] = queue[j]
      BY <1>5, <3>1
    <3>2. QED BY <2>2, <3>1 DEF Quiet
  <2>5. Asked' BY <1>3, <1>4, <1>5, <2>2, <2>3, <2>4 DEF Asked, Quiet
  <2>6. QED BY <1>4, <2>5, NoneAssumption DEF Waits, PanicsOnErrors
<1>8. Views' BY <1>4 DEF IInv, Views, Fresh, Blanked
<1>9. Written'
  <2>1. Hand' = Hand BY <1>4 DEF Hand
  <2>2. ToSet(queue') \cap Messages = ToSet(queue) \cap Messages BY <1>3, <1>5
  <2>3. Sorted(queue', Messages)
    <3>1. queue \in Seq(MessageSend) /\ queue' = Append(queue, m) BY <1>1, <1>4 DEF TypeOK, TrySend
    <3>2. Sorted(queue, Messages) BY DEF IInv, Written
    <3>3. QED BY <1>3, <3>1, <3>2, SortedAppend
  <2>4. /\ Before(ToSet(called), ToSet(queue')) /\ Before(Hand, ToSet(queue'))
    BY <1>3, <1>5 DEF IInv, Written, Before
  <2>5. QED BY <1>4, <2>1, <2>2, <2>3, <2>4 DEF IInv, Written
<1>10. QED BY <1>6, <1>7, <1>8, <1>9 DEF IInv

\* Before the login nothing is in the channel: there is room for the request.
LEMMA LoginFinds == ASSUME IInv, ui = "login" PROVE ~Full
<1>1. PICK q \in Seq(MessageSend) : q = queue BY DEF IInv, Typing, TypeOK
<1>2. rx # "empty" BY NoneAssumption DEF IInv, Waits
<1>3. \A i \in DOMAIN q : IsMessage(q[i]) BY <1>1, <1>2 DEF IInv, Waits, Quiet
<1>4. ToSet(messages) = {}
  <2>1. DOMAIN messages = {} BY DEF IInv, Views, Fresh
  <2>2. QED BY <2>1 DEF ToSet
<1>5. {Shown(l) : l \in ToSet(messages) \cap OwnLines} = {} BY <1>4
<1>6. ToSet(q) \cap Messages = {} BY <1>1, <1>5 DEF IInv, Written
<1>7. DOMAIN q = 1 .. Len(q) /\ Len(q) \in Nat BY LenProperties
<1>8. ASSUME NEW i \in DOMAIN q PROVE FALSE
  <2>1. q[i] \in MessageSend BY <1>7, ElementOfSeq
  <2>2. q[i] \in Messages /\ q[i] \in ToSet(q) BY <1>3, <2>1 DEF Messages, ToSet
  <2>3. QED BY <1>6, <2>2
<1>9. Len(q) = 0
  <2>1. 1 \notin DOMAIN q BY <1>8
  <2>2. QED BY <1>7, <2>1
<1>10. QED BY <1>1, <1>9, CapacityAssumption DEF Full

LEMMA LoginStep == ASSUME IInv, Login PROVE IInv'
<1>1. ui = "login" BY DEF Login, Handles
<1>2. Ask("Login", GlobalChat) BY <1>1, LoginFinds DEF Login
<1>3. "Login" \in Asks /\ GlobalChat \in Targets BY DEF Asks, Targets
<1>4. PICK kind \in Asks : kind = "Login" BY <1>3
<1>5. PICK t \in Targets : t = GlobalChat BY <1>3
<1>6. Ask(kind, t) BY <1>2, <1>4, <1>5
<1>7. QED BY <1>1, <1>4, <1>6, AskStep

\* PrivateChat and Ping.
LEMMA ButtonStep == ASSUME IInv, PrivateChat \/ Ping PROVE IInv'
<1>1. ui = "chat" BY DEF PrivateChat, Ping, Handles
<1>2. ASSUME NEW kind \in Asks, kind # "Login", NEW t \in Targets, Ask(kind, t) PROVE IInv'
  BY <1>1, <1>2, AskStep
<1>3. CASE Inform BY <1>3, InformStep
<1>4. CASE Ask("GetAllUser", GlobalChat)
  <2>1. PICK kind \in Asks : kind = "GetAllUser" BY DEF Asks
  <2>2. PICK t \in Targets : t = GlobalChat BY DEF Targets
  <2>3. Ask(kind, t) BY <1>4, <2>1, <2>2
  <2>4. QED BY <1>2, <2>1, <2>3
<1>5. CASE Ask("Ping", to)
  <2>1. PICK kind \in Asks : kind = "Ping" BY DEF Asks
  <2>2. PICK t \in Targets : t = to BY DEF IInv, Typing, TypeOK
  <2>3. Ask(kind, t) BY <1>5, <2>1, <2>2
  <2>4. QED BY <1>2, <2>1, <2>3
<1>6. QED BY <1>3, <1>4, <1>5 DEF PrivateChat, Ping

\* event_send_msg: the line and the request are one and the same message, the last one.
LEMMA SendMsgStep == ASSUME IInv, SendMsg PROVE IInv'
<1>1. TypeOK BY DEF IInv, Typing
<1>2. PICK n : n = MESSAGE_COUNT + 1 OBVIOUS
<1>3. PICK t \in Targets : t = to BY <1>1 DEF TypeOK
<1>4. PICK k : k = IF t = GlobalChat THEN "Talk" ELSE "PrivateChat" OBVIOUS
<1>5. PICK m : m = Request(k, t, n) OBVIOUS
<1>6. PICK l : l = Line("me", t, n) OBVIOUS
<1>7. /\ ui = "chat" /\ MESSAGE_COUNT + Len(inbox) < MaxLines
      /\ TrySend(m) /\ Show(<<l>>)
      /\ UNCHANGED <<ui, layer, asked, rx, to, hand, hung, called, inbox>>
  BY <1>2, <1>3, <1>4, <1>5, <1>6 DEF SendMsg, Handles, waitVars, workerVars
<1>8. Len(inbox) \in Nat /\ MESSAGE_COUNT \in Nat
  <2>1. Len(inbox) \in Nat BY <1>1, LenProperties DEF TypeOK
  <2>2. QED BY <1>1, <2>1, MaxLinesAssumption DEF TypeOK
<1>9. n \in Texts BY <1>2, <1>7, <1>8, MaxLinesAssumption DEF Texts
<1>10. l \in Lines /\ l.from = "me" /\ l.to = t /\ l.text = n /\ l \in OwnLines
  BY <1>6, <1>9 DEF Lines, Line, OwnLines
<1>11. m \in MessageSend /\ IsMessage(m) /\ m.text = n /\ m \in Messages
  <2>1. k \in {"Talk", "PrivateChat"} BY <1>4
  <2>2. m \in MessageSend BY <1>5, <1>9, <2>1 DEF MessageSend, Request
  <2>3. m.kind = k /\ m.text = n BY <1>5 DEF Request
  <2>4. IsMessage(m) BY <2>1, <2>3 DEF IsMessage, Asks
  <2>5. QED BY <2>2, <2>3, <2>4 DEF Messages
<1>12. Shown(l) = m BY <1>4, <1>5, <1>10 DEF Shown
<1>13. PICK ls \in Seq(Lines) : ls = <<l>>
  <2>1. <<l>> \in [1 .. 1 -> Lines] BY <1>10
  <2>2. <<l>> \in Seq(Lines) BY <2>1, SeqDef
  <2>3. QED BY <2>2
<1>14. Len(ls) = 1 /\ ToSet(ls) = {l}
  <2>1. Len(ls) = 1 /\ ls[1] = l /\ DOMAIN ls = 1 .. 1 BY <1>13
  <2>2. QED BY <2>1 DEF ToSet
<1>15. Show(ls) /\ MESSAGE_COUNT' = n
  <2>1. Show(ls) BY <1>7, <1>13
  <2>2. MESSAGE_COUNT' = MESSAGE_COUNT + Len(ls) BY <2>1 DEF Show
  <2>3. QED BY <1>2, <1>14, <2>1, <2>2
<1>16. Blanked BY <1>7 DEF IInv, Views
<1>17. ASSUME NEW x \in ToSet(messages) \cap OwnLines PROVE x.text < n
  <2>1. x.text <= MESSAGE_COUNT BY DEF IInv, Written
  <2>2. x.text \in Nat
    <3>1. x \in Lines BY DEF OwnLines
    <3>2. QED BY <3>1, MaxLinesAssumption DEF Lines, Texts
  <2>3. QED BY <1>2, <1>8, <2>1, <2>2
<1>18. Sorted(messages \o ls, OwnLines)
  <2>1. Sorted(ls, OwnLines) BY <1>13 DEF Sorted
  <2>2. \A x \in ToSet(messages) \cap OwnLines, y \in ToSet(ls) \cap OwnLines : x.text < y.text
    BY <1>10, <1>14, <1>17
  <2>3. Sorted(messages, OwnLines) /\ messages \in Seq(Lines)
    BY <1>1 DEF IInv, Written, TypeOK
  <2>4. QED BY <2>1, <2>2, <2>3, SortedConcat
<1>19. PICK gone \in 0 .. Len(messages) :
          /\ \A i \in 1 .. gone : messages[i].from = "blank"
          /\ messages' = SubSeq(messages \o ls, gone + 1, Len(messages \o ls))
          /\ gone \in 0 .. Len(messages \o ls)
          /\ Blanked'
  BY <1>1, <1>15, <1>16, ShowMeans
<1>20. /\ messages' \in Seq(Lines) /\ Sorted(messages', OwnLines)
       /\ ToSet(messages') \cap OwnLines = (ToSet(messages) \cup {l}) \cap OwnLines
  BY <1>1, <1>14, <1>18, <1>19, ShownLines
<1>21. /\ queue' \in Seq(MessageSend) /\ Len(queue') <= Capacity
       /\ Len(queue') = Len(queue) + 1 /\ Len(queue) \in Nat
       /\ \A i \in 1 .. Len(queue) : queue'[i] = queue[i]
       /\ queue'[Len(queue) + 1] = m
       /\ DOMAIN queue = 1 .. Len(queue) /\ DOMAIN queue' = 1 .. Len(queue')
       /\ ToSet(queue') = ToSet(queue) \cup {m}
  BY <1>1, <1>7, <1>11, AppendMeans
<1>22. Typing'
  <2>1. MESSAGE_COUNT' \in 0 .. MaxLines BY <1>9, <1>15 DEF Texts
  <2>2. TypeOK' BY <1>1, <1>7, <1>20, <1>21, <2>1 DEF TypeOK
  <2>3. MESSAGE_COUNT' + Len(inbox') <= MaxLines BY <1>2, <1>7, <1>8, <1>15, MaxLinesAssumption
  <2>4. QED BY <1>7, <2>2, <2>3 DEF IInv, Typing
<1>23. Waits'
  <2>1. rx = None /\ asked = None BY <1>7 DEF IInv, Waits
  <2>2. rx # "empty" /\ rx # "refused" /\ rx # "dropped" BY <2>1, NoneAssumption
  <2>3. Quiet BY <2>2 DEF IInv, Waits
  <2>4. \A j \in DOMAIN queue' : IsMessage(queue'[j])
    <3>1. ASSUME NEW j \in DOMAIN queue' PROVE IsMessage(queue'[j])
      <4>1. CASE j = Len(queue) + 1 BY <1>11, <1>21, <4>1
      <4>2. CASE j # Len(queue) + 1
        <5>1. j \in DOMAIN queue /\ queue'[j] = queue[j] BY <1>21, <3>1, <4>2
        <5>2. QED BY <2>3, <5>1 DEF Quiet
      <4>3. QED BY <4>1, <4>2
    <3>2. QED BY <3>1
  <2>5. Quiet' BY <1>7, <2>3, <2>4 DEF Quiet
  <2>6. QED BY <1>7, <2>1, <2>2, <2>5 DEF Waits, PanicsOnErrors
<1>24. Views' BY <1>7, <1>19 DEF Views
<1>25. Written'
  <2>1. Hand' = Hand BY <1>7 DEF Hand
  <2>2. \A x \in (ToSet(called) \cup Hand \cup ToSet(queue)) \cap Messages : x.text < n
    <3>1. ASSUME NEW x \in (ToSet(called) \cup Hand \cup ToSet(queue)) \cap Messages
          PROVE  x.text < n
      <4>1. x.text <= MESSAGE_COUNT BY <3>1, NumbersAreGiven
      <4>2. x.text \in Nat BY <3>1 DEF Messages, MessageSend, Texts
      <4>3. QED BY <1>2, <1>8, <4>1, <4>2
    <3>2. QED BY <3>1
  <2>3. {Shown(x) : x \in ToSet(messages') \cap OwnLines} =
          (ToSet(called) \cup Hand \cup ToSet(queue')) \cap Messages
    <3>1. PICK A : A = ToSet(messages) \cap OwnLines OBVIOUS
    <3>2. ToSet(messages') \cap OwnLines = A \cup {l} BY <1>10, <1>20, <3>1
    <3>3. {Shown(x) : x \in A \cup {l}} = {Shown(x) : x \in A} \cup {m} BY <1>12
    <3>4. {Shown(x) : x \in A} = (ToSet(called) \cup Hand \cup ToSet(queue)) \cap Messages
      BY <3>1 DEF IInv, Written
    <3>5. (ToSet(called) \cup Hand \cup ToSet(queue')) \cap Messages =
            ((ToSet(called) \cup Hand \cup ToSet(queue)) \cap Messages) \cup {m}
      BY <1>11, <1>21
    <3>6. QED BY <3>2, <3>3, <3>4, <3>5
  <2>4. \A x \in ToSet(messages') \cap OwnLines : x.text <= MESSAGE_COUNT'
    <3>1. ASSUME NEW x \in ToSet(messages') \cap OwnLines PROVE x.text <= n
      <4>1. CASE x = l BY <1>2, <1>8, <1>10, <4>1
      <4>2. CASE x \in ToSet(messages) \cap OwnLines
        <5>1. x.text \in Nat BY <4>2 DEF OwnLines, Lines, Texts
        <5>2. QED BY <1>2, <1>8, <1>17, <4>2, <5>1
      <4>3. QED BY <1>20, <3>1, <4>1, <4>2
    <3>2. QED BY <1>15, <3>1
  <2>5. Sorted(queue', Messages)
    <3>1. queue \in Seq(MessageSend) /\ queue' = Append(queue, m)
      BY <1>1, <1>7 DEF TypeOK, TrySend
    <3>2. Sorted(queue, Messages) BY DEF IInv, Written
    <3>3. \A x \in ToSet(queue) \cap Messages : x.text < m.text BY <1>11, <2>2
    <3>4. QED BY <1>11, <3>1, <3>2, <3>3, SortedAppend
  <2>6. Before(ToSet(called), ToSet(queue'))
    <3>1. \A x \in ToSet(called) : IsMessage(x) => x.text < m.text
      <4>1. ToSet(called) \subseteq MessageSend BY <1>1, ToSetIn DEF TypeOK
      <4>2. QED BY <1>11, <2>2, <4>1 DEF Messages
    <3>2. QED BY <1>21, <3>1 DEF IInv, Written, Before
  <2>7. Before(Hand, ToSet(queue'))
    <3>1. \A x \in Hand : IsMessage(x) => x.text < m.text
      <4>1. Hand \subseteq MessageSend BY <1>1 DEF Hand, TypeOK
      <4>2. QED BY <1>11, <2>2, <4>1 DEF Messages
    <3>2. QED BY <1>21, <3>1 DEF IInv, Written, Before
  <2>8. Sorted(called, Messages) /\ Before(ToSet(called), Hand) BY DEF IInv, Written
  <2>9. QED BY <1>7, <1>20, <2>1, <2>3, <2>4, <2>5, <2>6, <2>7, <2>8 DEF Written
<1>26. QED BY <1>22, <1>23, <1>24, <1>25 DEF IInv

LEMMA WaitsStays ==
    ASSUME Waits, UNCHANGED <<ui, asked, rx, hand, queue>>
    PROVE  Waits'
BY DEF Waits, Asked, Quiet, PanicsOnErrors

\* What others have written is shown, or dropped: no line of the user's comes or goes.
LEMMA TryIterStep == ASSUME IInv, TryIter PROVE IInv'
<1>1. TypeOK BY DEF IInv, Typing
<1>2. PICK ls \in Seq(Lines) : ls = inbox BY <1>1 DEF TypeOK
<1>3. /\ ui \in {"login", "chat"} /\ inbox' = << >>
      /\ IF ui = "chat" THEN Show(ls) ELSE UNCHANGED <<messages, MESSAGE_COUNT>>
      /\ UNCHANGED <<ui, layer, asked, rx, to, queue, hand, hung, called>>
  BY <1>2 DEF TryIter, waitVars, workerVars
<1>4. Len(ls) \in Nat /\ MESSAGE_COUNT \in Nat /\ MESSAGE_COUNT + Len(ls) <= MaxLines
  <2>1. Len(ls) \in Nat BY LenProperties
  <2>2. MESSAGE_COUNT + Len(ls) <= MaxLines BY <1>2 DEF IInv, Typing
  <2>3. QED BY <1>1, <2>1, <2>2, MaxLinesAssumption DEF TypeOK
<1>5. inbox' \in Seq(Lines) /\ Len(inbox') = 0 /\ ToSet(inbox') = {}
  <2>1. DOMAIN << >> = {} OBVIOUS
  <2>2. QED BY <1>3, <2>1 DEF ToSet
<1>6. Waits' BY <1>3, WaitsStays DEF IInv
<1>7. CASE ui = "login"
  <2>1. UNCHANGED <<messages, MESSAGE_COUNT>> BY <1>3, <1>7
  <2>2. TypeOK' BY <1>1, <1>3, <1>5, <2>1 DEF TypeOK
  <2>3. Typing' BY <1>1, <1>4, <1>5, <2>1, <2>2, MaxLinesAssumption DEF Typing
  <2>4. Views' BY <1>3, <2>1 DEF IInv, Views, Fresh, Blanked
  <2>5. Written' BY <1>3, <2>1, WrittenStays DEF IInv
  <2>6. QED BY <1>6, <2>3, <2>4, <2>5 DEF IInv
<1>8. CASE ui = "chat"
  <2>1. Show(ls) /\ MESSAGE_COUNT' = MESSAGE_COUNT + Len(ls) BY <1>3, <1>8 DEF Show
  <2>2. \A x \in ToSet(ls) : x \notin OwnLines BY <1>2 DEF IInv, Typing, OwnLines
  <2>3. Sorted(messages \o ls, OwnLines)
    <3>1. Sorted(ls, OwnLines)
      <4>1. \A i \in DOMAIN ls : ls[i] \in ToSet(ls) BY DEF ToSet
      <4>2. QED BY <2>2, <4>1 DEF Sorted
    <3>2. \A x \in ToSet(messages) \cap OwnLines, y \in ToSet(ls) \cap OwnLines : x.text < y.text
      BY <2>2
    <3>3. Sorted(messages, OwnLines) /\ messages \in Seq(Lines)
      BY <1>1 DEF IInv, Written, TypeOK
    <3>4. QED BY <3>1, <3>2, <3>3, SortedConcat
  <2>4. Blanked BY <1>8 DEF IInv, Views
  <2>5. PICK gone \in 0 .. Len(messages) :
           /\ \A i \in 1 .. gone : messages[i].from = "blank"
           /\ messages' = SubSeq(messages \o ls, gone + 1, Len(messages \o ls))
           /\ gone \in 0 .. Len(messages \o ls)
           /\ Blanked'
    BY <1>1, <2>1, <2>4, ShowMeans
  <2>6. /\ messages' \in Seq(Lines) /\ Sorted(messages', OwnLines)
        /\ ToSet(messages') \cap OwnLines = (ToSet(messages) \cup ToSet(ls)) \cap OwnLines
    BY <1>1, <2>3, <2>5, ShownLines
  <2>7. ToSet(messages') \cap OwnLines = ToSet(messages) \cap OwnLines BY <2>2, <2>6
  <2>8. MESSAGE_COUNT' \in 0 .. MaxLines BY <1>4, <2>1, MaxLinesAssumption
  <2>9. Typing'
    <3>1. TypeOK' BY <1>1, <1>3, <1>5, <2>6, <2>8 DEF TypeOK
    <3>2. MESSAGE_COUNT' + Len(inbox') <= MaxLines
      <4>1. PICK n \in 0 .. MaxLines : n = MESSAGE_COUNT' BY <2>8
      <4>2. n + 0 <= MaxLines BY MaxLinesAssumption
      <4>3. QED BY <1>5, <4>1, <4>2
    <3>3. QED BY <1>5, <3>1, <3>2 DEF Typing
  <2>10. Views' BY <1>3, <1>8, <2>5 DEF Views
  <2>11. Written'
    <3>1. Hand' = Hand BY <1>3 DEF Hand
    <3>2. {Shown(l) : l \in ToSet(messages') \cap OwnLines} =
            (ToSet(called) \cup Hand \cup ToSet(queue)) \cap Messages
      BY <2>7 DEF IInv, Written
    <3>3. ASSUME NEW x \in ToSet(messages') \cap OwnLines PROVE x.text <= MESSAGE_COUNT'
      <4>1. x \in Lines BY DEF OwnLines
      <4>2. x.text \in Nat BY <4>1, MaxLinesAssumption DEF Lines, Texts
      <4>3. x.text <= MESSAGE_COUNT BY <2>7 DEF IInv, Written
      <4>4. QED BY <1>4, <2>1, <4>2, <4>3
    <3>4. /\ Sorted(called, Messages) /\ Sorted(queue, Messages)
          /\ Before(ToSet(called), Hand) /\ Before(ToSet(called), ToSet(queue))
          /\ Before(Hand, ToSet(queue))
      BY DEF IInv, Written
    <3>5. QED BY <1>3, <2>6, <3>1, <3>2, <3>3, <3>4 DEF Written
  <2>12. QED BY <1>6, <2>9, <2>10, <2>11 DEF IInv
<1>9. QED BY <1>3, <1>7, <1>8

\* The login is answered: the views, without lines till then, are filled with blank ones.
LEMMA LoggedInStep == ASSUME IInv, LoggedIn PROVE IInv'
<1>1. TypeOK BY DEF IInv, Typing
<1>2. /\ ui = "wait" /\ asked = "Login" /\ rx = "ok" /\ ui' = "chat" /\ layer' = "none"
      /\ asked' = None /\ rx' = None
      /\ messages' = [i \in 1 .. Blanks |-> Line("blank", GlobalChat, 0)]
      /\ UNCHANGED <<to, MESSAGE_COUNT, queue, hand, hung, inbox, called>>
  BY DEF LoggedIn, Woken, workerVars
<1>3. PICK b : b = Line("blank", GlobalChat, 0) OBVIOUS
<1>4. b \in Lines /\ b.from = "blank" /\ b \notin OwnLines
  <2>1. 0 \in Texts /\ GlobalChat \in Targets BY MaxLinesAssumption DEF Texts, Targets
  <2>2. QED BY <1>3, <2>1 DEF Line, Lines, OwnLines
<1>5. PICK s : s = [i \in 1 .. Blanks |-> b] OBVIOUS
<1>6. messages' = s BY <1>2, <1>3, <1>5
<1>7. s \in Seq(Lines) /\ Len(s) = Blanks /\ DOMAIN s = 1 .. Blanks
  <2>1. Blanks \in Nat BY BlanksAssumption
  <2>2. s \in [1 .. Blanks -> Lines] BY <1>4, <1>5
  <2>3. s \in Seq(Lines) BY <2>1, <2>2, SeqDef
  <2>4. DOMAIN s = 1 .. Blanks BY <1>5
  <2>5. QED BY <2>1, <2>3, <2>4, LenProperties
<1>8. \A i \in 1 .. Blanks : s[i] = b BY <1>5
<1>9. MESSAGE_COUNT = 0 /\ messages = << >> BY <1>2 DEF IInv, Views, Fresh
<1>10. TypeOK' BY <1>1, <1>2, <1>6, <1>7 DEF TypeOK
<1>11. Typing' BY <1>2, <1>10 DEF IInv, Typing
<1>12. Waits'
  <2>1. Quiet' BY <1>2 DEF IInv, Waits, Quiet
  <2>2. None # "empty" /\ None # "refused" /\ None # "dropped" BY NoneAssumption
  <2>3. QED BY <1>2, <2>1, <2>2 DEF Waits, PanicsOnErrors
<1>13. Views'
  <2>1. Smaller(0, Limit) = 0 /\ Blanks \in Nat BY BlanksAssumption DEF Smaller, Limit
  <2>2. Blanked' BY <1>2, <1>4, <1>6, <1>7, <1>8, <1>9, <2>1 DEF Blanked
  <2>3. QED BY <1>2, <2>2 DEF Views
<1>14. Written'
  <2>1. ToSet(messages') \cap OwnLines = {} BY <1>4, <1>6, <1>7, <1>8 DEF ToSet
  <2>2. ToSet(messages) \cap OwnLines = {} BY <1>9 DEF ToSet
  <2>3. \A i \in DOMAIN s : s[i] \notin OwnLines BY <1>4, <1>7, <1>8
  <2>4. Sorted(messages', OwnLines) BY <1>6, <2>3 DEF Sorted
  <2>5. Hand' = Hand BY <1>2 DEF Hand
  <2>6. {Shown(l) : l \in ToSet(messages') \cap OwnLines} =
          (ToSet(called) \cup Hand \cup ToSet(queue)) \cap Messages
    BY <2>1, <2>2 DEF IInv, Written
  <2>7. /\ Sorted(called, Messages) /\ Sorted(queue, Messages)
        /\ Before(ToSet(called), Hand) /\ Before(ToSet(called), ToSet(queue))
        /\ Before(Hand, ToSet(queue))
    BY DEF IInv, Written
  <2>8. QED BY <1>2, <2>1, <2>4, <2>5, <2>6, <2>7 DEF Written
<1>15. QED BY <1>11, <1>12, <1>13, <1>14 DEF IInv

\* Any other answer, or its absence, wakes the thread and leaves lines and requests alone.
LEMMA WakeStep == ASSUME IInv, LoginError \/ Answered \/ Unanswered PROVE IInv'
<1>1. TypeOK BY DEF IInv, Typing
<1>2. /\ ui = "wait" /\ UNCHANGED <<to, messages, MESSAGE_COUNT, queue, hand, hung, inbox, called>>
      /\ layer' \in {"none", "info", "select"}
  BY <1>1 DEF LoginError, Answered, Unanswered, Woken, Panic, viewVars, workerVars, TypeOK
<1>3. rx # "empty"
  BY DEF LoginError, Answered, Unanswered
<1>4. Quiet' BY <1>2, <1>3 DEF IInv, Waits, Quiet
<1>5. None # "empty" /\ None # "refused" /\ None # "dropped" BY NoneAssumption
<1>6. CASE LoginError
  <2>1. asked = "Login" /\ ui' = "login" /\ asked' = None /\ rx' = None
    BY <1>6 DEF LoginError, Woken
  <2>2. TypeOK' BY <1>1, <1>2, <2>1 DEF TypeOK
  <2>3. Waits' BY <1>4, <1>5, <2>1 DEF Waits, PanicsOnErrors
  <2>4. Views' BY <1>2, <2>1 DEF IInv, Views, Fresh
  <2>5. QED BY <1>2, <2>2, <2>3, <2>4, ViewStep
<1>7. CASE Answered
  <2>1. asked # "Login" /\ ui' = "chat" /\ asked' = None /\ rx' = None
    BY <1>7 DEF Answered, Woken
  <2>2. TypeOK' BY <1>1, <1>2, <2>1 DEF TypeOK
  <2>3. Waits' BY <1>4, <1>5, <2>1 DEF Waits, PanicsOnErrors
  <2>4. Views' BY <1>2, <2>1 DEF IInv, Views, Blanked
  <2>5. QED BY <1>2, <2>2, <2>3, <2>4, ViewStep
<1>8. CASE Unanswered
  <2>1. rx = "dropped" /\ ui' = "panicked" /\ asked' = asked /\ rx' = rx
    BY <1>8 DEF Unanswered, Panic, waitVars
  <2>2. TypeOK' BY <1>1, <1>2, <2>1 DEF TypeOK
  <2>3. asked \in {"GetAllUser", "Ping"} BY <2>1 DEF IInv, Waits
  <2>4. Waits' BY <1>4, <1>5, <2>1, <2>3 DEF Waits, PanicsOnErrors
  <2>5. Views' BY <2>1 DEF Views
  <2>6. QED BY <1>2, <2>2, <2>4, <2>5, ViewStep
<1>9. QED BY <1>6, <1>7, <1>8

-----------------------------------------------------------------------------
(* The task                                                                *)

\* The next request comes into the task's hand: what is under way stays the same.
LEMMA RecvStep == ASSUME IInv, Recv PROVE IInv'
<1>1. TypeOK BY DEF IInv, Typing
<1>2. PICK q \in Seq(MessageSend) : q = queue BY <1>1 DEF TypeOK
<1>3. /\ Running /\ hand = None /\ q # << >> /\ hand' = Head(q) /\ queue' = Tail(q)
      /\ UNCHANGED <<ui, layer, asked, rx, to, messages, MESSAGE_COUNT, hung, called, inbox>>
  BY <1>2 DEF Recv, waitVars, viewVars
<1>4. PICK r \in Seq(MessageSend) : r = Tail(q) BY <1>3, HeadTailProperties
<1>5. /\ Len(r) = Len(q) - 1 /\ Len(q) \in Nat /\ Len(q) > 0
      /\ \A i \in 1 .. Len(r) : r[i] = q[i + 1]
      /\ DOMAIN r = 1 .. Len(r) /\ DOMAIN q = 1 .. Len(q)
  BY <1>3, <1>4, HeadTailProperties, LenProperties, EmptySeq
<1>6. PICK h \in MessageSend : h = Head(q) BY <1>3, HeadTailProperties
<1>7. h # None BY NoneAssumption
<1>8. h = q[1] BY <1>6
<1>9. ToSet(q) = ToSet(r) \cup {h} BY <1>3, <1>4, <1>6, ToSetTail
<1>10. Typing'
  <2>1. Len(r) <= Capacity BY <1>1, <1>2, <1>5, CapacityAssumption DEF TypeOK
  <2>2. TypeOK' BY <1>1, <1>3, <1>4, <1>6, <2>1 DEF TypeOK
  <2>3. QED BY <1>3, <2>2 DEF IInv, Typing
<1>11. \A i \in DOMAIN r : i + 1 \in DOMAIN q /\ i + 1 # 1 /\ r[i] = q[i + 1] BY <1>5
<1>12. Waits'
  <2>1. ASSUME \A i \in DOMAIN q : IsMessage(q[i]) PROVE Quiet'
    <3>1. 1 \in DOMAIN q BY <1>5
    <3>2. IsMessage(h) BY <1>8, <2>1, <3>1
    <3>3. \A i \in DOMAIN r : IsMessage(r[i]) BY <1>11, <2>1
    <3>4. QED BY <1>3, <1>4, <1>6, <3>2, <3>3 DEF Quiet
  <2>2. rx # "empty" => Quiet' BY <1>2, <2>1 DEF IInv, Waits, Quiet
  <2>3. ASSUME NEW k \in DOMAIN q, q[k].kind = asked,
               \A j \in DOMAIN q : j # k => IsMessage(q[j])
        PROVE  Asked'
    <3>1. CASE k = 1
      <4>1. h.kind = asked BY <1>8, <2>3, <3>1
      <4>2. \A i \in DOMAIN r : IsMessage(r[i]) BY <1>11, <2>3, <3>1
      <4>3. QED BY <1>3, <1>4, <1>6, <1>7, <4>1, <4>2 DEF Asked
    <3>2. CASE k # 1
      <4>1. 1 \in DOMAIN q BY <1>5
      <4>2. IsMessage(h) BY <1>8, <2>3, <3>2, <4>1
      <4>3. k - 1 \in DOMAIN r /\ r[k - 1] = q[k]
        <5>1. k - 1 \in DOMAIN r /\ (k - 1) + 1 = k BY <1>5, <2>3, <3>2
        <5>2. QED BY <1>11, <5>1
      <4>4. ASSUME NEW j \in DOMAIN r, j # k - 1 PROVE IsMessage(r[j])
        <5>1. j + 1 # k BY <1>5, <2>3, <4>4
        <5>2. QED BY <1>11, <2>3, <5>1
      <4>5. QED BY <1>3, <1>4, <1>6, <2>3, <4>2, <4>3, <4>4 DEF Asked
    <3>3. QED BY <3>1, <3>2
  <2>4. rx = "empty" => ui = "wait" /\ Asked'
    <3>1. ASSUME rx = "empty" PROVE ui = "wait" /\ Asked BY <3>1 DEF IInv, Waits
    <3>2. ASSUME rx = "empty"
          PROVE  \E k \in DOMAIN q :
                    q[k].kind = asked /\ \A j \in DOMAIN q : j # k => IsMessage(q[j])
      BY <1>2, <1>3, <3>1, <3>2 DEF Asked
    <3>3. QED BY <2>3, <3>1, <3>2
  <2>5. QED BY <1>3, <2>2, <2>4 DEF IInv, Waits, PanicsOnErrors
<1>13. Views' BY <1>3 DEF IInv, Views, Fresh, Blanked
<1>14. Written'
  <2>1. Hand = {} /\ Hand' = {h} BY <1>3, <1>6, <1>7 DEF Hand
  <2>2. {Shown(l) : l \in ToSet(messages) \cap OwnLines} =
          (ToSet(called) \cup {h} \cup ToSet(r)) \cap Messages
    BY <1>2, <1>9, <2>1 DEF IInv, Written
  <2>3. Sorted(q, Messages) /\ Sorted(called, Messages) /\ Before(ToSet(called), ToSet(q))
    BY <1>2 DEF IInv, Written
  <2>4. Before(ToSet(called), {h}) /\ Before(ToSet(called), ToSet(r))
    BY <1>9, <2>3 DEF Before
  <2>5. Sorted(r, Messages) /\ (h \in Messages => \A x \in ToSet(r) \cap Messages : h.text < x.text)
    BY <1>3, <1>4, <1>6, <2>3, SortedTail
  <2>6. Before({h}, ToSet(r))
    <3>1. ToSet(r) \subseteq MessageSend BY ToSetIn
    <3>2. QED BY <2>5, <3>1 DEF Before, Messages
  <2>7. /\ \A l \in ToSet(messages) \cap OwnLines : l.text <= MESSAGE_COUNT
        /\ Sorted(messages, OwnLines)
    BY DEF IInv, Written
  <2>8. QED BY <1>3, <1>4, <2>1, <2>2, <2>3, <2>4, <2>5, <2>6, <2>7 DEF Written
<1>15. QED BY <1>10, <1>12, <1>13, <1>14 DEF IInv

\* A message leaves the hand for the calls made.
LEMMA SayStep == ASSUME IInv, Say PROVE IInv'
<1>1. TypeOK BY DEF IInv, Typing
<1>2. PICK h : h = hand OBVIOUS
<1>3. /\ h # None /\ IsMessage(h) /\ hand' = None /\ called' = Append(called, h)
      /\ UNCHANGED <<ui, layer, asked, rx, to, messages, MESSAGE_COUNT, queue, hung, inbox>>
  BY <1>2 DEF Say, Returns, IsMessage, waitVars, viewVars
<1>4. h \in MessageSend /\ h \in Messages BY <1>1, <1>2, <1>3 DEF TypeOK, Messages
<1>5. PICK c \in Seq(MessageSend) : c = called BY <1>1 DEF TypeOK
<1>6. PICK r \in Seq(MessageSend) : r = Append(c, h) BY <1>4, AppendProperties
<1>7. ToSet(r) = ToSet(c) \cup {h} BY <1>4, <1>6, ToSetAppend
<1>8. called' = r BY <1>3, <1>5, <1>6
<1>9. Hand = {h} /\ Hand' = {} BY <1>2, <1>3 DEF Hand
<1>10. Typing'
  <2>1. TypeOK' BY <1>1, <1>3, <1>8 DEF TypeOK
  <2>2. QED BY <1>3, <2>1 DEF IInv, Typing
<1>11. Waits'
  <2>1. rx = "empty" => ui = "wait" /\ Asked BY DEF IInv, Waits
  <2>2. ASSUME rx = "empty" PROVE Asked'
    <3>1. Asked /\ asked \in Asks BY <2>1, <2>2 DEF IInv, Waits
    <3>2. h.kind # asked BY <1>3, <3>1 DEF IsMessage
    <3>3. \E i \in DOMAIN queue :
             queue[i].kind = asked /\ \A j \in DOMAIN queue : j # i => IsMessage(queue[j])
      BY <1>2, <3>1, <3>2 DEF Asked
    <3>4. QED BY <1>3, <3>3 DEF Asked
  <2>3. rx # "empty" => Quiet' BY <1>3 DEF IInv, Waits, Quiet
  <2>4. QED BY <1>3, <2>1, <2>2, <2>3 DEF IInv, Waits, PanicsOnErrors
<1>12. Views' BY <1>3 DEF IInv, Views, Fresh, Blanked
<1>13. Written'
  <2>1. {Shown(l) : l \in ToSet(messages) \cap OwnLines} =
          (ToSet(r) \cup {} \cup ToSet(queue)) \cap Messages
    BY <1>5, <1>7, <1>9 DEF IInv, Written
  <2>2. Sorted(c, Messages) /\ Before(ToSet(c), {h}) BY <1>5, <1>9 DEF IInv, Written
  <2>3. \A x \in ToSet(c) \cap Messages : x.text < h.text
    BY <1>3, <2>2 DEF Before, Messages
  <2>4. Sorted(r, Messages) BY <1>4, <1>6, <2>2, <2>3, SortedAppend
  <2>5. Before(ToSet(r), ToSet(queue)) BY <1>5, <1>7, <1>9 DEF IInv, Written, Before
  <2>6. Before(ToSet(r), {}) /\ Before({}, ToSet(queue)) BY DEF Before
  <2>7. /\ \A l \in ToSet(messages) \cap OwnLines : l.text <= MESSAGE_COUNT
        /\ Sorted(messages, OwnLines) /\ Sorted(queue, Messages)
    BY DEF IInv, Written
  <2>8. QED BY <1>3, <1>8, <1>9, <2>1, <2>4, <2>5, <2>6, <2>7 DEF Written
<1>14. QED BY <1>10, <1>11, <1>12, <1>13 DEF IInv

\* The request that is answered is the one the thread waits for.
LEMMA AnswerStep == ASSUME IInv, Answer PROVE IInv'
<1>1. TypeOK BY DEF IInv, Typing
<1>2. /\ hand # None /\ ~IsMessage(hand) /\ hand' = None
      /\ rx' \in Verdict(hand.kind)
      /\ UNCHANGED <<ui, layer, asked, to, messages, MESSAGE_COUNT, queue, hung, called, inbox>>
  BY DEF Answer, Returns, IsMessage, viewVars
<1>3. rx = "empty" /\ ui = "wait" /\ asked \in Asks /\ Asked BY <1>2 DEF IInv, Waits, Quiet
<1>4. hand.kind = asked /\ \A i \in DOMAIN queue : IsMessage(queue[i])
  BY <1>2, <1>3 DEF Asked
<1>5. /\ rx' \in {"ok", "refused", "dropped"} /\ (rx' = "refused" => asked = "Login")
      /\ (rx' = "dropped" => asked \in {"GetAllUser", "Ping"})
  BY <1>2, <1>3, <1>4 DEF Verdict, Asks
<1>6. Typing'
  <2>1. TypeOK' BY <1>1, <1>2, <1>5 DEF TypeOK
  <2>2. QED BY <1>2, <2>1 DEF IInv, Typing
<1>7. Waits'
  <2>1. Quiet' BY <1>2, <1>4 DEF Quiet
  <2>2. QED BY <1>2, <1>3, <1>5, <2>1 DEF Waits, PanicsOnErrors
<1>8. Views' BY <1>2 DEF IInv, Views, Fresh, Blanked
<1>9. Written'
  <2>1. Hand \cap Messages = {} BY <1>2 DEF Hand, Messages
  <2>2. Hand' = {} BY <1>2 DEF Hand
  <2>3. {Shown(l) : l \in ToSet(messages) \cap OwnLines} =
          (ToSet(called) \cup {} \cup ToSet(queue)) \cap Messages
    BY <2>1 DEF IInv, Written
  <2>4. Before(ToSet(called), {}) /\ Before({}, ToSet(queue)) BY DEF Before
  <2>5. QED BY <1>2, <2>2, <2>3, <2>4 DEF IInv, Written, Sorted, Before
<1>10. QED BY <1>6, <1>7, <1>8, <1>9 DEF IInv

LEMMA HandshakeStep == ASSUME IInv, Handshake PROVE IInv'
<1>1. /\ hung' = ~hung
      /\ UNCHANGED <<ui, layer, asked, rx, to, messages, MESSAGE_COUNT, queue, hand, called, inbox>>
  BY DEF Handshake, waitVars, viewVars
<1>2. TypeOK' BY <1>1 DEF IInv, Typing, TypeOK
<1>3. Waits' BY <1>1, WaitsStays DEF IInv
<1>4. Views' BY <1>1 DEF IInv, Views, Fresh, Blanked
<1>5. QED BY <1>1, <1>2, <1>3, <1>4, ViewStep

\* A line of another user waits to be shown; the bound leaves it a number.
LEMMA MessageStep == ASSUME IInv, Message PROVE IInv'
<1>1. TypeOK BY DEF IInv, Typing
<1>2. PICK b : b = Line("other", GlobalChat, 0) OBVIOUS
<1>3. b \in Lines /\ b.from = "other"
  <2>1. 0 \in Texts /\ GlobalChat \in Targets BY MaxLinesAssumption DEF Texts, Targets
  <2>2. QED BY <1>2, <2>1 DEF Line, Lines
<1>4. PICK q \in Seq(Lines) : q = inbox BY <1>1 DEF TypeOK
<1>5. PICK r \in Seq(Lines) : r = Append(q, b) BY <1>3, AppendProperties
<1>6. Len(r) = Len(q) + 1 /\ Len(q) \in Nat /\ ToSet(r) = ToSet(q) \cup {b}
  BY <1>3, <1>5, AppendProperties, LenProperties, ToSetAppend
<1>7. /\ inbox' = r /\ MESSAGE_COUNT + Len(q) < MaxLines
      /\ UNCHANGED <<ui, layer, asked, rx, to, messages, MESSAGE_COUNT, queue, hand, hung, called>>
  BY <1>2, <1>4, <1>5 DEF Message, waitVars, viewVars, workerVars
<1>8. Typing'
  <2>1. TypeOK' BY <1>1, <1>7 DEF TypeOK
  <2>2. PICK n \in Nat : n = MESSAGE_COUNT BY <1>1, MaxLinesAssumption DEF TypeOK
  <2>3. n + Len(r) <= MaxLines BY <1>6, <1>7, <2>2, MaxLinesAssumption
  <2>4. \A l \in ToSet(r) : l.from = "other" BY <1>3, <1>4, <1>6 DEF IInv, Typing
  <2>5. QED BY <1>7, <2>1, <2>2, <2>3, <2>4 DEF Typing
<1>9. Waits' BY <1>7, WaitsStays DEF IInv
<1>10. Views' BY <1>7 DEF IInv, Views, Fresh, Blanked
<1>11. Written' BY <1>7, WrittenStays DEF IInv
<1>12. QED BY <1>8, <1>9, <1>10, <1>11 DEF IInv

-----------------------------------------------------------------------------
(* The invariant                                                           *)

LEMMA InitInv == Init => IInv
<1> SUFFICES ASSUME Init PROVE IInv OBVIOUS
<1>1. /\ ui = "connect" /\ layer = "none" /\ asked = None /\ rx = None
      /\ to = GlobalChat /\ messages = << >> /\ MESSAGE_COUNT = 0
      /\ queue = << >> /\ hand = None /\ hung = FALSE
      /\ inbox = << >> /\ called = << >>
  BY DEF Init
<1>2. ToSet(<< >>) = {} /\ DOMAIN << >> = {} /\ Len(<< >>) = 0 BY DEF ToSet
<1>3. Typing
  <2>1. GlobalChat \in Targets /\ 0 \in 0 .. MaxLines /\ 0 <= Capacity
    BY CapacityAssumption, MaxLinesAssumption DEF Targets
  <2>2. /\ queue \in Seq(MessageSend) /\ Len(queue) <= Capacity /\ called \in Seq(MessageSend)
        /\ messages \in Seq(Lines) /\ inbox \in Seq(Lines)
    BY <1>1, <1>2, <2>1
  <2>3. TypeOK BY <1>1, <2>1, <2>2 DEF TypeOK
  <2>4. QED BY <1>1, <1>2, <2>3, MaxLinesAssumption DEF Typing
<1>4. Waits
  <2>1. Quiet BY <1>1, <1>2 DEF Quiet
  <2>2. None # "empty" /\ None # "refused" /\ None # "dropped" BY NoneAssumption
  <2>3. QED BY <1>1, <2>1, <2>2 DEF Waits, PanicsOnErrors
<1>5. Views BY <1>1 DEF Views, Fresh
<1>6. Written BY <1>1, <1>2 DEF Written, Hand, Sorted, Before
<1>7. QED BY <1>3, <1>4, <1>5, <1>6 DEF IInv

LEMMA NextInv == IInv /\ [Next]_vars => IInv'
<1> SUFFICES ASSUME IInv, [Next]_vars PROVE IInv' OBVIOUS
<1>1. CASE Thread
  <2>1. CASE ConnectNetwork \/ Quit BY <2>1, ConnectStep
  <2>2. CASE Dismiss \/ \E n \in Targets : Submit(n) BY <2>2, DialogStep
  <2>3. CASE TryIter BY <2>3, TryIterStep
  <2>4. CASE NoName \/ NotSent BY <2>4, InformStep DEF NoName, NotSent
  <2>5. CASE Login BY <2>5, LoginStep
  <2>6. CASE SendMsg BY <2>6, SendMsgStep
  <2>7. CASE PrivateChat \/ Ping BY <2>7, ButtonStep
  <2>8. CASE Wakes BY <2>8, LoggedInStep, WakeStep DEF Wakes
  <2>9. QED BY <1>1, <2>1, <2>2, <2>3, <2>4, <2>5, <2>6, <2>7, <2>8 DEF Thread
<1>2. CASE Worker BY <1>2, RecvStep, SayStep, AnswerStep DEF Worker
<1>3. CASE Handshake BY <1>3, HandshakeStep
<1>4. CASE Message BY <1>4, MessageStep
<1>5. CASE UNCHANGED vars
  <2>1. UNCHANGED <<ui, layer, asked, rx, to, messages, MESSAGE_COUNT, queue, hand, hung, called, inbox>>
    BY <1>5 DEF vars, waitVars, viewVars, workerVars
  <2>2. TypeOK' BY <2>1 DEF IInv, Typing, TypeOK
  <2>3. Waits' BY <2>1, WaitsStays DEF IInv
  <2>4. Views' BY <2>1 DEF IInv, Views, Fresh, Blanked
  <2>5. QED BY <2>1, <2>2, <2>3, <2>4, ViewStep
<1>6. QED BY <1>1, <1>2, <1>3, <1>4, <1>5 DEF Next

LEMMA Invariant == Spec => []IInv
BY InitInv, NextInv, PTL DEF Spec

-----------------------------------------------------------------------------
(* What follows                                                            *)

\* The variables stay what the code declares them to be; the channel is never overfull.
THEOREM TypeCorrect == Spec => []TypeOK
<1>1. IInv => TypeOK BY DEF IInv, Typing
<1>2. QED BY <1>1, Invariant, PTL

\* The thread panics in no other place than at the sender that get_users or ping dropped:
\* the unwraps of Login, whose try_send finds room and whose task always answers, hold.
THEOREM OnlyErrorsPanic == Spec => []PanicsOnErrors
<1>1. IInv => PanicsOnErrors BY DEF IInv, Waits
<1>2. QED BY <1>1, Invariant, PTL

\* What the list of lines says the user wrote is what the task says to the server, to whom
\* and in the order in which it was written, whatever the channel still holds.
THEOREM LinesMatchRequests == Spec => []ShownIsSent
<1>1. ASSUME IInv PROVE ShownIsSent
  <2>1. TypeOK BY <1>1 DEF IInv, Typing
  <2>2. PICK c \in Seq(MessageSend) : c = called BY <2>1 DEF TypeOK
  <2>3. PICK q \in Seq(MessageSend) : q = queue BY <2>1 DEF TypeOK
  <2>4. PICK h \in Seq(MessageSend) :
           h = InHand /\ ToSet(h) = Hand /\ Sorted(h, Messages)
    <3>1. CASE hand = None
      <4>1. DOMAIN << >> = {} /\ << >> \in Seq(MessageSend) OBVIOUS
      <4>2. ToSet(<< >>) = {} /\ Sorted(<< >>, Messages) BY <4>1 DEF ToSet, Sorted
      <4>3. InHand = << >> /\ Hand = {} BY <3>1 DEF InHand, Hand
      <4>4. QED BY <4>1, <4>2, <4>3
    <3>2. CASE hand # None
      <4>1. PICK m \in MessageSend : m = hand BY <2>1, <3>2 DEF TypeOK
      <4>2. <<m>> \in [1 .. 1 -> MessageSend] BY <4>1
      <4>3. <<m>> \in Seq(MessageSend) BY <4>2, SeqDef
      <4>4. DOMAIN <<m>> = 1 .. 1 /\ <<m>>[1] = m OBVIOUS
      <4>5. ToSet(<<m>>) = {m} BY <4>4 DEF ToSet
      <4>6. Sorted(<<m>>, Messages) BY <4>4 DEF Sorted
      <4>7. InHand = <<m>> /\ Hand = {m} BY <3>2, <4>1 DEF InHand, Hand
      <4>8. QED BY <4>3, <4>5, <4>6, <4>7
    <3>3. QED BY <3>1, <3>2
  <2>5. /\ Sorted(c, Messages) /\ Sorted(q, Messages)
        /\ Before(ToSet(c), Hand) /\ Before(ToSet(c), ToSet(q)) /\ Before(Hand, ToSet(q))
    BY <1>1, <2>2, <2>3 DEF IInv, Written
  <2>6. PICK ch \in Seq(MessageSend) : ch = c \o h BY ConcatProperties
  <2>7. ToSet(ch) = ToSet(c) \cup Hand BY <2>4, <2>6, ToSetConcat
  <2>8. Sorted(ch, Messages)
    <3>1. \A x \in ToSet(c) \cap Messages, y \in ToSet(h) \cap Messages : x.text < y.text
      BY <2>4, <2>5 DEF Before, Messages
    <3>2. QED BY <2>4, <2>5, <2>6, <3>1, SortedConcat
  <2>9. PICK r \in Seq(MessageSend) : r = ch \o q BY ConcatProperties
  <2>10. ToSet(r) = ToSet(c) \cup Hand \cup ToSet(q) BY <2>7, <2>9, ToSetConcat
  <2>11. Sorted(r, Messages)
    <3>1. \A x \in ToSet(ch) \cap Messages, y \in ToSet(q) \cap Messages : x.text < y.text
      BY <2>5, <2>7 DEF Before, Messages
    <3>2. QED BY <2>5, <2>8, <2>9, <3>1, SortedConcat
  <2>12. Requests = r BY <2>2, <2>3, <2>4, <2>6, <2>9 DEF Requests
  <2>13. \A i \in DOMAIN r : r[i] \in MessageSend BY ElementOfSeq, LenProperties
  <2>14. \A i, j \in DOMAIN r :
            i < j /\ IsMessage(r[i]) /\ IsMessage(r[j]) => r[i].text < r[j].text
    BY <2>11, <2>13 DEF Sorted, Messages
  <2>15. PICK s \in Seq(Lines) : s = messages BY <2>1 DEF TypeOK
  <2>16. \A i \in DOMAIN s : s[i] \in Lines BY ElementOfSeq, LenProperties
  <2>17. Sorted(s, OwnLines) BY <1>1, <2>15 DEF IInv, Written
  <2>18. \A i, j \in DOMAIN s :
            i < j /\ s[i].from = "me" /\ s[j].from = "me" => s[i].text < s[j].text
    BY <2>16, <2>17 DEF Sorted, OwnLines
  <2>19. {l \in ToSet(s) : l.from = "me"} = ToSet(messages) \cap OwnLines
    <3>1. ToSet(s) \subseteq Lines BY ToSetIn
    <3>2. QED BY <2>15, <3>1 DEF OwnLines
  <2>20. {m \in ToSet(r) : IsMessage(m)} = (ToSet(called) \cup Hand \cup ToSet(queue)) \cap Messages
    <3>1. ToSet(r) \subseteq MessageSend BY ToSetIn
    <3>2. QED BY <2>2, <2>3, <2>10, <3>1 DEF Messages
  <2>21. {Shown(l) : l \in ToSet(messages) \cap OwnLines} =
            (ToSet(called) \cup Hand \cup ToSet(queue)) \cap Messages
    BY <1>1 DEF IInv, Written
  <2>22. QED BY <2>12, <2>14, <2>15, <2>18, <2>19, <2>20, <2>21 DEF ShownIsSent
<1>2. QED BY <1>1, Invariant, PTL

\* Lines only move to the front, where the blank ones make room: what has been shown since
\* the login can be read as long as the client runs.
THEOREM BlankLinesGo == Spec => LinesStay
<1>1. ASSUME IInv, [Next]_vars PROVE [BlankOnesGo]_vars
  <2>1. TypeOK BY <1>1 DEF IInv, Typing
  <2>2. PICK q \in Seq(Lines) : q = messages BY <2>1 DEF TypeOK
  <2>3. Len(q) \in Nat /\ DOMAIN q = 1 .. Len(q) BY LenProperties
  <2>4. ASSUME UNCHANGED messages PROVE BlankOnesGo
    <3>1. 0 \in 0 .. Len(messages) /\ \A i \in 1 .. 0 : messages[i].from = "blank"
      BY <2>2, <2>3
    <3>2. ASSUME NEW i \in 0 + 1 .. Len(q)
          PROVE  i - 0 \in DOMAIN messages' /\ messages'[i - 0] = messages[i]
      <4>1. i \in DOMAIN q /\ i - 0 = i BY <2>3, <3>2
      <4>2. QED BY <2>2, <2>4, <4>1
    <3>3. QED BY <2>2, <3>1, <3>2 DEF BlankOnesGo
  <2>5. ASSUME NEW lines \in Seq(Lines), Show(lines), ui = "chat" PROVE BlankOnesGo
    <3>1. Blanked BY <1>1, <2>5 DEF IInv, Views
    <3>2. PICK gone \in 0 .. Len(messages) :
             /\ \A i \in 1 .. gone : messages[i].from = "blank"
             /\ \A i \in gone + 1 .. Len(messages) :
                   i - gone \in DOMAIN messages' /\ messages'[i - gone] = messages[i]
      BY <2>1, <2>5, <3>1, ShowMeans
    <3>3. QED BY <3>2 DEF BlankOnesGo
  <2>6. CASE TryIter
    <3>1. CASE ui = "chat"
      <4>1. PICK ls \in Seq(Lines) : ls = inbox BY <2>1 DEF TypeOK
      <4>2. Show(ls) BY <2>6, <3>1, <4>1 DEF TryIter
      <4>3. QED BY <2>5, <3>1, <4>2
    <3>2. CASE ui # "chat" BY <2>4, <2>6, <3>2 DEF TryIter
    <3>3. QED BY <3>1, <3>2
  <2>7. CASE SendMsg
    <3>1. PICK n : n = MESSAGE_COUNT + 1 OBVIOUS
    <3>2. PICK l : l = Line("me", to, n) OBVIOUS
    <3>3. ui = "chat" /\ MESSAGE_COUNT + Len(inbox) < MaxLines /\ Show(<<l>>)
      BY <2>7, <3>1, <3>2 DEF SendMsg, Handles
    <3>4. Len(inbox) \in Nat /\ MESSAGE_COUNT \in Nat
      <4>1. Len(inbox) \in Nat BY <2>1, LenProperties DEF TypeOK
      <4>2. QED BY <2>1, <4>1, MaxLinesAssumption DEF TypeOK
    <3>5. n \in Texts BY <3>1, <3>3, <3>4, MaxLinesAssumption DEF Texts
    <3>6. l \in Lines BY <2>1, <3>2, <3>5 DEF Lines, Line, TypeOK
    <3>7. <<l>> \in [1 .. 1 -> Lines] BY <3>6
    <3>8. <<l>> \in Seq(Lines) BY <3>7, SeqDef
    <3>9. QED BY <2>5, <3>3, <3>8
  <2>8. CASE LoggedIn
    <3>1. messages = << >> BY <1>1, <2>8 DEF LoggedIn, IInv, Views, Fresh
    <3>2. Len(messages) = 0 BY <3>1
    <3>3. QED BY <3>2 DEF BlankOnesGo
  <2>9. CASE Thread /\ ~TryIter /\ ~SendMsg /\ ~LoggedIn
    <3>1. UNCHANGED messages
      BY <2>9 DEF Thread, ConnectNetwork, Quit, Dismiss, NoName, NotSent, Inform, Login,
                  PrivateChat, Ping, Ask, Panic, Submit, Wakes, LoginError, Answered,
                  Unanswered, viewVars
    <3>2. QED BY <2>4, <3>1
  <2>10. CASE Worker \/ Handshake \/ Message \/ UNCHANGED vars
    <3>1. UNCHANGED messages
      BY <2>10 DEF Worker, Recv, Say, Answer, Handshake, Message, vars, viewVars
    <3>2. QED BY <2>4, <3>1
  <2>11. QED BY <1>1, <2>6, <2>7, <2>8, <2>9, <2>10 DEF Next
<1>2. QED BY <1>1, Invariant, PTL DEF Spec, LinesStay
=============================================================================
