--------------------------- MODULE RequestsProofs ---------------------------
(***************************************************************************)
(* Proofs about Requests: whatever the tree, however wrong the indexes and *)
(* whatever is lost on the way, answers are true and the broker never      *)
(* sends to a closed channel.  For these nothing is needed of the routing  *)
(* but that a frame is passed on, answered or dropped.  The last part is   *)
(* about where frames go: in a tree that does not change, requests are     *)
(* judged, executed and answered as the whole tree says.                   *)
(***************************************************************************)
EXTENDS Requests, TLAPS, WellFoundedInduction

(* A frame as far as the argument needs it: where it is does not matter.   *)
Framed(f) ==
    /\ DOMAIN f = {"type", "from", "at", "hops", "code"}
    /\ f.type \in {"req", "resp"}
    /\ f.type = "resp" => f.code \in Code

FrameType ==
    /\ DOMAIN frame = Attempt
    /\ \A a \in Attempt : frame[a] # None => Framed(frame[a])

BrokerType ==
    /\ asked \in Attempt \cup {0}
    /\ waiters \subseteq Attempt /\ closed \subseteq Attempt
    /\ hand \in [Attempt -> Code \cup {0}]
    /\ channel \in [Attempt -> Code \cup {0}]
    /\ outcome \in [Attempt -> Seq(Code)]
    /\ executed \in [Attempt -> {0, 1}]

(* A code says the truth about an attempt. *)
Truth(a, code) ==
    /\ code = 1 => executed[a] = 1
    /\ code \in {403, 404} => executed[a] = 0

(* The requester has no answer yet, or its deadline was first. *)
Open(a) == outcome[a] = <<>> \/ (outcome[a] = <<408>> /\ kind = "exec")

(* An attempt that has not been made has left no trace; the request or its *)
(* answer is in one place at a time; and what is answered is true.         *)
Fresh(a) ==
    asked < a => /\ frame[a] = None /\ hand[a] = 0 /\ channel[a] = 0 /\ executed[a] = 0
                 /\ outcome[a] = <<>> /\ a \notin waiters /\ a \notin closed

Honest(a) ==
    /\ Has(a, "req") => executed[a] = 0
    /\ Has(a, "resp") => Truth(a, frame[a].code)
    /\ frame[a] # None => hand[a] = 0 /\ channel[a] = 0 /\ Open(a)
    /\ hand[a] # 0 => channel[a] = 0 /\ Truth(a, hand[a]) /\ Open(a)
    /\ channel[a] # 0 => Truth(a, channel[a]) /\ Open(a)
    /\ outcome[a] = <<>> \/ \E code \in Code : outcome[a] = <<code>> /\ Truth(a, code)

(* The channel of a registered waiter is open, and what Deliver has taken  *)
(* it for can still be sent.                                               *)
Safe(a) ==
    /\ a \in waiters => Waiting(a) /\ a \notin closed /\ hand[a] = 0 /\ channel[a] = 0
    /\ hand[a] # 0 => a \notin closed

AnswerInv ==
    FrameType /\ BrokerType /\ \A a \in Attempt : Fresh(a) /\ Honest(a) /\ Safe(a)

USE DEF Code, request, tables, broker

-----------------------------------------------------------------------------
(* What handling a request comes to: its frame is dropped, passed on, or   *)
(* replaced by an answer.  If it was not executed, that is no success; if  *)
(* it was, it is neither 403 nor 404.                                      *)

Settles(a) ==
    /\ frame' = [frame EXCEPT ![a] = frame'[a]]
    /\ frame'[a] # None => /\ Framed(frame'[a])
                           /\ frame'[a].type = "resp" => frame'[a].code # 1

Reports(a) ==
    /\ frame' = [frame EXCEPT ![a] = frame'[a]]
    /\ frame'[a] # None => /\ Framed(frame'[a])
                           /\ frame'[a].type = "resp" /\ frame'[a].code \in {1, 500}

Handled(a) ==
    \/ Settles(a) /\ UNCHANGED executed
    \/ Reports(a) /\ executed' = [executed EXCEPT ![a] = @ + 1]

Attempted(a) ==
    a \in Attempt /\ Has(a, "req") /\ FrameType /\ executed \in [Attempt -> {0, 1}]

(* A new answer of a hub: to an unexecuted request, or to an executed one. *)
LEMMA AnswerSettles ==
    ASSUME NEW a, Attempted(a), NEW n, NEW code \in Code, Answer(a, n, code)
    PROVE  /\ code # 1 => Settles(a)
           /\ code \in {1, 500} => Reports(a)
<1>0. a \in DOMAIN frame
  BY DEF Attempted, FrameType
<1>1. CASE NextHop(n, origin) = None
  <2>1. frame' = [frame EXCEPT ![a] = None]
    BY <1>1 DEF Answer, Put
  <2>2. frame'[a] = None
    BY <1>0, <2>1
  <2>3. frame' = [frame EXCEPT ![a] = frame'[a]]
    BY <2>1, <2>2
  <2> QED BY <2>2, <2>3 DEF Settles, Reports
<1>2. CASE NextHop(n, origin) # None
  <2> DEFINE f == [type |-> "resp", from |-> n, at |-> NextHop(n, origin), hops |-> HopLimit,
                   code |-> code]
  <2>1. frame' = [frame EXCEPT ![a] = f]
    BY <1>2 DEF Answer, Put
  <2>2. Framed(f) /\ f.type = "resp" /\ f.code = code
    BY DEF Framed
  <2> HIDE DEF f
  <2>3. frame'[a] = f
    BY <1>0, <2>1
  <2>4. frame' = [frame EXCEPT ![a] = frame'[a]]
    BY <2>1, <2>3
  <2>5. Framed(frame'[a]) /\ frame'[a].type = "resp" /\ frame'[a].code = code
    BY <2>2, <2>3
  <2> QED BY <2>4, <2>5 DEF Settles, Reports
<1> QED BY <1>1, <1>2

(* Dropping a frame. *)
LEMMA DropSettles ==
    ASSUME NEW a, Attempted(a), Drop(a)
    PROVE  Settles(a)
<1>1. frame' = [frame EXCEPT ![a] = None] /\ frame'[a] = None
  BY DEF Drop, Put, Attempted, FrameType
<1> QED BY <1>1 DEF Settles

(* Passing a request on. *)
LEMMA PassSettles ==
    ASSUME NEW a, Attempted(a), NEW n, NEW c, Pass(a, n, c)
    PROVE  Settles(a)
<1> DEFINE f == [frame[a] EXCEPT !.from = n, !.at = c, !.hops = @ - 1]
<1>1. frame' = [frame EXCEPT ![a] = f]
  BY DEF Pass, Put
<1>2. Framed(frame[a]) /\ frame[a].type = "req"
  BY DEF Attempted, FrameType, Has
<1>3. Framed(f) /\ f.type = "req"
  BY <1>2 DEF Framed
<1> HIDE DEF f
<1>4. frame'[a] = f
  BY <1>1 DEF Attempted, FrameType
<1> QED BY <1>1, <1>3, <1>4 DEF Settles

(* Forwarding a request, whoever is told when that fails. *)
LEMMA ForwardSettles ==
    ASSUME NEW a, Attempted(a), NEW n, NEW c, NEW tell, NEW tellError,
           Forward(a, n, c, tell, tellError)
    PROVE  Settles(a)
<1>1. Pass(a, n, c) \/ Answer(a, n, 500) \/ Drop(a)
  BY DEF Forward
<1> QED BY <1>1, AnswerSettles, DropSettles, PassSettles

(* A refusal. *)
LEMMA DenySettles ==
    ASSUME NEW a, Attempted(a), NEW n, Deny(a, n)
    PROVE  Settles(a)
  BY AnswerSettles DEF Deny

(* The way up. *)
LEMMA UpSettles ==
    ASSUME NEW a, Attempted(a), NEW n, Up(a, n)
    PROVE  Settles(a)
<1>1. Answer(a, n, 404) \/ Forward(a, n, ParentConn(n), TRUE, kind = "run")
  BY DEF Up
<1>2. ASSUME Answer(a, n, 404) PROVE Settles(a)
  BY <1>2, AnswerSettles
<1>3. ASSUME Forward(a, n, ParentConn(n), TRUE, kind = "run") PROVE Settles(a)
  BY <1>3, ForwardSettles
<1> QED BY <1>1, <1>2, <1>3

(* A request from below or from a client. *)
LEMMA RouteSettles ==
    ASSUME NEW a, Attempted(a), NEW n, Route(a, n)
    PROVE  Settles(a)
<1>1. Up(a, n) \/ Deny(a, n) \/ Forward(a, n, Via(n, executor), TRUE, kind = "run")
  BY DEF Route
<1>2. ASSUME Forward(a, n, Via(n, executor), TRUE, kind = "run") PROVE Settles(a)
  BY <1>2, ForwardSettles
<1> QED BY <1>1, <1>2, UpSettles, DenySettles

(* The ways down. *)
LEMMA DownSettles ==
    ASSUME NEW a, Attempted(a), NEW n,
           ForwardDown(a, n) \/ ForwardDownOrDrop(a, n) \/ ForwardCtrlEnd(a, n)
    PROVE  Settles(a)
<1>1. ASSUME NEW c, Forward(a, n, c, TRUE, TRUE) \/ Forward(a, n, c, FALSE, FALSE) PROVE Settles(a)
  BY <1>1, ForwardSettles
<1>2. ASSUME Answer(a, n, 500) PROVE Settles(a)
  BY <1>2, AnswerSettles
<1> QED BY <1>1, <1>2, DropSettles DEF ForwardDown, ForwardDownOrDrop, ForwardCtrlEnd

(* Execution: a success is reported when it is done, 403 and 404 when not. *)
LEMMA LocalHandled ==
    ASSUME NEW a, Attempted(a), NEW n,
           \/ ApplySetLocal(a, n) \/ ApplyDeleteLocal(a, n) \/ RunLocal(a, n)
           \/ CancelRunLocal(a, n) \/ StatusLocal(a, n) \/ DetailLocal(a, n)
           \/ ListLocal(a, n) \/ ListRunsLocal(a, n)
           \/ GetLocal(a, n) \/ ListDirLocal(a, n) \/ MkdirLocal(a, n) \/ ReadTextLocal(a, n)
           \/ ExecLocal(a, n)
    PROVE  Handled(a)
<1>1. ASSUME NEW codes \in SUBSET {1, 500}, Reply(a, n, TRUE, codes) PROVE Handled(a)
  <2>1. PICK code \in codes : Answer(a, n, code)
    BY <1>1 DEF Reply
  <2>2. Reports(a)
    BY <2>1, AnswerSettles
  <2>3. executed' = [executed EXCEPT ![a] = @ + 1]
    BY <1>1 DEF Reply
  <2> QED BY <2>2, <2>3 DEF Handled
<1>2. ASSUME NEW codes \in SUBSET {403, 404, 500}, DoesNot(a, n, codes) PROVE Handled(a)
  <2>1. PICK code \in codes : Answer(a, n, code)
    BY <1>2 DEF DoesNot, Reply
  <2>2. Settles(a)
    BY <2>1, AnswerSettles
  <2>3. UNCHANGED executed
    BY <1>2 DEF DoesNot, Reply, Attempted
  <2> QED BY <2>2, <2>3 DEF Handled
<1>3. ASSUME Does(a, n) PROVE Handled(a)
  BY <1>1, <1>3 DEF Does
<1>4. ASSUME DoesNot(a, n, {500}) PROVE Handled(a)
  BY <1>2, <1>4
<1>5. ASSUME DoesNot(a, n, {404}) PROVE Handled(a)
  BY <1>2, <1>5
<1>6. ASSUME DoesNot(a, n, {404, 500}) PROVE Handled(a)
  BY <1>2, <1>6
<1>7. ASSUME DoesNot(a, n, {403, 404}) PROVE Handled(a)
  BY <1>2, <1>7
<1>8. ASSUME Reply(a, n, TRUE, {1, 500}) PROVE Handled(a)
  BY <1>1, <1>8, ZenonT(30)
<1>9. ApplySetLocal(a, n) => Handled(a)
  BY <1>3, <1>4 DEF ApplySetLocal
<1>10. ApplyDeleteLocal(a, n) => Handled(a)
  BY <1>3, <1>6 DEF ApplyDeleteLocal
<1>11. RunLocal(a, n) => Handled(a)
  BY <1>3, <1>6 DEF RunLocal
<1>12. CancelRunLocal(a, n) => Handled(a)
  BY <1>3, <1>6 DEF CancelRunLocal
<1>13. StatusLocal(a, n) => Handled(a)
  BY <1>3, <1>5 DEF StatusLocal
<1>14. DetailLocal(a, n) => Handled(a)
  BY <1>3, <1>6 DEF DetailLocal
<1>15. ListLocal(a, n) => Handled(a)
  BY <1>3 DEF ListLocal
<1>16. ListRunsLocal(a, n) => Handled(a)
  BY <1>3, <1>5 DEF ListRunsLocal
<1>17. GetLocal(a, n) => Handled(a)
  BY <1>3, <1>5 DEF GetLocal
<1>18. ListDirLocal(a, n) => Handled(a)
  BY <1>3, <1>6 DEF ListDirLocal
<1>19. MkdirLocal(a, n) => Handled(a)
  BY <1>3, <1>4 DEF MkdirLocal
<1>20. ReadTextLocal(a, n) => Handled(a)
  BY <1>3, <1>6 DEF ReadTextLocal
<1>21. ExecLocal(a, n) => Handled(a)
  BY <1>7, <1>8 DEF ExecLocal
<1> QED BY <1>9, <1>10, <1>11, <1>12, <1>13, <1>14, <1>15, <1>16, <1>17,
          <1>18, <1>19, <1>20, <1>21

(* Routing without execution. *)
LEMMA SettlesHandled ==
    ASSUME NEW a, Settles(a), UNCHANGED executed
    PROVE  Handled(a)
  BY DEF Handled

(* Every handler does one of the two. *)
LEMMA RequestHandled ==
    ASSUME NEW a, Attempted(a), HandleRequest(a)
    PROVE  Handled(a)
<1> DEFINE n == frame[a].at
           RunDown == LET c == Via(n, executor)
                      IN  IF c = None \/ IsParent(n, c) THEN Answer(a, n, 404) /\ UNCHANGED tables
                          ELSE Forward(a, n, c, TRUE, TRUE)
           Sent == ForwardDown(a, n) \/ ForwardDownOrDrop(a, n) \/ ForwardCtrlEnd(a, n)
           Away == (Sent \/ RunDown \/ Deny(a, n) \/ Route(a, n)) /\ UNCHANGED executed
           Here1 == \/ ApplySetLocal(a, n) \/ ApplyDeleteLocal(a, n) \/ RunLocal(a, n)
                    \/ CancelRunLocal(a, n) \/ StatusLocal(a, n) \/ DetailLocal(a, n)
                    \/ ListLocal(a, n) \/ ListRunsLocal(a, n) \/ GetLocal(a, n)
                    \/ ListDirLocal(a, n) \/ MkdirLocal(a, n) \/ ReadTextLocal(a, n)
                    \/ ExecLocal(a, n)
<1>1. ASSUME Here1 PROVE Handled(a)
  BY <1>1, LocalHandled
<1>2. ASSUME Away PROVE Handled(a)
  <2>1. ASSUME RunDown PROVE Settles(a)
    <3>1. ASSUME Answer(a, n, 404) PROVE Settles(a)
      BY <3>1, AnswerSettles
    <3>2. ASSUME NEW c, Forward(a, n, c, TRUE, TRUE) PROVE Settles(a)
      BY <3>2, ForwardSettles
    <3> QED BY <2>1, <3>1, <3>2
  <2>2. ASSUME Sent PROVE Settles(a)
    BY <2>2, DownSettles
  <2>3. Settles(a)
    BY <1>2, <2>1, <2>2, DenySettles, RouteSettles
  <2> QED BY <1>2, <2>3, SettlesHandled
<1>3. CASE HandleSet(a) \/ HandleDelete(a)
  <2>1. Here1 \/ Away
    BY <1>3 DEF HandleSet, HandleDelete, Handle
  <2> QED BY <1>1, <1>2, <2>1
<1>4. CASE \/ HandleRun(a) \/ HandleCancelRun(a) \/ HandleStatus(a) \/ HandleDetail(a)
           \/ HandleList(a) \/ HandleListRuns(a) \/ HandleGet(a)
  <2>1. Here1 \/ Away
    BY <1>4 DEF HandleRun, HandleCancelRun, HandleStatus, HandleDetail, HandleList,
         HandleListRuns, HandleGet, ForwardToExecutorWithPerm, Handle
  <2> QED BY <1>1, <1>2, <2>1
<1>5. CASE HandleCall(a) \/ HandleReadRequest(a) \/ HandleWriteRequest(a)
  <2>1. Here1 \/ Away
    BY <1>5 DEF HandleCall, HandleReadRequest, HandleWriteRequest, RouteCtrlRequest, Handle
  <2> QED BY <1>1, <1>2, <2>1
<1> QED BY <1>3, <1>4, <1>5 DEF HandleRequest

-----------------------------------------------------------------------------
(* The requester and the broker. *)

(* An attempt that a step leaves alone keeps its part of the invariant. *)
LEMMA Others ==
    ASSUME NEW b \in Attempt, Fresh(b), Honest(b), Safe(b),
           asked \in Nat, asked' \in Nat, asked <= asked', kind' = kind,
           frame'[b] = frame[b], hand'[b] = hand[b], channel'[b] = channel[b],
           executed'[b] = executed[b], outcome'[b] = outcome[b],
           b \in waiters' <=> b \in waiters, b \in closed' <=> b \in closed
    PROVE  Fresh(b)' /\ Honest(b)' /\ Safe(b)'
<1>1. b \in Nat
  BY RequestsAssumption DEF Attempt
<1>2. Fresh(b)'
  BY <1>1 DEF Fresh
<1>3. Honest(b)'
  BY DEF Honest, Has, Truth, Open
<1>4. Safe(b)'
  BY <1>1 DEF Safe, Waiting
<1> QED BY <1>2, <1>3, <1>4

(* It holds at the start. *)
LEMMA InitAnswer == Init => AnswerInv
<1> SUFFICES ASSUME Init PROVE AnswerInv
  OBVIOUS
<1>1. FrameType /\ BrokerType
  BY DEF Init, FrameType, BrokerType
<1>2. ASSUME NEW a \in Attempt PROVE Fresh(a) /\ Honest(a) /\ Safe(a)
  BY DEF Init, Fresh, Honest, Safe, Has
<1> QED BY <1>1, <1>2 DEF AnswerInv

(* A client asks. *)
LEMMA AskAnswer ==
    ASSUME AnswerInv, NEW a \in Attempt, Ask(a)
    PROVE  AnswerInv'
<1> USE DEF AnswerInv
<1> DEFINE f == New(ParentConn(origin))
<1>0. a \in Nat /\ asked = 0 /\ asked' = a /\ asked < a
  BY RequestsAssumption DEF Ask, Attempt
<1>1. frame' = [frame EXCEPT ![a] = f]
  BY DEF Ask, Put
<1>2. Framed(f) /\ f.type = "req"
  BY DEF New, Framed
<1> HIDE DEF f
<1>3. FrameType'
  BY <1>1, <1>2 DEF FrameType
<1>4. BrokerType'
  BY DEF Ask, BrokerType
<1>5. UNCHANGED <<kind, hand, channel, executed, outcome, waiters, closed>>
  BY DEF Ask
<1>6. ASSUME NEW b \in Attempt PROVE Fresh(b)' /\ Honest(b)' /\ Safe(b)'
  <2>1. CASE b = a
    <3>1. frame'[a] = f
      BY <1>1 DEF FrameType
    <3>2. Fresh(a)
      OBVIOUS
    <3> QED BY <1>0, <1>2, <1>5, <2>1, <3>1, <3>2 DEF Fresh, Honest, Safe, Has, Open
  <2>2. CASE b # a
    <3>1. frame'[b] = frame[b]
      BY <1>1, <2>2 DEF FrameType
    <3> QED BY <1>0, <1>5, <3>1, Others
  <2> QED BY <2>1, <2>2
<1> QED BY <1>3, <1>4, <1>6

(* A flow calls, or fails to: the attempt is a new one. *)
LEMMA ExecCallAnswer ==
    ASSUME AnswerInv, NEW a \in Attempt, ExecCall(a)
    PROVE  AnswerInv'
<1> USE DEF AnswerInv
<1>0. /\ a \in Nat /\ asked \in Nat /\ asked' = a /\ asked < a /\ kind = "exec"
  BY RequestsAssumption DEF ExecCall, Attempt, BrokerType
<1>1. UNCHANGED <<kind, hand, channel, executed>>
  BY DEF ExecCall
<1>2. Fresh(a) /\ Honest(a)
  OBVIOUS
<1>3. PICK c :
        \/ Put(a, New(c)) /\ waiters' = waiters \cup {a} /\ UNCHANGED <<outcome, closed>>
        \/ /\ outcome' = [outcome EXCEPT ![a] = <<500>>]
           /\ closed' = closed \cup {a}
           /\ UNCHANGED <<frame, waiters>>
  BY DEF ExecCall
<1>4. CASE Put(a, New(c)) /\ waiters' = waiters \cup {a} /\ UNCHANGED <<outcome, closed>>
  <2> DEFINE f == New(c)
  <2>1. frame' = [frame EXCEPT ![a] = f]
    BY <1>4 DEF Put
  <2>2. Framed(f) /\ f.type = "req"
    BY DEF New, Framed
  <2> HIDE DEF f
  <2>3. FrameType'
    BY <2>1, <2>2 DEF FrameType
  <2>4. BrokerType'
    BY <1>0, <1>1, <1>4 DEF BrokerType
  <2>5. frame'[a] = f /\ \A b \in Attempt : b # a => frame'[b] = frame[b]
    BY <2>1 DEF FrameType
  <2>6. Fresh(a)' /\ Honest(a)'
    BY <1>0, <1>1, <1>2, <1>4, <2>2, <2>5 DEF Fresh, Honest, Has, Open
  <2>7. Safe(a)'
    BY <1>0, <1>1, <1>2, <1>4 DEF Fresh, Safe, Waiting
  <2>8. ASSUME NEW b \in Attempt, b # a PROVE Fresh(b)' /\ Honest(b)' /\ Safe(b)'
    BY <1>0, <1>1, <1>4, <2>5, <2>8, Others
  <2> QED BY <2>3, <2>4, <2>6, <2>7, <2>8
<1>5. CASE /\ outcome' = [outcome EXCEPT ![a] = <<500>>]
           /\ closed' = closed \cup {a}
           /\ UNCHANGED <<frame, waiters>>
  <2>3. FrameType'
    BY <1>5 DEF FrameType
  <2>4. BrokerType'
    BY <1>0, <1>1, <1>5 DEF BrokerType
  <2>5. outcome'[a] = <<500>> /\ \A b \in Attempt : b # a => outcome'[b] = outcome[b]
    BY <1>5 DEF BrokerType
  <2>6. Truth(a, 500)'
    BY DEF Truth
  <2>7. Fresh(a)' /\ Safe(a)'
    BY <1>0, <1>1, <1>2, <1>5, <2>5 DEF Fresh, Safe
  <2>8. Honest(a)'
    BY <1>0, <1>1, <1>2, <1>5, <2>5, <2>6 DEF Fresh, Honest, Has
  <2>9. ASSUME NEW b \in Attempt, b # a PROVE Fresh(b)' /\ Honest(b)' /\ Safe(b)'
    BY <1>0, <1>1, <1>5, <2>5, <2>9, Others
  <2> QED BY <2>3, <2>4, <2>7, <2>8, <2>9
<1> QED BY <1>3, <1>4, <1>5

(* A hub handles a request. *)
LEMMA RequestAnswer ==
    ASSUME AnswerInv, NEW a \in Attempt, HandleRequest(a)
    PROVE  AnswerInv'
<1> USE DEF AnswerInv
<1>0. UNCHANGED <<kind, asked, hand, channel, outcome, waiters, closed>> /\ Has(a, "req")
  BY DEF HandleRequest
<1>1. Handled(a)
  BY <1>0, RequestHandled DEF Attempted, BrokerType
<1>2. /\ frame' = [frame EXCEPT ![a] = frame'[a]]
      /\ frame'[a] # None => Framed(frame'[a])
  BY <1>1 DEF Handled, Settles, Reports
<1>3. FrameType'
  BY <1>2 DEF FrameType
<1>4. executed[a] = 0 /\ frame[a] # None
  BY <1>0 DEF Honest, Has
<1>5. executed' \in [Attempt -> {0, 1}] /\ \A b \in Attempt : b # a => executed'[b] = executed[b]
  <2>1. executed' = executed \/ executed' = [executed EXCEPT ![a] = executed[a] + 1]
    BY <1>1 DEF Handled
  <2>2. executed[a] + 1 = 1 /\ executed \in [Attempt -> {0, 1}]
    BY <1>4 DEF BrokerType
  <2> QED BY <2>1, <2>2
<1>6. BrokerType'
  BY <1>0, <1>5 DEF BrokerType
<1>7. \/ executed'[a] = 0 /\ Settles(a)
      \/ executed'[a] = 1 /\ Reports(a)
  BY <1>1, <1>4 DEF Handled, BrokerType
<1>8. hand[a] = 0 /\ channel[a] = 0 /\ Open(a)
  BY <1>4 DEF Honest
<1>9. asked \in Nat /\ a \in Nat
  BY RequestsAssumption DEF Attempt, BrokerType
<1>10. Fresh(a)' /\ Safe(a)'
  BY <1>0, <1>4, <1>8, <1>9 DEF Fresh, Safe, Waiting
<1>11. Honest(a)'
  <2>1. Has(a, "req")' => executed'[a] = 0
    BY <1>7 DEF Has, Reports
  <2>2. Has(a, "resp")' => Truth(a, frame[a].code)'
    BY <1>7 DEF Has, Reports, Settles, Truth
  <2>3. Open(a)'
    BY <1>0, <1>8 DEF Open
  <2>4. outcome'[a] = <<>> \/ \E code \in Code : outcome'[a] = <<code>> /\ Truth(a, code)'
    <3>1. CASE outcome'[a] = <<>>
      BY <3>1
    <3>2. CASE outcome'[a] = <<408>>
      <4>1. Truth(a, 408)'
        BY DEF Truth
      <4> QED BY <3>2, <4>1
    <3> QED BY <2>3, <3>1, <3>2 DEF Open
  <2> QED BY <1>0, <1>8, <2>1, <2>2, <2>3, <2>4 DEF Honest
<1>12. ASSUME NEW b \in Attempt, b # a PROVE Fresh(b)' /\ Honest(b)' /\ Safe(b)'
  <2>1. frame'[b] = frame[b]
    BY <1>2, <1>12 DEF FrameType
  <2> QED BY <1>0, <1>5, <1>9, <1>12, <2>1, Others
<1> QED BY <1>3, <1>6, <1>10, <1>11, <1>12

(* An answer goes on, or is lost. *)
LEMMA ResponseAnswer ==
    ASSUME AnswerInv, NEW a \in Attempt, ForwardResponse(a)
    PROVE  AnswerInv'
<1> USE DEF AnswerInv
<1>0. /\ UNCHANGED <<kind, asked, hand, channel, outcome, waiters, closed, executed>>
      /\ Has(a, "resp")
  BY DEF ForwardResponse
<1>1. PICK n, c : Drop(a) \/ Pass(a, n, c)
  BY DEF ForwardResponse, ForwardCtrlByHeaderTarget, ForwardRemoteByHeaderTarget
<1>2. Framed(frame[a]) /\ frame[a] # None /\ frame[a].type = "resp"
  BY <1>0 DEF FrameType, Has
<1>3. /\ frame' = [frame EXCEPT ![a] = frame'[a]]
      /\ frame'[a] # None => /\ Framed(frame'[a]) /\ frame'[a].type = "resp"
                             /\ frame'[a].code = frame[a].code
  <2>1. CASE Drop(a)
    <3>1. frame' = [frame EXCEPT ![a] = None] /\ frame'[a] = None
      BY <2>1 DEF Drop, Put, FrameType
    <3> QED BY <3>1
  <2>2. CASE Pass(a, n, c)
    <3> DEFINE f == [frame[a] EXCEPT !.from = n, !.at = c, !.hops = @ - 1]
    <3>1. frame' = [frame EXCEPT ![a] = f]
      BY <2>2 DEF Pass, Put
    <3>2. Framed(f) /\ f.type = "resp" /\ f.code = frame[a].code
      BY <1>2 DEF Framed
    <3> HIDE DEF f
    <3>3. frame'[a] = f
      BY <3>1 DEF FrameType
    <3>4. frame' = [frame EXCEPT ![a] = frame'[a]]
      BY <3>1, <3>3
    <3> QED BY <3>2, <3>3, <3>4
  <2> QED BY <1>1, <2>1, <2>2
<1>4. FrameType'
  BY <1>3 DEF FrameType
<1>5. BrokerType'
  BY <1>0 DEF BrokerType
<1>6. asked \in Nat /\ a \in Nat
  BY RequestsAssumption DEF Attempt, BrokerType
<1>7. Fresh(a)' /\ Safe(a)'
  BY <1>0, <1>2, <1>6 DEF Fresh, Safe, Waiting
<1>8. Honest(a)'
  <2>1. Truth(a, frame[a].code) /\ Open(a) /\ hand[a] = 0 /\ channel[a] = 0
    BY <1>0, <1>2 DEF Honest
  <2>2. Has(a, "resp")' => Truth(a, frame[a].code)'
    BY <1>0, <1>3, <2>1 DEF Truth, Has
  <2>3. ~ Has(a, "req")'
    BY <1>3 DEF Has
  <2>4. Open(a)'
    BY <1>0, <2>1 DEF Open
  <2>5. outcome'[a] = <<>> \/ \E code \in Code : outcome'[a] = <<code>> /\ Truth(a, code)'
    BY <1>0 DEF Honest, Truth
  <2> QED BY <1>0, <2>1, <2>2, <2>3, <2>4, <2>5 DEF Honest
<1>9. ASSUME NEW b \in Attempt, b # a PROVE Fresh(b)' /\ Honest(b)' /\ Safe(b)'
  <2>1. frame'[b] = frame[b]
    BY <1>3, <1>9 DEF FrameType
  <2> QED BY <1>0, <1>6, <1>9, <2>1, Others
<1> QED BY <1>4, <1>5, <1>7, <1>8, <1>9

(* The origin takes an answer. *)
LEMMA ReceiveAnswer ==
    ASSUME AnswerInv, NEW a \in Attempt, Receive(a)
    PROVE  AnswerInv'
<1> USE DEF AnswerInv
<1>0. /\ UNCHANGED <<kind, asked, hand, channel, waiters, closed, executed>>
      /\ Has(a, "resp") /\ kind # "exec"
  BY DEF Receive
<1>1. Framed(frame[a]) /\ frame[a] # None /\ frame[a].type = "resp"
  BY <1>0 DEF FrameType, Has
<1>2. /\ frame[a].code \in Code /\ Truth(a, frame[a].code) /\ outcome[a] = <<>>
      /\ hand[a] = 0 /\ channel[a] = 0
  BY <1>0, <1>1 DEF Framed, Honest, Open
<1>3. outcome' = [outcome EXCEPT ![a] = <<frame[a].code>>]
  BY <1>2 DEF Receive
<1>4. outcome'[a] = <<frame[a].code>> /\ \A b \in Attempt : b # a => outcome'[b] = outcome[b]
  BY <1>3 DEF BrokerType
<1>5. /\ frame' = [frame EXCEPT ![a] = None]
      /\ frame'[a] = None /\ \A b \in Attempt : b # a => frame'[b] = frame[b]
  BY DEF Receive, Drop, Put, FrameType
<1>6. FrameType' /\ BrokerType'
  BY <1>0, <1>2, <1>3, <1>5 DEF FrameType, BrokerType
<1>7. asked \in Nat /\ a \in Nat
  BY RequestsAssumption DEF Attempt, BrokerType
<1>8. Fresh(a)' /\ Safe(a)'
  BY <1>0, <1>1, <1>2, <1>7 DEF Fresh, Safe, Waiting
<1>9. Honest(a)'
  <2>1. ASSUME NEW i, i = frame[a].code PROVE Truth(a, i)'
    BY <1>0, <1>2, <2>1 DEF Truth
  <2>2. \E code \in Code : outcome'[a] = <<code>> /\ Truth(a, code)'
    BY <1>2, <1>4, <2>1
  <2> QED BY <1>0, <1>2, <1>5, <2>2 DEF Honest, Has
<1>10. ASSUME NEW b \in Attempt, b # a PROVE Fresh(b)' /\ Honest(b)' /\ Safe(b)'
  BY <1>0, <1>4, <1>5, <1>7, <1>10, Others
<1> QED BY <1>6, <1>8, <1>9, <1>10

(* Deliver takes the waiter of the attempt, if the call still waits. *)
LEMMA DeliverAnswer ==
    ASSUME AnswerInv, NEW a \in Attempt, Deliver(a)
    PROVE  AnswerInv'
<1> USE DEF AnswerInv
<1>0. /\ UNCHANGED <<kind, asked, channel, closed, executed, outcome>>
      /\ Has(a, "resp") /\ kind = "exec"
  BY DEF Deliver
<1>1. Framed(frame[a]) /\ frame[a] # None /\ frame[a].type = "resp"
  BY <1>0 DEF FrameType, Has
<1>2. /\ frame[a].code \in Code /\ Truth(a, frame[a].code) /\ Open(a)
      /\ hand[a] = 0 /\ channel[a] = 0
  BY <1>0, <1>1 DEF Framed, Honest
<1>3. /\ hand' \in [Attempt -> Code \cup {0}]
      /\ hand'[a] = (IF a \in waiters THEN frame[a].code ELSE 0)
      /\ \A b \in Attempt : b # a => hand'[b] = hand[b]
  BY <1>2 DEF Deliver, BrokerType
<1>4. waiters' = waiters \ {a}
  BY DEF Deliver
<1>5. /\ frame' = [frame EXCEPT ![a] = None]
      /\ frame'[a] = None /\ \A b \in Attempt : b # a => frame'[b] = frame[b]
  BY DEF Deliver, Drop, Put, FrameType
<1>6. FrameType' /\ BrokerType'
  BY <1>0, <1>3, <1>4, <1>5 DEF FrameType, BrokerType
<1>7. asked \in Nat /\ a \in Nat
  BY RequestsAssumption DEF Attempt, BrokerType
<1>8. Fresh(a)' /\ Safe(a)'
  BY <1>0, <1>1, <1>3, <1>4, <1>7 DEF Fresh, Safe, Waiting
<1>9. Honest(a)'
  <2>1. hand'[a] # 0 => Truth(a, hand[a])'
    BY <1>0, <1>2, <1>3 DEF Truth
  <2>2. Open(a)'
    BY <1>0, <1>2 DEF Open
  <2>3. outcome'[a] = <<>> \/ \E code \in Code : outcome'[a] = <<code>> /\ Truth(a, code)'
    BY <1>0 DEF Honest, Truth
  <2> QED BY <1>0, <1>2, <1>5, <2>1, <2>2, <2>3 DEF Honest, Has
<1>10. ASSUME NEW b \in Attempt, b # a PROVE Fresh(b)' /\ Honest(b)' /\ Safe(b)'
  BY <1>0, <1>3, <1>4, <1>5, <1>7, <1>10, Others
<1> QED BY <1>6, <1>8, <1>9, <1>10

(* Deliver sends: only a call whose waiter Deliver took, and cancel has    *)
(* nothing to close.                                                       *)
LEMMA SendAnswer ==
    ASSUME AnswerInv, NEW a \in Attempt, DeliverSend(a)
    PROVE  AnswerInv'
<1> USE DEF AnswerInv
<1>0. /\ UNCHANGED <<kind, asked, frame, waiters, executed, outcome>>
      /\ hand[a] # 0 /\ closed' = closed \cup {a}
  BY DEF DeliverSend
<1>1. /\ hand[a] \in Code /\ Truth(a, hand[a]) /\ Open(a) /\ channel[a] = 0
      /\ frame[a] = None /\ a \notin waiters
  BY <1>0 DEF Honest, Safe, BrokerType
<1>2. /\ channel' \in [Attempt -> Code \cup {0}] /\ hand' \in [Attempt -> Code \cup {0}]
      /\ channel'[a] = hand[a] /\ hand'[a] = 0
      /\ \A b \in Attempt : b # a => hand'[b] = hand[b] /\ channel'[b] = channel[b]
  BY <1>1 DEF DeliverSend, BrokerType
<1>6. FrameType' /\ BrokerType'
  BY <1>0, <1>2 DEF FrameType, BrokerType
<1>7. asked \in Nat /\ a \in Nat
  BY RequestsAssumption DEF Attempt, BrokerType
<1>8. Fresh(a)' /\ Safe(a)'
  BY <1>0, <1>1, <1>2, <1>7 DEF Fresh, Safe
<1>9. Honest(a)'
  <2>1. Truth(a, channel[a])'
    BY <1>0, <1>1, <1>2 DEF Truth
  <2>2. Open(a)'
    BY <1>0, <1>1 DEF Open
  <2>3. outcome'[a] = <<>> \/ \E code \in Code : outcome'[a] = <<code>> /\ Truth(a, code)'
    BY <1>0 DEF Honest, Truth
  <2> QED BY <1>0, <1>1, <1>2, <2>1, <2>2, <2>3 DEF Honest, Has
<1>10. ASSUME NEW b \in Attempt, b # a PROVE Fresh(b)' /\ Honest(b)' /\ Safe(b)'
  BY <1>0, <1>2, <1>7, <1>10, Others
<1> QED BY <1>6, <1>8, <1>9, <1>10

(* A call returns with its answer, or at its deadline. *)
LEMMA ReturnAnswer ==
    ASSUME AnswerInv, NEW a \in Attempt, CallReturns(a) \/ CallTimesOut(a)
    PROVE  AnswerInv'
<1> USE DEF AnswerInv
<1>0. /\ UNCHANGED <<kind, asked, frame, hand, executed>> /\ Waiting(a) /\ Cancel(a)
  BY DEF CallReturns, CallTimesOut
<1>1. PICK code \in Code :
        /\ outcome' = [outcome EXCEPT ![a] = <<code>>]
        /\ \/ channel[a] = code /\ channel' = [channel EXCEPT ![a] = 0]
           \/ code = 408 /\ UNCHANGED channel
  BY DEF CallReturns, CallTimesOut, BrokerType
<1>2. /\ kind = "exec" /\ a <= asked /\ outcome[a] = <<>>
  BY <1>0 DEF Waiting
<1>3. /\ outcome' \in [Attempt -> Seq(Code)] /\ channel' \in [Attempt -> Code \cup {0}]
      /\ outcome'[a] = <<code>>
      /\ \A b \in Attempt : b # a => outcome'[b] = outcome[b] /\ channel'[b] = channel[b]
  <2>1. <<code>> \in Seq(Code)
    OBVIOUS
  <2>2. /\ outcome' \in [Attempt -> Seq(Code)] /\ outcome'[a] = <<code>>
        /\ \A b \in Attempt : b # a => outcome'[b] = outcome[b]
    BY <1>1, <2>1 DEF BrokerType
  <2>3. /\ channel' \in [Attempt -> Code \cup {0}]
        /\ \A b \in Attempt : b # a => channel'[b] = channel[b]
    <3>1. channel \in [Attempt -> Code \cup {0}]
      BY DEF BrokerType
    <3>2. CASE channel' = [channel EXCEPT ![a] = 0]
      BY <3>1, <3>2
    <3>3. CASE UNCHANGED channel
      BY <3>1, <3>3
    <3> QED BY <1>1, <3>2, <3>3
  <2> QED BY <2>2, <2>3
<1>4. /\ waiters' = waiters \ {a} /\ closed' \subseteq Attempt
      /\ \A b \in Attempt : b # a => (b \in closed' <=> b \in closed)
      /\ a \in closed' => a \in closed \/ a \in waiters
  BY <1>0 DEF Cancel, BrokerType
<1>6. FrameType' /\ BrokerType'
  BY <1>0, <1>3, <1>4 DEF FrameType, BrokerType
<1>7. asked \in Nat /\ a \in Nat
  BY RequestsAssumption DEF Attempt, BrokerType
<1>8. Fresh(a)' /\ Safe(a)'
  BY <1>0, <1>2, <1>4, <1>7 DEF Fresh, Safe
<1>9. Honest(a)'
  <2>1. Truth(a, code)
    BY <1>1 DEF Honest, Truth
  <2>2. Truth(a, code)'
    BY <1>0, <2>1 DEF Truth
  <2>3. CASE channel[a] = code
    <3>1. channel'[a] = 0 \/ (code = 408 /\ channel'[a] = 408)
      BY <1>1, <2>3 DEF BrokerType
    <3>2. frame[a] = None /\ hand[a] = 0
      BY <2>3 DEF Honest
    <3>3. channel'[a] # 0 => Truth(a, channel[a])' /\ Open(a)'
      BY <1>0, <1>2, <1>3, <3>1 DEF Truth, Open
    <3> QED BY <1>0, <1>3, <2>2, <3>2, <3>3 DEF Honest, Has
  <2>4. CASE code = 408 /\ UNCHANGED channel
    <3>1. Open(a)'
      BY <1>0, <1>2, <1>3, <2>4 DEF Open
    <3>2. channel[a] # 0 => Truth(a, channel[a])'
      BY <1>0, <2>4 DEF Honest, Truth
    <3>3. Has(a, "resp") => Truth(a, frame[a].code)'
      BY <1>0 DEF Honest, Truth
    <3>4. hand[a] # 0 => Truth(a, hand[a])'
      BY <1>0 DEF Honest, Truth
    <3>5. (Has(a, "resp")' <=> Has(a, "resp")) /\ (Has(a, "req")' <=> Has(a, "req"))
      BY <1>0 DEF Has
    <3> QED BY <1>0, <1>3, <2>2, <2>4, <3>1, <3>2, <3>3, <3>4, <3>5 DEF Honest
  <2> QED BY <1>1, <2>3, <2>4
<1>10. ASSUME NEW b \in Attempt, b # a PROVE Fresh(b)' /\ Honest(b)' /\ Safe(b)'
  BY <1>0, <1>3, <1>4, <1>7, <1>10, Others
<1> QED BY <1>6, <1>8, <1>9, <1>10

(* The tree changes; a frame may be lost. *)
LEMMA ChangeAnswer ==
    ASSUME AnswerInv, NEW n, NEW t, Cut(n) \/ Forget(n, t) \/ Learn(n, t)
    PROVE  AnswerInv'
<1> USE DEF AnswerInv
<1>0. UNCHANGED <<kind, asked, hand, channel, executed, outcome, waiters, closed>>
  BY DEF Cut, Forget, Learn
<1>1. DOMAIN frame' = Attempt /\ \A b \in Attempt : frame'[b] \in {frame[b], None}
  BY DEF Cut, Forget, Learn, FrameType
<1>2. FrameType' /\ BrokerType'
  BY <1>0, <1>1 DEF FrameType, BrokerType
<1>3. asked \in Nat
  BY RequestsAssumption DEF Attempt, BrokerType
<1>4. ASSUME NEW b \in Attempt PROVE Fresh(b)' /\ Honest(b)' /\ Safe(b)'
  <2>1. CASE frame'[b] = frame[b]
    BY <1>0, <1>3, <2>1, Others
  <2>2. CASE frame'[b] = None
    <3>1. Fresh(b)' /\ Safe(b)'
      BY <1>0, <2>2 DEF Fresh, Safe, Waiting
    <3>2. Honest(b)'
      BY <1>0, <2>2 DEF Honest, Has, Truth, Open
    <3> QED BY <3>1, <3>2
  <2> QED BY <1>1, <2>1, <2>2
<1> QED BY <1>2, <1>4

(* Every step keeps it. *)
LEMMA StepAnswer == AnswerInv /\ [Next]_vars => AnswerInv'
<1> SUFFICES ASSUME AnswerInv, [Next]_vars PROVE AnswerInv'
  OBVIOUS
<1>1. CASE UNCHANGED vars
  BY <1>1 DEF vars, AnswerInv, FrameType, BrokerType, Fresh, Honest, Safe, Has, Truth, Open, Waiting
<1>2. CASE Next
  <2>1. ASSUME NEW a \in Attempt,
               Ask(a) \/ ExecCall(a) \/ Worker(a) \/ CallReturns(a) \/ CallTimesOut(a)
        PROVE  AnswerInv'
    BY <2>1, AskAnswer, ExecCallAnswer, RequestAnswer, ResponseAnswer, ReceiveAnswer,
       DeliverAnswer, SendAnswer, ReturnAnswer DEF Worker
  <2>2. ASSUME NEW n \in Node, NEW t, Cut(n) \/ Forget(n, t) \/ Learn(n, t)
        PROVE  AnswerInv'
    BY <2>2, ChangeAnswer
  <2> QED BY <1>2, <2>1, <2>2 DEF Next
<1> QED BY <1>1, <1>2

(* AnswersAreTrue: whatever the indexes say and whatever is lost on the    *)
(* way, handleCallResp and the hubs report a success only for what was     *)
(* executed, 403 and 404 only for what was not and will not be, and        *)
(* nothing is executed or answered twice.                                  *)
THEOREM AnswersTrue == Spec => []AnswersAreTrue
<1>1. AnswerInv => AnswersAreTrue
  <2> SUFFICES ASSUME AnswerInv, NEW a \in Attempt
               PROVE  /\ executed[a] <= 1 /\ Len(outcome[a]) <= 1
                      /\ outcome[a] = <<1>> => executed[a] = 1
                      /\ outcome[a] \in {<<403>>, <<404>>} =>
                           executed[a] = 0 /\ (frame[a] = None \/ frame[a].type = "resp")
    BY DEF AnswersAreTrue
  <2>1. Honest(a) /\ executed[a] \in {0, 1}
    BY DEF AnswerInv, BrokerType
  <2>2. CASE outcome[a] = <<>>
    BY <2>1, <2>2
  <2>3. ASSUME NEW code \in Code, outcome[a] = <<code>>, Truth(a, code) PROVE
               /\ Len(outcome[a]) <= 1 /\ code = outcome[a][1]
               /\ outcome[a] = <<1>> => executed[a] = 1
               /\ outcome[a] \in {<<403>>, <<404>>} => executed[a] = 0
    BY <2>3 DEF Truth
  <2>4. outcome[a] \in {<<403>>, <<404>>} => ~ Open(a)
    BY DEF Open
  <2>5. outcome[a] \in {<<403>>, <<404>>} => frame[a] = None
    BY <2>1, <2>4 DEF Honest
  <2> QED BY <2>1, <2>2, <2>3, <2>5 DEF Honest
<1> QED BY <1>1, InitAnswer, StepAnswer, PTL DEF Spec

(* DeliverIsSafe: between Deliver's taking the waiter under the lock and   *)
(* its sending, the caller's deferred cancel may run: it finds no waiter   *)
(* and closes nothing, so the send never panics.                           *)
THEOREM DeliverSafe == Spec => []DeliverIsSafe
<1>1. AnswerInv => DeliverIsSafe
  BY DEF AnswerInv, Safe, DeliverIsSafe
<1> QED BY <1>1, InitAnswer, StepAnswer, PTL DEF Spec

-----------------------------------------------------------------------------
(* The tree.                                                               *)

Depth ==
    CHOOSE depth \in [Node -> 0..HopLimit + 1] :
        /\ depth[Root] = 0
        /\ \A n \in Node \ {Root} : depth[n] = depth[Parent[n]] + 1
        /\ \A m, n \in Node : depth[m] + depth[n] <= HopLimit + 1

(* How deep the nodes of a tree are. *)
LEMMA DepthFacts ==
    ASSUME ShallowTree
    PROVE  /\ Depth \in [Node -> Nat] /\ HopLimit \in Nat
           /\ Depth[Root] = 0
           /\ \A n \in Node \ {Root} : Parent[n] \in Node /\ Depth[n] = Depth[Parent[n]] + 1
           /\ \A m, n \in Node : Depth[m] + Depth[n] <= HopLimit + 1
<1>1. /\ Depth \in [Node -> 0..HopLimit + 1]
      /\ Depth[Root] = 0
      /\ \A n \in Node \ {Root} : Depth[n] = Depth[Parent[n]] + 1
      /\ \A m, n \in Node : Depth[m] + Depth[n] <= HopLimit + 1
  BY DEF ShallowTree, Depth
<1>2. HopLimit \in Nat /\ Parent \in [Node \ {Root} -> Node]
  BY RequestsAssumption
<1>3. 0..HopLimit + 1 \subseteq Nat
  BY <1>2
<1> QED BY <1>1, <1>2, <1>3

(* A set that has the root, and each node whose parent it has, has all. *)
LEMMA TreeInduction ==
    ASSUME ShallowTree, NEW S, Root \in S,
           \A n \in Node \ {Root} : Parent[n] \in S => n \in S
    PROVE  Node \subseteq S
<1> SUFFICES ASSUME NEW n \in Node, n \notin S PROVE FALSE
  OBVIOUS
<1> DEFINE D == {Depth[m] : m \in Node \ S}
<1>1. D \in SUBSET Nat /\ D # {}
  BY DepthFacts
<1>2. PICK x \in D : \A y \in D : ~(<<y, x>> \in OpToRel(<, Nat))
  BY <1>1, NatLessThanWellFounded, WFMin
<1>3. PICK m \in Node \ S : x = Depth[m]
  BY <1>2
<1>4. /\ Parent[m] \in Node \ S /\ Depth[m] = Depth[Parent[m]] + 1
      /\ Depth[m] \in Nat /\ Depth[Parent[m]] \in Nat
  BY <1>3, DepthFacts
<1> DEFINE y == Depth[Parent[m]]
<1>5. y \in D /\ y < x /\ y \in Nat /\ x \in Nat
  BY <1>3, <1>4
<1>6. <<y, x>> \in Nat \X Nat /\ <<y, x>>[1] < <<y, x>>[2]
  BY <1>5
<1>7. <<y, x>> \in OpToRel(<, Nat)
  BY <1>6 DEF OpToRel
<1> QED BY <1>2, <1>5, <1>7

(* Above is what its definition says: the sets of a node and of those above *)
(* it exist.                                                               *)
LEMMA AboveIs ==
    ASSUME ShallowTree
    PROVE  /\ Above[Root] = {Root}
           /\ \A n \in Node \ {Root} : Above[n] = {n} \cup Above[Parent[n]]
<1> DEFINE Closed(S) == \A x \in S \ {Root} : Parent[x] \in S
           Up1(n) == {m \in Node : \A S \in SUBSET Node : n \in S /\ Closed(S) => m \in S}
           Body(f) == [n \in Node |-> IF n = Root THEN {n} ELSE {n} \cup f[Parent[n]]]
           A == [n \in Node |-> Up1(n)]
<1>0. Root \in Node /\ \A n \in Node \ {Root} : Parent[n] \in Node
  BY DepthFacts, RequestsAssumption
<1>1. Up1(Root) = {Root}
  <2>1. {Root} \in SUBSET Node /\ Closed({Root})
    BY <1>0
  <2>2. Up1(Root) \subseteq {Root}
    BY <2>1
  <2> QED BY <1>0, <2>2
<1>2. ASSUME NEW n \in Node \ {Root} PROVE Up1(n) = {n} \cup Up1(Parent[n])
  <2>1. Parent[n] \in Node
    BY <1>0
  <2>2. ASSUME NEW m \in Up1(Parent[n]), NEW S \in SUBSET Node, n \in S, Closed(S) PROVE m \in S
    BY <2>2
  <2>3. {n} \cup Up1(Parent[n]) \subseteq Up1(n)
    BY <2>2
  <2> DEFINE T == {n} \cup Up1(Parent[n])
  <2>4. T \in SUBSET Node /\ n \in T
    BY <2>1
  <2>5. ASSUME NEW x \in T \ {Root} PROVE Parent[x] \in T
    <3>1. CASE x = n
      BY <2>1, <3>1
    <3>2. CASE x \in Up1(Parent[n])
      <4>1. Parent[x] \in Node
        BY <1>0, <2>4
      <4>2. ASSUME NEW S \in SUBSET Node, Parent[n] \in S, Closed(S) PROVE Parent[x] \in S
        <5>1. x \in S
          BY <3>2, <4>2
        <5> QED BY <4>2, <5>1
      <4> QED BY <4>1, <4>2
    <3> QED BY <3>1, <3>2
  <2>6. Closed(T)
    BY <2>5
  <2>7. ASSUME NEW m \in Up1(n) PROVE m \in T
    <3> HIDE DEF T
    <3> QED BY <2>4, <2>6
  <2> QED BY <2>3, <2>7
<1>3. A = Body(A)
  <2> HIDE DEF Up1
  <2>1. ASSUME NEW n \in Node
        PROVE  A[n] = IF n = Root THEN {n} ELSE {n} \cup A[Parent[n]]
    BY <1>0, <1>1, <1>2
  <2> QED BY <2>1
<1>4. Above = CHOOSE f : f = Body(f)
  BY DEF Above
<1> HIDE DEF A
<1>5. Above = Body(Above)
  <2> HIDE DEF Body
  <2>1. \E f : f = Body(f)
    BY <1>3
  <2> QED BY <1>4, <2>1
<1> QED BY <1>0, <1>5

(* Nodes and those above them: the order of a tree. *)
LEMMA AboveNodes ==
    ASSUME ShallowTree, NEW n \in Node
    PROVE  Above[n] \subseteq Node /\ n \in Above[n] /\ Root \in Above[n]
<1> DEFINE S == {m \in Node : Above[m] \subseteq Node /\ m \in Above[m] /\ Root \in Above[m]}
<1>1. Root \in S
  BY AboveIs, RequestsAssumption
<1>2. \A m \in Node \ {Root} : Parent[m] \in S => m \in S
  BY AboveIs
<1> HIDE DEF S
<1>3. Node \subseteq S
  BY <1>1, <1>2, TreeInduction
<1> QED BY <1>3 DEF S

LEMMA AboveTransitive ==
    ASSUME ShallowTree, NEW n \in Node, NEW m \in Above[n]
    PROVE  Above[m] \subseteq Above[n]
<1> DEFINE S == {k \in Node : \A x \in Above[k] : Above[x] \subseteq Above[k]}
<1>1. Root \in S
  BY AboveIs, RequestsAssumption
<1>2. \A k \in Node \ {Root} : Parent[k] \in S => k \in S
  BY AboveIs
<1> HIDE DEF S
<1>3. Node \subseteq S
  BY <1>1, <1>2, TreeInduction
<1> QED BY <1>3 DEF S

LEMMA AboveIsHigher ==
    ASSUME ShallowTree, NEW n \in Node, NEW m \in Above[n], m # n
    PROVE  Depth[m] < Depth[n] /\ n # Root /\ m \in Above[Parent[n]]
<1> DEFINE S == {k \in Node : \A x \in Above[k] : x = k \/ Depth[x] < Depth[k]}
<1>1. Root \in S
  BY AboveIs, RequestsAssumption
<1>2. ASSUME NEW k \in Node \ {Root}, Parent[k] \in S PROVE k \in S
  <2>1. /\ Depth[k] = Depth[Parent[k]] + 1 /\ Depth[Parent[k]] \in Nat /\ Parent[k] \in Node
    BY DepthFacts
  <2>2. ASSUME NEW x \in Above[k], x # k PROVE Depth[x] < Depth[k]
    <3>1. x \in Above[Parent[k]] /\ x \in Node
      BY <2>1, <2>2, AboveIs, AboveNodes
    <3>2. x = Parent[k] \/ Depth[x] < Depth[Parent[k]]
      BY <1>2, <3>1
    <3>3. Depth[x] \in Nat
      BY <3>1, DepthFacts
    <3> QED BY <2>1, <3>2, <3>3
  <2> QED BY <2>2
<1> HIDE DEF S
<1>3. Node \subseteq S
  BY <1>1, <1>2, TreeInduction
<1>4. n # Root
  BY AboveIs
<1> QED BY <1>3, <1>4, AboveIs DEF S

(* Those above a node are above one another. *)
LEMMA AboveChain ==
    ASSUME ShallowTree, NEW n \in Node, NEW x \in Above[n], NEW y \in Above[n]
    PROVE  x \in Above[y] \/ y \in Above[x]
<1> DEFINE S == {k \in Node : \A u, v \in Above[k] : u \in Above[v] \/ v \in Above[u]}
<1>1. Root \in S
  BY AboveIs, RequestsAssumption
<1>2. ASSUME NEW k \in Node \ {Root}, Parent[k] \in S PROVE k \in S
  <2>1. Above[k] = {k} \cup Above[Parent[k]]
    BY AboveIs
  <2> QED BY <1>2, <2>1
<1> HIDE DEF S
<1>3. Node \subseteq S
  BY <1>1, <1>2, TreeInduction
<1> QED BY <1>3 DEF S

(* Above one another means the same. *)
LEMMA AboveBoth ==
    ASSUME ShallowTree, NEW m \in Node, NEW n \in Node, m \in Above[n], n \in Above[m]
    PROVE  m = n
<1> SUFFICES ASSUME m # n PROVE FALSE
  OBVIOUS
<1>1. Depth[m] < Depth[n] /\ Depth[n] < Depth[m]
  BY AboveIsHigher
<1>2. Depth[m] \in Nat /\ Depth[n] \in Nat
  BY DepthFacts
<1> QED BY <1>1, <1>2

(* Above a node, below another: the only child towards it. *)
LEMMA OneChild ==
    ASSUME ShallowTree, NEW n \in Node, NEW t \in Node, n \in Above[t],
           NEW c \in Above[t], c # Root, Parent[c] = n,
           NEW d \in Above[t], d # Root, Parent[d] = n
    PROVE  c = d
<1> SUFFICES ASSUME c # d PROVE FALSE
  OBVIOUS
<1>1. c \in Node /\ d \in Node
  BY AboveNodes
<1>2. Depth[c] = Depth[n] + 1 /\ Depth[d] = Depth[n] + 1 /\ Depth[n] \in Nat
  BY <1>1, DepthFacts
<1>3. Depth[c] < Depth[d] \/ Depth[d] < Depth[c]
  BY <1>1, AboveChain, AboveIsHigher
<1> QED BY <1>2, <1>3

LEMMA TowardsIs ==
    ASSUME ShallowTree, NEW n \in Node, NEW t \in Node, n \in Above[t], n # t
    PROVE  /\ Towards(n, t) \in Above[t] /\ Towards(n, t) \in Node
           /\ Towards(n, t) # Root /\ Parent[Towards(n, t)] = n
           /\ \A c \in Above[t] : c # Root /\ Parent[c] = n => c = Towards(n, t)
<1> DEFINE S == {k \in Node : n \in Above[k] /\ n # k => \E c \in Above[k] : c # Root /\ Parent[c] = n}
<1>1. Root \in S
  BY AboveIs, RequestsAssumption
<1>2. ASSUME NEW k \in Node \ {Root}, Parent[k] \in S PROVE k \in S
  <2> SUFFICES ASSUME n \in Above[k], n # k PROVE \E c \in Above[k] : c # Root /\ Parent[c] = n
    OBVIOUS
  <2>1. Above[k] = {k} \cup Above[Parent[k]]
    BY AboveIs
  <2>2. CASE n = Parent[k]
    BY <2>1, <2>2
  <2>3. CASE n # Parent[k]
    BY <1>2, <2>1, <2>3
  <2> QED BY <2>2, <2>3
<1> HIDE DEF S
<1>3. Node \subseteq S
  BY <1>1, <1>2, TreeInduction
<1>4. \E c \in Above[t] : c # Root /\ Parent[c] = n
  BY <1>3 DEF S
<1>5. Towards(n, t) \in Above[t] /\ Towards(n, t) # Root /\ Parent[Towards(n, t)] = n
  BY <1>4 DEF Towards
<1> QED BY <1>5, OneChild, AboveNodes

(* The lowest common node above two, found from one of them. *)
LEMMA LcaIs ==
    ASSUME ShallowTree, NEW m \in Node, NEW n \in Node, NEW x \in Above[m] \cap Above[n],
           Above[m] \cap Above[n] \subseteq Above[x]
    PROVE  Lca(m, n) = x
<1>1. /\ Lca(m, n) \in Above[m] \cap Above[n]
      /\ Above[m] \cap Above[n] \subseteq Above[Lca(m, n)]
  BY DEF Lca
<1>2. x \in Node /\ Lca(m, n) \in Node
  BY <1>1, AboveNodes
<1> QED BY <1>1, <1>2, AboveBoth

(* Where the ways to two nodes part, or where one of them is. *)
LEMMA LcaWhereWaysPart ==
    ASSUME ShallowTree, NEW m \in Node, NEW n \in Node, NEW x \in Above[m] \cap Above[n],
           x = m \/ x = n \/ Towards(x, m) # Towards(x, n)
    PROVE  Lca(m, n) = x
<1>1. x \in Node
  BY AboveNodes
<1>2. ASSUME NEW y \in Above[m] \cap Above[n], y \notin Above[x] PROVE FALSE
  <2>1. x \in Above[y] /\ y \in Node
    BY <1>2, AboveChain, AboveNodes
  <2>2. x # y /\ x # m /\ x # n
    BY <1>1, <1>2, <2>1, AboveNodes, AboveBoth
  <2>3. Towards(x, y) \in Above[y] /\ Towards(x, y) # Root /\ Parent[Towards(x, y)] = x
    BY <1>1, <2>1, <2>2, TowardsIs
  <2>4. Towards(x, y) \in Above[m] /\ Towards(x, y) \in Above[n]
    BY <2>3, AboveTransitive
  <2>5. Towards(x, y) = Towards(x, m) /\ Towards(x, y) = Towards(x, n)
    BY <1>1, <2>2, <2>3, <2>4, TowardsIs
  <2> QED BY <2>2, <2>5
<1> QED BY <1>2, LcaIs

-----------------------------------------------------------------------------
(* The way of a request and of its answer while nothing changes.  A frame  *)
(* climbs from child to parent, or goes down from parent to child, and its *)
(* hops suffice for what is left of the way.                               *)

Asked ==
    /\ origin \in Node /\ executor \in Node \cup {Nowhere, Here}
    /\ kind = "exec" => executor \notin {origin, Here}
    /\ kind # "exec" => origin # Root
    /\ changes \in Nat

Tables ==
    /\ up = Node \ {Root}
    /\ \E withParent \in BOOLEAN : known = Index(withParent)

(* Nobody below was the judge: what f.from has below it has not both ends, *)
(* unless f comes from the origin itself, and a hub that took itself for   *)
(* the judge has granted the request.                                      *)
Climbs(f) ==
    /\ f.from \in Above[origin] /\ f.from # Root /\ f.at = Parent[f.from]
    /\ f.from # origin => executor # Here /\ (executor \in Node => f.from \notin Above[executor])
    /\ kind = "file" /\ executor = f.at /\ f.from # origin /\ executor \in known[f.from]
         => f.from \in grants
    /\ f.hops >= Depth[f.at] + (IF executor \in Node THEN Depth[executor] ELSE 0)

(* It has been granted.                                                    *)
Descends(f) ==
    /\ f.at \in Node \ {Root} /\ f.from = Parent[f.at]
    /\ executor \in Node /\ f.at \in Above[executor] /\ Granted
    /\ f.hops >= Depth[executor] - Depth[f.at]

Ascends(f) ==
    /\ f.from \in Node \ {Root} /\ f.at = Parent[f.from]
    /\ f.hops >= Depth[f.at] + Depth[origin]

Returns(f) ==
    /\ f.at \in Above[origin] /\ f.at # Root /\ f.from = Parent[f.at]
    /\ f.hops >= Depth[origin] - Depth[f.at]

(* The answer that the whole tree calls for.                               *)
Judged(code) ==
    IF executor = Nowhere THEN code = IF origin = Root THEN 500 ELSE 404
    ELSE IF Granted THEN code = 403 => kind = "exec"
    ELSE code = 403

OnItsWay(f) ==
    /\ f \in Frame
    /\ f.type = "req" => Climbs(f) \/ Descends(f)
    /\ f.type = "resp" => (Ascends(f) \/ Returns(f)) /\ Judged(f.code)

Way(a) ==
    /\ frame[a] # None => OnItsWay(frame[a])
    /\ hand[a] # 0 => Judged(hand[a])
    /\ channel[a] # 0 => Judged(channel[a])
    /\ \A code \in Code : outcome[a] = <<code>> => code = 408 \/ Judged(code)
    /\ executed[a] = 0 \/ Granted
    /\ a <= asked /\ kind # "exec" => frame[a] # None \/ outcome[a] # <<>>

WayInv == AnswerInv /\ Asked /\ (Steady => Tables /\ \A a \in Attempt : Way(a))

(* Next hops in a steady tree. *)
LEMMA ViaIs ==
    ASSUME ShallowTree, Tables, NEW n \in Node, NEW t
    PROVE  /\ t \in Node /\ n \in Above[t] /\ n # t =>
                 Via(n, t) = Towards(n, t) /\ Via(n, t) # None /\ ~IsParent(n, Via(n, t))
           /\ t \in Node /\ ~(n \in Above[t] /\ n # t) =>
                 IF t \in known[n] THEN IsParent(n, t) /\ Via(n, t) = t ELSE Via(n, t) = None
           /\ t \notin Node => Via(n, t) = None
<1>1. PICK withParent \in BOOLEAN :
        known[n] = (Below(n) \ {n}) \cup (IF withParent /\ n # Root THEN {Parent[n]} ELSE {})
  BY DEF Tables, Index
<1>2. n # Root => Parent[n] \in Node
  BY DepthFacts
<1>3. ASSUME t \in Node, n \in Above[t], n # t
      PROVE  Via(n, t) = Towards(n, t) /\ Via(n, t) # None /\ ~IsParent(n, Via(n, t))
  <2>1. t \in known[n]
    BY <1>1, <1>3 DEF Below
  <2>2. ASSUME NEW c \in Node, c # Root, Parent[c] = n, c = Parent[n], n # Root PROVE FALSE
    <3>1. Depth[c] = Depth[n] + 1 /\ Depth[n] = Depth[c] + 1 /\ Depth[c] \in Nat /\ Depth[n] \in Nat
      BY <2>2, DepthFacts
    <3> QED BY <3>1
  <2>3. ASSUME n # Root, t = Parent[n] PROVE FALSE
    <3>1. Depth[n] < Depth[t] /\ Depth[n] = Depth[t] + 1 /\ Depth[t] \in Nat
      BY <1>3, <2>3, DepthFacts, AboveIsHigher
    <3> QED BY <3>1
  <2>4. ~IsParent(n, t)
    BY <2>3 DEF IsParent
  <2>5. Towards(n, t) \in Node /\ Towards(n, t) # Root /\ Parent[Towards(n, t)] = n
    BY <1>3, TowardsIs
  <2> QED BY <2>1, <2>2, <2>4, <2>5, RequestsAssumption DEF Via, IsParent
<1>4. ASSUME t \in Node, ~(n \in Above[t] /\ n # t)
      PROVE  IF t \in known[n] THEN IsParent(n, t) /\ Via(n, t) = t ELSE Via(n, t) = None
  BY <1>1, <1>4 DEF Via, IsParent, Below
<1>5. ASSUME t \notin Node PROVE Via(n, t) = None
  BY <1>1, <1>2, <1>5 DEF Via, Below
<1> QED BY <1>3, <1>4, <1>5

LEMMA NextHopIs ==
    ASSUME ShallowTree, Tables, NEW n \in Node, NEW t \in Node, n # Root \/ t # Root
    PROVE  \/ n \in Above[t] /\ n # t /\ NextHop(n, t) = Towards(n, t) /\ NextHop(n, t) # None
           \/ ~(n \in Above[t] /\ n # t) /\ n # Root /\ NextHop(n, t) = Parent[n] /\ NextHop(n, t) # None
<1>1. CASE n \in Above[t] /\ n # t
  BY <1>1, ViaIs DEF NextHop
<1>2. CASE ~(n \in Above[t] /\ n # t)
  <2>1. n # Root
    BY <1>2, AboveNodes
  <2>2. n \in up /\ Parent[n] \in Node /\ Parent[n] # None
    BY <2>1, DepthFacts, RequestsAssumption DEF Tables
  <2>3. Via(n, t) = None \/ Via(n, t) = Parent[n]
    BY <1>2, ViaIs DEF IsParent
  <2> QED BY <1>2, <2>1, <2>2, <2>3 DEF NextHop, ParentConn
<1> QED BY <1>1, <1>2

(* A new answer is on its way. *)
LEMMA AnswerOnItsWay ==
    ASSUME ShallowTree, Tables, Asked, FrameType, NEW a \in Attempt, NEW n \in Node,
           n # Root \/ origin # Root, NEW code \in Code, Judged(code), Answer(a, n, code)
    PROVE  OnItsWay(frame'[a])
<1> DEFINE c == NextHop(n, origin)
           f == [type |-> "resp", from |-> n, at |-> c, hops |-> HopLimit, code |-> code]
<1>1. origin \in Node /\ HopLimit \in Nat
  BY DepthFacts DEF Asked
<1>2. \/ n \in Above[origin] /\ n # origin /\ c = Towards(n, origin) /\ c # None
      \/ n # Root /\ c = Parent[n] /\ c # None
  BY <1>1, NextHopIs
<1> HIDE DEF c
<1>3. frame'[a] = f
  BY <1>2 DEF Answer, Put, c, FrameType
<1>4. c \in Node /\ (Ascends(f) \/ Returns(f))
  <2>1. ASSUME n # Root, c = Parent[n] PROVE c \in Node /\ Ascends(f)
    <3>1. /\ c \in Node /\ Depth[n] = Depth[c] + 1 /\ Depth[c] \in Nat /\ Depth[origin] \in Nat
          /\ Depth[n] + Depth[origin] <= HopLimit + 1
      BY <1>1, <2>1, DepthFacts
    <3> QED BY <1>1, <2>1, <3>1 DEF Ascends
  <2>2. ASSUME n \in Above[origin], n # origin, c = Towards(n, origin) PROVE c \in Node /\ Returns(f)
    <3>1. c \in Above[origin] /\ c # Root /\ Parent[c] = n /\ c \in Node
      BY <1>1, <2>2, TowardsIs
    <3>2. /\ Depth[c] = Depth[n] + 1 /\ Depth[n] \in Nat /\ Depth[origin] \in Nat
          /\ Depth[n] + Depth[origin] <= HopLimit + 1
      BY <1>1, <3>1, DepthFacts
    <3> QED BY <1>1, <3>1, <3>2 DEF Returns
  <2> QED BY <1>2, <2>1, <2>2
<1>5. f \in Frame
  BY <1>1, <1>4 DEF Frame
<1>6. f.type = "resp" /\ f.code = code
  OBVIOUS
<1> HIDE DEF f
<1> QED BY <1>3, <1>4, <1>5, <1>6 DEF OnItsWay

(* A frame that goes on. *)
LEMMA PassedFrame ==
    ASSUME FrameType, NEW a \in Attempt, frame[a] \in Frame, frame[a].hops > 0,
           NEW n \in Node, NEW c \in Node, Pass(a, n, c)
    PROVE  /\ frame'[a] \in Frame /\ frame'[a].type = frame[a].type
           /\ frame'[a].from = n /\ frame'[a].at = c /\ frame'[a].code = frame[a].code
           /\ frame'[a].hops = frame[a].hops - 1
           /\ frame'[a].hops \in Nat /\ frame[a].hops \in Nat
<1>1. frame[a].hops \in 0..HopLimit /\ HopLimit \in Nat
  BY RequestsAssumption DEF Frame
<1>2. frame[a].hops - 1 \in 0..HopLimit /\ frame[a].hops - 1 \in Nat /\ frame[a].hops \in Nat
  BY <1>1
<1>3. PICK h \in 0..HopLimit : h = frame[a].hops - 1
  BY <1>2
<1>4. frame'[a] = [frame[a] EXCEPT !.from = n, !.at = c, !.hops = h]
  BY <1>3 DEF Pass, Put, FrameType
<1>5. PICK f \in Frame : f = frame[a]
  OBVIOUS
<1>6. [f EXCEPT !.from = n, !.at = c, !.hops = h] \in Frame
  <2> HIDE DEF Code
  <2> QED BY DEF Frame
<1>7. PICK g : g = [f EXCEPT !.from = n, !.at = c, !.hops = h]
  OBVIOUS
<1>8. g.type = f.type /\ g.from = n /\ g.at = c /\ g.code = f.code /\ g.hops = h
  BY <1>7 DEF Frame
<1> QED BY <1>2, <1>3, <1>4, <1>5, <1>6, <1>7, <1>8

(* A request that goes down has been granted and arrives. *)
LEMMA PassDown ==
    ASSUME ShallowTree, Asked, FrameType, NEW a \in Attempt,
           frame[a] \in Frame, frame[a].type = "req", NEW n \in Node,
           executor \in Node, n \in Above[executor], n # executor, Granted,
           frame[a].hops >= Depth[executor] - Depth[n], frame[a].hops > 0,
           Pass(a, n, Towards(n, executor))
    PROVE  OnItsWay(frame'[a])
<1> DEFINE c == Towards(n, executor)
<1>1. /\ c \in Above[executor] /\ c \in Node /\ c # Root /\ Parent[c] = n
      /\ Depth[c] = Depth[n] + 1 /\ Depth[n] \in Nat /\ Depth[executor] \in Nat
  BY TowardsIs, DepthFacts
<1>2. /\ frame'[a] \in Frame /\ frame'[a].type = "req"
      /\ frame'[a].from = n /\ frame'[a].at = c
      /\ frame'[a].hops = frame[a].hops - 1
      /\ frame'[a].hops \in Nat /\ frame[a].hops \in Nat
  BY <1>1, PassedFrame
<1> HIDE DEF c
<1>3. Descends(frame'[a])
  BY <1>1, <1>2 DEF Descends
<1> QED BY <1>2, <1>3 DEF OnItsWay

(* A request that goes up has not both ends below. *)
LEMMA PassUp ==
    ASSUME ShallowTree, Asked, FrameType, NEW a \in Attempt,
           frame[a] \in Frame, frame[a].type = "req", NEW n \in Node,
           n # Root, n \in Above[origin], executor # Here,
           executor \in Node => n \notin Above[executor],
           kind = "file" /\ executor = Parent[n] /\ executor \in known[n] => n \in grants,
           frame[a].hops >= Depth[n] + (IF executor \in Node THEN Depth[executor] ELSE 0),
           frame[a].hops > 0, Pass(a, n, Parent[n])
    PROVE  OnItsWay(frame'[a])
<1> DEFINE x == IF executor \in Node THEN Depth[executor] ELSE 0
<1>1. /\ Parent[n] \in Node /\ Depth[n] = Depth[Parent[n]] + 1
      /\ Depth[Parent[n]] \in Nat /\ x \in Nat
  BY DepthFacts
<1>2. /\ frame'[a] \in Frame /\ frame'[a].type = "req"
      /\ frame'[a].from = n /\ frame'[a].at = Parent[n]
      /\ frame'[a].hops = frame[a].hops - 1
      /\ frame'[a].hops \in Nat /\ frame[a].hops \in Nat
  BY <1>1, PassedFrame
<1>3. frame'[a].hops >= Depth[frame'[a].at] + x
  <2> HIDE DEF x
  <2>1. frame[a].hops >= Depth[n] + x
    BY DEF x
  <2> QED BY <1>1, <1>2, <2>1
<1>4. Climbs(frame'[a])
  BY <1>1, <1>2, <1>3 DEF Climbs
<1> QED BY <1>2, <1>4 DEF OnItsWay

(* While nothing changes, sends do not fail. *)
LEMMA ForwardPasses ==
    ASSUME Steady, Steady', NEW a, NEW n, NEW c, NEW tell, NEW tellError,
           frame[a].hops \in Nat, frame[a].hops > 0, Forward(a, n, c, tell, tellError)
    PROVE  Pass(a, n, c)
<1>1. changes = 0 /\ changes' = 0 /\ frame[a].hops # 0
  BY DEF Steady
<1>2. changes' # changes + 1
  BY <1>1
<1> QED BY <1>1, <1>2 DEF Forward

(* Where a request has climbed to. *)
LEMMA ClimbedTo ==
    ASSUME ShallowTree, Asked, NEW f, Climbs(f)
    PROVE  /\ f.at \in Node /\ f.at \in Above[origin] /\ f.at # origin /\ origin # Root
           /\ f.from \in Node /\ f.from = Towards(f.at, origin) /\ ~IsParent(f.at, f.from)
           /\ \A m \in Above[origin] : m # Root /\ Parent[m] = f.at => m = f.from
<1>1. /\ f.from \in Above[origin] /\ f.from # Root /\ f.at = Parent[f.from] /\ origin \in Node
  BY DEF Climbs, Asked
<1>2. f.from \in Node /\ f.at \in Node /\ f.at \in Above[f.from]
  BY <1>1, AboveNodes, AboveIs, DepthFacts
<1>3. f.at \in Above[origin]
  BY <1>1, <1>2, AboveTransitive
<1>4. Depth[f.from] = Depth[f.at] + 1 /\ Depth[f.at] \in Nat
  BY <1>1, <1>2, DepthFacts
<1>5. f.at # origin
  <2> SUFFICES ASSUME f.at = origin PROVE FALSE
    OBVIOUS
  <2>1. f.from \in Above[f.at] /\ f.from # f.at
    BY <1>1, <1>4
  <2>2. Depth[f.from] < Depth[f.at]
    BY <1>2, <2>1, AboveIsHigher
  <2> QED BY <1>4, <2>2
<1>6. origin # Root
  BY <1>1, AboveIs
<1>7. ~IsParent(f.at, f.from)
  <2> SUFFICES ASSUME f.at # Root, f.from = Parent[f.at] PROVE FALSE
    BY DEF IsParent
  <2>1. Depth[f.at] = Depth[f.from] + 1 /\ Depth[f.from] \in Nat
    BY <1>2, DepthFacts
  <2> QED BY <1>4, <2>1
<1>8. f.from = Towards(f.at, origin)
  BY <1>1, <1>2, <1>3, <1>5, TowardsIs
<1> QED BY <1>1, <1>2, <1>3, <1>5, <1>6, <1>7, <1>8, OneChild

(* A request that has climbed to its executor: only the executor judges,   *)
(* and the hub below that took itself for the judge.                       *)
LEMMA JudgedAtExecutor ==
    ASSUME ShallowTree, Asked, NEW f, Climbs(f), Target(f.at) = f.at
    PROVE  Granted <=> f.at \in grants
<1> DEFINE n == f.at
<1>1. /\ n \in Node /\ n \in Above[origin] /\ n # origin /\ origin \in Node
      /\ \A m \in Above[origin] : m # Root /\ Parent[m] = n => m = f.from
  BY ClimbedTo DEF Asked
<1>2. executor = Here \/ executor = n
  BY DEF Target
<1>3. Executor = n /\ Executor \in Node
  <2>1. CASE executor = Here
    BY <1>1, <2>1 DEF Executor, Climbs
  <2>2. CASE executor # Here
    BY <1>1, <1>2, <2>2 DEF Executor
  <2> QED BY <2>1, <2>2
<1>4. n \in Above[n] /\ Lca(origin, n) = n
  BY <1>1, AboveNodes, LcaWhereWaysPart
<1>5. origin \notin Above[n]
  BY <1>1, AboveBoth
<1>6. ASSUME NEW m \in Above[origin] \ {origin}, kind = "file", IsParent(m, Executor), Executor \in known[m]
      PROVE  m \in grants
  <2>1. m = f.from
    BY <1>1, <1>3, <1>6 DEF IsParent
  <2>2. executor # Here
    BY <1>6, <2>1 DEF Climbs
  <2> QED BY <1>2, <1>3, <1>6, <2>1, <2>2 DEF Climbs
<1>7. n \in Judges /\ \A m \in Judges : m = n \/ m \in grants
  BY <1>3, <1>4, <1>6 DEF Judges
<1> QED BY <1>3, <1>5, <1>7 DEF Granted

(* A request that has climbed to the hub where the ways part. *)
LEMMA JudgedWhereWaysPart ==
    ASSUME ShallowTree, Asked, NEW f, Climbs(f), executor \in Node, f.at # executor,
           f.at \in Above[executor], Towards(f.at, executor) # Towards(f.at, origin)
    PROVE  Granted <=> f.at \in grants
<1> DEFINE n == f.at
<1>1. /\ n \in Node /\ n \in Above[origin] /\ n # origin /\ origin \in Node
  BY ClimbedTo DEF Asked
<1>2. Executor = executor
  BY RequestsAssumption DEF Executor
<1>3. Lca(origin, executor) = n
  BY <1>1, LcaWhereWaysPart
<1>4. ASSUME executor \in Above[origin] \/ origin \in Above[executor] PROVE FALSE
  <2> DEFINE c == Towards(n, executor)
  <2>1. c \in Above[executor] /\ c # Root /\ Parent[c] = n
    BY <1>1, TowardsIs
  <2>2. Towards(n, origin) \in Above[origin] /\ Towards(n, origin) # Root /\ Parent[Towards(n, origin)] = n
    BY <1>1, TowardsIs
  <2>3. CASE executor \in Above[origin]
    BY <1>1, <2>1, <2>2, <2>3, AboveTransitive, OneChild
  <2>4. CASE origin \in Above[executor]
    BY <1>1, <2>1, <2>2, <2>4, AboveTransitive, OneChild
  <2> QED BY <1>4, <2>3, <2>4
<1>5. ASSUME NEW m \in Above[origin] \ {origin}, IsParent(m, executor) PROVE FALSE
  <2>1. m \in Node /\ m # Root /\ executor = Parent[m]
    BY <1>1, <1>5, AboveNodes DEF IsParent
  <2>2. executor \in Above[m]
    BY <2>1, AboveIs, AboveNodes
  <2> QED BY <1>1, <1>4, <1>5, <2>2, AboveTransitive
<1>6. Judges = {n}
  BY <1>2, <1>3, <1>5 DEF Judges
<1> QED BY <1>2, <1>4, <1>6 DEF Granted

(* A file request at a hub that has its parent, the executor, in its index *)
(* and takes itself for the judge.                                         *)
LEMMA JudgedBelowExecutor ==
    ASSUME ShallowTree, Asked, NEW f, Climbs(f), kind = "file",
           executor \in known[f.at], IsParent(f.at, executor), f.at \notin grants
    PROVE  ~Granted /\ executor \in Node
<1> DEFINE n == f.at
<1>1. /\ n \in Node /\ n \in Above[origin] /\ n # origin /\ origin \in Node
  BY ClimbedTo DEF Asked
<1>2. n # Root /\ executor = Parent[n] /\ executor \in Node /\ executor \in Above[n]
  BY <1>1, DepthFacts, AboveIs, AboveNodes DEF IsParent
<1>3. Executor = executor
  BY <1>2, RequestsAssumption DEF Executor
<1>4. n \in Judges
  BY <1>1, <1>3 DEF Judges
<1>5. origin \notin Above[executor]
  <2> SUFFICES ASSUME origin \in Above[executor] PROVE FALSE
    OBVIOUS
  <2>1. origin \in Above[n]
    BY <1>1, <1>2, AboveTransitive
  <2> QED BY <1>1, <2>1, AboveBoth
<1> QED BY <1>2, <1>3, <1>4, <1>5 DEF Granted

(* What a hub below the two ends does with a request. *)
LEMMA RouteOnItsWay ==
    ASSUME ShallowTree, Tables, Asked, FrameType, Steady, Steady', NEW a \in Attempt,
           frame[a] \in Frame, frame[a].type = "req", Climbs(frame[a]),
           Target(frame[a].at) # frame[a].at, Route(a, frame[a].at)
    PROVE  OnItsWay(frame'[a])
<1> DEFINE n == frame[a].at
           x == IF executor \in Node THEN Depth[executor] ELSE 0
<1>1. /\ n \in Node /\ n \in Above[origin] /\ n # origin /\ origin # Root /\ origin \in Node
      /\ frame[a].from \in Node /\ frame[a].from = Towards(n, origin) /\ ~IsParent(n, frame[a].from)
  BY ClimbedTo DEF Asked
<1>2. executor # Here /\ executor # n /\ executor \in Node \cup {Nowhere}
  BY DEF Target, Asked
<1>3. Via(n, origin) = frame[a].from
  BY <1>1, ViaIs
<1>4. /\ frame[a].hops \in Nat /\ frame[a].hops >= Depth[n] + x
      /\ Depth[n] \in Nat /\ (executor \in Node => Depth[executor] \in Nat)
  BY <1>1, RequestsAssumption, DepthFacts DEF Frame, Climbs
<1>5. ASSUME Deny(a, n), ~Granted, executor \in Node PROVE OnItsWay(frame'[a])
  <2>1. Answer(a, n, 403) /\ Judged(403)
    BY <1>5, RequestsAssumption DEF Deny, Judged
  <2> QED BY <1>1, <2>1, AnswerOnItsWay
<1>6. CASE executor \in Node /\ n \in Above[executor]
  <2> DEFINE c == Towards(n, executor)
  <2>1. Via(n, executor) = c /\ c # None /\ ~IsParent(n, c)
    BY <1>1, <1>2, <1>6, ViaIs
  <2>2. Depth[n] < Depth[executor]
    BY <1>2, <1>6, AboveIsHigher
  <2>3. frame[a].hops > 0 /\ frame[a].hops >= Depth[executor] - Depth[n]
    BY <1>4, <1>6, <2>2
  <2>4. ASSUME NEW tell, Forward(a, n, c, TRUE, tell), Granted PROVE OnItsWay(frame'[a])
    <3>1. Pass(a, n, c)
      BY <1>4, <2>3, <2>4, ForwardPasses
    <3> QED BY <1>1, <1>2, <1>6, <2>3, <2>4, <3>1, PassDown
  <2>5. CASE c = frame[a].from
    <3>1. c \in Above[executor]
      BY <1>1, <1>2, <1>6, TowardsIs
    <3>2. c = origin
      BY <1>6, <2>5, <3>1 DEF Climbs
    <3>3. Granted
      BY <1>2, <1>6, <3>1, <3>2 DEF Granted, Executor
    <3>4. Forward(a, n, c, TRUE, kind = "run")
      BY <1>3, <2>1, <2>5 DEF Route
    <3> QED BY <2>4, <3>3, <3>4
  <2>6. CASE c # frame[a].from
    <3>1. Granted <=> n \in grants
      BY <1>1, <1>2, <1>6, <2>6, JudgedWhereWaysPart
    <3>2. (n \in grants /\ Forward(a, n, c, TRUE, kind = "run")) \/ Deny(a, n)
      BY <1>3, <2>1, <2>6 DEF Route
    <3>3. Deny(a, n) => n \notin grants
      BY DEF Deny
    <3> QED BY <1>5, <1>6, <2>4, <3>1, <3>2, <3>3
  <2> QED BY <2>5, <2>6
<1>7. ASSUME NEW tell, Forward(a, n, Parent[n], TRUE, tell), n # Root,
             executor \in Node => n \notin Above[executor],
             kind = "file" /\ executor = Parent[n] /\ executor \in known[n] => n \in grants
      PROVE  OnItsWay(frame'[a])
  <2>1. Depth[n] > 0
    <3>1. Parent[n] \in Node /\ Depth[n] = Depth[Parent[n]] + 1
      BY <1>1, <1>7, DepthFacts
    <3>2. Depth[Parent[n]] \in Nat
      BY <3>1, DepthFacts
    <3> QED BY <3>1, <3>2
  <2>2. frame[a].hops > 0
    <3>1. x \in Nat
      BY <1>4
    <3> HIDE DEF x
    <3> QED BY <1>4, <2>1, <3>1
  <2>3. Pass(a, n, Parent[n])
    BY <1>4, <1>7, <2>2, ForwardPasses
  <2> QED BY <1>1, <1>2, <1>4, <1>7, <2>2, <2>3, PassUp
<1>8. ASSUME n # Root PROVE ParentConn(n) = Parent[n] /\ ParentConn(n) # None
  BY <1>1, <1>8, DepthFacts, RequestsAssumption DEF ParentConn, Tables
<1>9. CASE executor \in Node /\ n \notin Above[executor]
  <2>1. n # Root
    BY <1>9, AboveNodes
  <2>2. IF executor \in known[n] THEN IsParent(n, executor) /\ Via(n, executor) = executor
        ELSE Via(n, executor) = None
    BY <1>1, <1>9, ViaIs
  <2>3. CASE executor \in known[n] /\ kind = "file"
    <3>1. executor = Parent[n] /\ Via(n, executor) = executor /\ executor # None /\ executor # frame[a].from
      BY <1>1, <1>9, <2>2, <2>3, RequestsAssumption DEF IsParent
    <3>2. (n \in grants /\ Forward(a, n, Parent[n], TRUE, kind = "run")) \/ Deny(a, n)
      BY <1>3, <2>3, <3>1 DEF Route
    <3>3. n \notin grants => ~Granted
      BY <2>2, <2>3, JudgedBelowExecutor
    <3>4. Deny(a, n) => n \notin grants
      BY DEF Deny
    <3> QED BY <1>5, <1>7, <1>9, <2>1, <3>2, <3>3, <3>4
  <2>4. CASE ~(executor \in known[n] /\ kind = "file")
    <3>1. Up(a, n)
      BY <2>2, <2>4 DEF Route
    <3>2. Forward(a, n, Parent[n], TRUE, kind = "run")
      BY <1>8, <2>1, <3>1 DEF Up
    <3> QED BY <1>7, <1>9, <2>1, <2>4, <3>2
  <2> QED BY <2>3, <2>4
<1>10. CASE executor \notin Node
  <2>1. Via(n, executor) = None
    BY <1>1, <1>10, ViaIs
  <2>2. Up(a, n)
    BY <2>1 DEF Route
  <2>3. CASE n = Root
    <3>1. ParentConn(n) = None
      BY <2>3 DEF ParentConn, Tables
    <3>2. Answer(a, n, 404) /\ Judged(404)
      BY <1>1, <1>2, <1>10, <2>2, <3>1 DEF Up, Judged
    <3> QED BY <1>1, <3>2, AnswerOnItsWay
  <2>4. CASE n # Root
    <3>1. Forward(a, n, Parent[n], TRUE, kind = "run")
      BY <1>8, <2>2, <2>4 DEF Up
    <3>2. kind = "file" /\ executor = Parent[n] /\ executor \in known[n] => n \in grants
      BY <1>1, <1>10, <2>4, DepthFacts
    <3> QED BY <1>7, <1>10, <2>4, <3>1, <3>2
  <2> QED BY <2>3, <2>4
<1> QED BY <1>6, <1>9, <1>10

(* What the hubs above the executor do with a request from their parent. *)
RunDown(a, n) ==
    LET c == Via(n, executor)
    IN  IF c = None \/ IsParent(n, c) THEN Answer(a, n, 404) /\ UNCHANGED tables
        ELSE Forward(a, n, c, TRUE, TRUE)

LEMMA DownOnItsWay ==
    ASSUME ShallowTree, Tables, Asked, FrameType, Steady, Steady', NEW a \in Attempt,
           frame[a] \in Frame, frame[a].type = "req", Descends(frame[a]),
           frame[a].at # executor,
           \/ ForwardDown(a, frame[a].at) \/ ForwardDownOrDrop(a, frame[a].at)
           \/ ForwardCtrlEnd(a, frame[a].at) \/ RunDown(a, frame[a].at)
    PROVE  OnItsWay(frame'[a])
<1> DEFINE n == frame[a].at
           c == Towards(n, executor)
<1>1. /\ n \in Node /\ executor \in Node /\ n \in Above[executor] /\ Granted
      /\ frame[a].hops \in Nat /\ frame[a].hops >= Depth[executor] - Depth[n]
      /\ Depth[n] \in Nat /\ Depth[executor] \in Nat
  BY RequestsAssumption, DepthFacts DEF Descends, Frame
<1>2. Via(n, executor) = c /\ c # None /\ ~IsParent(n, c) /\ NextHop(n, executor) = c
  BY <1>1, ViaIs DEF NextHop
<1>3. Depth[n] < Depth[executor]
  BY <1>1, AboveIsHigher
<1>4. frame[a].hops > 0
  BY <1>1, <1>3
<1>5. Forward(a, n, c, TRUE, TRUE) \/ Forward(a, n, c, FALSE, FALSE)
  <2> HIDE DEF c
  <2> QED BY <1>2 DEF ForwardDown, ForwardDownOrDrop, ForwardCtrlEnd, RunDown
<1>6. Pass(a, n, c)
  <2>1. ASSUME NEW tell, NEW tellError, Forward(a, n, c, tell, tellError) PROVE Pass(a, n, c)
    <3> HIDE DEF c
    <3> QED BY <1>1, <1>4, <2>1, ForwardPasses
  <2> HIDE DEF c
  <2> QED BY <1>5, <2>1
<1> QED BY <1>1, <1>4, <1>6, PassDown

(* Every code of an executor answers a request that has been granted. *)
LEMMA LocalOnItsWay ==
    ASSUME ShallowTree, Tables, Asked, FrameType, NEW a \in Attempt, NEW n \in Node,
           n # Root \/ origin # Root, Granted, executor # Nowhere,
           \/ ApplySetLocal(a, n) \/ ApplyDeleteLocal(a, n) \/ RunLocal(a, n)
           \/ CancelRunLocal(a, n) \/ StatusLocal(a, n) \/ DetailLocal(a, n)
           \/ ListLocal(a, n) \/ ListRunsLocal(a, n)
           \/ GetLocal(a, n) \/ ListDirLocal(a, n) \/ MkdirLocal(a, n) \/ ReadTextLocal(a, n)
           \/ kind = "exec" /\ ExecLocal(a, n)
    PROVE  OnItsWay(frame'[a])
<1>1. ASSUME NEW code \in Code, code = 403 => kind = "exec", Answer(a, n, code)
      PROVE  OnItsWay(frame'[a])
  <2>1. Judged(code)
    BY <1>1 DEF Judged
  <2> QED BY <1>1, <2>1, AnswerOnItsWay
<1>2. ASSUME Does(a, n) PROVE OnItsWay(frame'[a])
  <2>1. Answer(a, n, 1)
    BY <1>2 DEF Does, Reply
  <2> QED BY <1>1, <2>1
<1>3. ASSUME NEW codes \in SUBSET {404, 500}, DoesNot(a, n, codes) PROVE OnItsWay(frame'[a])
  <2>1. PICK code \in codes : Answer(a, n, code)
    BY <1>3 DEF DoesNot, Reply
  <2> QED BY <1>1, <2>1
<1>4. ASSUME kind = "exec", ExecLocal(a, n) PROVE OnItsWay(frame'[a])
  <2>1. PICK code \in {1, 403, 404, 500} : Answer(a, n, code)
    BY <1>4 DEF ExecLocal, DoesNot, Reply
  <2> QED BY <1>1, <1>4, <2>1
<1>5. \/ Does(a, n) \/ DoesNot(a, n, {404}) \/ DoesNot(a, n, {500}) \/ DoesNot(a, n, {404, 500})
      \/ kind = "exec" /\ ExecLocal(a, n)
  BY DEF ApplySetLocal, ApplyDeleteLocal, RunLocal, CancelRunLocal, StatusLocal, DetailLocal,
         ListLocal, ListRunsLocal, GetLocal, ListDirLocal, MkdirLocal, ReadTextLocal
<1>6. ASSUME DoesNot(a, n, {404}) PROVE OnItsWay(frame'[a])
  BY <1>3, <1>6
<1>7. ASSUME DoesNot(a, n, {500}) PROVE OnItsWay(frame'[a])
  BY <1>3, <1>7
<1>8. ASSUME DoesNot(a, n, {404, 500}) PROVE OnItsWay(frame'[a])
  BY <1>3, <1>8
<1> QED BY <1>2, <1>4, <1>5, <1>6, <1>7, <1>8

(* What every handler comes to, by where the request comes from. *)
LEMMA RequestCases ==
    ASSUME NEW a, HandleRequest(a)
    PROVE  LET n == frame[a].at
               local == \/ ApplySetLocal(a, n) \/ ApplyDeleteLocal(a, n) \/ RunLocal(a, n)
                        \/ CancelRunLocal(a, n) \/ StatusLocal(a, n) \/ DetailLocal(a, n)
                        \/ ListLocal(a, n) \/ ListRunsLocal(a, n)
                        \/ GetLocal(a, n) \/ ListDirLocal(a, n) \/ MkdirLocal(a, n) \/ ReadTextLocal(a, n)
                        \/ kind = "exec" /\ ExecLocal(a, n)
               down == \/ ForwardDown(a, n) \/ ForwardDownOrDrop(a, n)
                       \/ ForwardCtrlEnd(a, n) \/ RunDown(a, n)
           IN  \/ Target(n) = n /\ (FromParent(a) \/ n \in grants) /\ local
               \/ FromParent(a) /\ Target(n) # n /\ down /\ UNCHANGED executed
               \/ ~FromParent(a) /\ Target(n) = n /\ Deny(a, n) /\ UNCHANGED executed
               \/ ~FromParent(a) /\ Target(n) # n /\ Route(a, n) /\ UNCHANGED executed
<1>1. CASE HandleSet(a) \/ HandleDelete(a)
  BY <1>1 DEF HandleSet, HandleDelete, Handle
<1>2. CASE \/ HandleRun(a) \/ HandleCancelRun(a) \/ HandleStatus(a) \/ HandleDetail(a)
           \/ HandleList(a) \/ HandleListRuns(a) \/ HandleGet(a)
  BY <1>2 DEF HandleRun, HandleCancelRun, HandleStatus, HandleDetail, HandleList,
       HandleListRuns, HandleGet, ForwardToExecutorWithPerm, Handle, RunDown
<1>3. CASE HandleCall(a) \/ HandleReadRequest(a) \/ HandleWriteRequest(a)
  BY <1>3 DEF HandleCall, HandleReadRequest, HandleWriteRequest, RouteCtrlRequest, Handle
<1> QED BY <1>1, <1>2, <1>3 DEF HandleRequest

(* A hub handles a request: it stays on its way, or the answer the whole   *)
(* tree calls for is; and what is executed has been granted.               *)
LEMMA RequestOnItsWay ==
    ASSUME ShallowTree, Tables, Asked, FrameType, Steady, Steady', NEW a \in Attempt,
           frame[a] # None, OnItsWay(frame[a]), HandleRequest(a)
    PROVE  OnItsWay(frame'[a]) /\ (executed' = executed \/ Granted)
<1> DEFINE n == frame[a].at
           local == \/ ApplySetLocal(a, n) \/ ApplyDeleteLocal(a, n) \/ RunLocal(a, n)
                    \/ CancelRunLocal(a, n) \/ StatusLocal(a, n) \/ DetailLocal(a, n)
                    \/ ListLocal(a, n) \/ ListRunsLocal(a, n)
                    \/ GetLocal(a, n) \/ ListDirLocal(a, n) \/ MkdirLocal(a, n) \/ ReadTextLocal(a, n)
                    \/ kind = "exec" /\ ExecLocal(a, n)
           down == \/ ForwardDown(a, n) \/ ForwardDownOrDrop(a, n)
                   \/ ForwardCtrlEnd(a, n) \/ RunDown(a, n)
<1>1. frame[a] \in Frame /\ frame[a].type = "req" /\ (Climbs(frame[a]) \/ Descends(frame[a]))
  BY DEF OnItsWay, HandleRequest, Has
<1>2. \/ Target(n) = n /\ (FromParent(a) \/ n \in grants) /\ local
      \/ FromParent(a) /\ Target(n) # n /\ down /\ UNCHANGED executed
      \/ ~FromParent(a) /\ Target(n) = n /\ Deny(a, n) /\ UNCHANGED executed
      \/ ~FromParent(a) /\ Target(n) # n /\ Route(a, n) /\ UNCHANGED executed
  BY RequestCases
<1>3. ASSUME n \in Node, n # Root \/ origin # Root, Granted, executor # Nowhere, local
      PROVE  OnItsWay(frame'[a])
  BY <1>3, LocalOnItsWay
<1> HIDE DEF local, down
<1>4. CASE Descends(frame[a])
  <2>1. FromParent(a) /\ n \in Node /\ n # Root /\ executor \in Node /\ Granted /\ executor # Nowhere
    BY <1>4, RequestsAssumption DEF Descends, FromParent, IsParent
  <2>2. CASE Target(n) = n /\ local
    BY <1>3, <2>1, <2>2
  <2>3. CASE Target(n) # n /\ down
    <3>1. n # executor
      BY <2>1, <2>3, RequestsAssumption DEF Target
    <3> QED BY <1>1, <1>4, <2>1, <2>3, <3>1, DownOnItsWay DEF down
  <2> QED BY <1>2, <2>1, <2>2, <2>3
<1>5. CASE Climbs(frame[a])
  <2>1. n \in Node /\ origin # Root /\ ~FromParent(a)
    BY <1>5, ClimbedTo DEF FromParent
  <2>2. CASE Target(n) = n
    <3>1. Granted <=> n \in grants
      BY <1>5, <2>2, JudgedAtExecutor
    <3>2. executor # Nowhere
      BY <2>1, <2>2, RequestsAssumption DEF Target
    <3>3. CASE n \in grants /\ local
      BY <1>3, <2>1, <3>1, <3>2, <3>3
    <3>4. CASE Deny(a, n) /\ UNCHANGED executed
      <4>1. Answer(a, n, 403) /\ Judged(403)
        BY <3>1, <3>2, <3>4 DEF Deny, Judged
      <4> QED BY <2>1, <3>4, <4>1, AnswerOnItsWay
    <3> QED BY <1>2, <2>1, <2>2, <3>3, <3>4
  <2>3. CASE Target(n) # n
    BY <1>1, <1>2, <1>5, <2>1, <2>3, RouteOnItsWay
  <2> QED BY <2>2, <2>3
<1> QED BY <1>1, <1>4, <1>5

(* An answer goes up as far as it must and then down to the origin. *)
LEMMA ResponseOnItsWay ==
    ASSUME ShallowTree, Tables, Asked, FrameType, NEW a \in Attempt,
           frame[a] # None, OnItsWay(frame[a]), ForwardResponse(a)
    PROVE  OnItsWay(frame'[a])
<1> DEFINE n == frame[a].at
           c == NextHop(n, origin)
<1>1. /\ frame[a] \in Frame /\ frame[a].type = "resp" /\ Judged(frame[a].code)
      /\ Ascends(frame[a]) \/ Returns(frame[a])
      /\ n # origin
  BY DEF OnItsWay, ForwardResponse, Has
<1>2. n \in Node /\ origin \in Node /\ frame[a].hops \in Nat
  BY <1>1, RequestsAssumption DEF Frame, Asked
<1>3. Depth[n] \in Nat /\ Depth[origin] \in Nat
  BY <1>2, DepthFacts
<1>4. \/ n \in Above[origin] /\ c = Towards(n, origin) /\ c # None
      \/ n \notin Above[origin] /\ n # Root /\ c = Parent[n] /\ c # None
  BY <1>1, <1>2, NextHopIs
<1>5. ForwardCtrlByHeaderTarget(a, n, c) \/ ForwardRemoteByHeaderTarget(a, n, c)
  BY DEF ForwardResponse
<1>6. ASSUME NEW k \in Node, k = c, frame[a].hops > 0, ~(FromParent(a) /\ IsParent(n, c)),
             \/ /\ frame[a].hops - 1 >= Depth[k] + Depth[origin]
                /\ n # Root /\ k = Parent[n]
             \/ /\ frame[a].hops - 1 >= Depth[origin] - Depth[k]
                /\ k \in Above[origin] /\ k # Root /\ n = Parent[k]
      PROVE  OnItsWay(frame'[a])
  <2>1. k # None /\ frame[a].hops # 0
    BY <1>2, <1>6, RequestsAssumption
  <2> HIDE DEF c
  <2>2. Pass(a, n, k)
    BY <1>5, <1>6, <2>1 DEF ForwardCtrlByHeaderTarget, ForwardRemoteByHeaderTarget
  <2>3. /\ frame'[a] \in Frame /\ frame'[a].type = "resp"
        /\ frame'[a].from = n /\ frame'[a].at = k /\ frame'[a].code = frame[a].code
        /\ frame'[a].hops = frame[a].hops - 1
    BY <1>1, <1>2, <1>6, <2>2, PassedFrame
  <2>4. Ascends(frame'[a]) \/ Returns(frame'[a])
    <3> HIDE DEF n
    <3> QED BY <1>2, <1>6, <2>3 DEF Ascends, Returns
  <2> QED BY <1>1, <2>3, <2>4 DEF OnItsWay
<1>7. CASE n \in Above[origin]
  <2>1. /\ c \in Node /\ c \in Above[origin] /\ c # Root /\ Parent[c] = n
    BY <1>1, <1>2, <1>4, <1>7, TowardsIs
  <2>2. Depth[c] = Depth[n] + 1 /\ Depth[n] < Depth[origin]
    BY <1>1, <1>2, <1>7, <2>1, DepthFacts, AboveIsHigher
  <2>3. frame[a].hops >= Depth[origin] - Depth[n]
    BY <1>1, <1>2, <1>3 DEF Ascends, Returns
  <2>4. ~IsParent(n, c)
    <3> SUFFICES ASSUME n # Root, c = Parent[n] PROVE FALSE
      BY DEF IsParent
    <3>1. Depth[n] = Depth[c] + 1
      BY <1>2, DepthFacts
    <3> HIDE DEF c
    <3> QED BY <1>3, <2>2, <3>1
  <2>5. PICK k \in Node : k = c
    BY <2>1
  <2>6. frame[a].hops > 0 /\ frame[a].hops - 1 >= Depth[origin] - Depth[k]
    <3> HIDE DEF c, n
    <3> QED BY <1>2, <1>3, <2>2, <2>3, <2>5
  <2> HIDE DEF c, n
  <2> QED BY <1>6, <2>1, <2>4, <2>5, <2>6
<1>8. CASE n \notin Above[origin]
  <2>1. n # Root /\ c = Parent[n] /\ c \in Node /\ Depth[n] = Depth[c] + 1
    BY <1>2, <1>4, <1>8, DepthFacts
  <2>2. Ascends(frame[a])
    BY <1>1, <1>8 DEF Returns
  <2>3. frame[a].hops >= Depth[n] + Depth[origin]
    BY <2>2 DEF Ascends
  <2>4. ~FromParent(a)
    <3> SUFFICES ASSUME frame[a].from = Parent[n] PROVE FALSE
      BY DEF FromParent, IsParent
    <3>1. frame[a].from = c /\ Parent[c] = n /\ c # Root
      BY <2>1, <2>2 DEF Ascends
    <3>2. Depth[c] = Depth[n] + 1 /\ Depth[c] \in Nat
      BY <2>1, <3>1, DepthFacts
    <3> QED BY <1>3, <2>1, <3>2
  <2>5. PICK k \in Node : k = c
    BY <2>1
  <2>6. Depth[k] \in Nat
    BY DepthFacts
  <2>7. frame[a].hops > 0 /\ frame[a].hops - 1 >= Depth[k] + Depth[origin]
    <3> HIDE DEF c, n
    <3> QED BY <1>2, <1>3, <2>1, <2>3, <2>5, <2>6
  <2>8. n # Root /\ k = Parent[n] /\ ~(FromParent(a) /\ IsParent(n, c))
    BY <2>1, <2>4, <2>5
  <2> HIDE DEF c, n
  <2> QED BY <1>6, <2>5, <2>7, <2>8
<1> QED BY <1>7, <1>8

(* A request of the origin sets out: up, or down to what is below. *)
LEMMA UpFromOrigin ==
    ASSUME ShallowTree, Tables, Asked, NEW f, f = New(ParentConn(origin)), origin # Root
    PROVE  OnItsWay(f)
<1>1. /\ origin \in Node /\ ParentConn(origin) = Parent[origin] /\ Parent[origin] \in Node
      /\ Depth[origin] = Depth[Parent[origin]] + 1 /\ origin \in Above[origin]
  BY DepthFacts, AboveNodes DEF Asked, ParentConn, Tables
<1>2. /\ Depth[Parent[origin]] \in Nat /\ HopLimit \in Nat /\ Root \in Node /\ Depth[Root] = 0
  BY <1>1, DepthFacts, RequestsAssumption
<1>3. PICK p \in Node : p = Parent[origin]
  BY <1>1
<1>4. f = [type |-> "req", from |-> origin, at |-> p, hops |-> HopLimit, code |-> 0]
  BY <1>1, <1>3 DEF New
<1>5. f \in Frame
  BY <1>1, <1>2, <1>4 DEF Frame
<1>6. HopLimit >= Depth[p] + (IF executor \in Node THEN Depth[executor] ELSE 0)
  <2>1. Depth[origin] + Depth[Root] <= HopLimit + 1
    BY <1>1, <1>2, DepthFacts
  <2>2. executor \in Node => Depth[origin] + Depth[executor] <= HopLimit + 1 /\ Depth[executor] \in Nat
    BY <1>1, DepthFacts
  <2> QED BY <1>1, <1>2, <1>3, <2>1, <2>2
<1>7. f.type = "req" /\ f.from = origin /\ f.at = p /\ f.hops = HopLimit
  BY <1>4
<1>8. Climbs(f)
  BY <1>1, <1>3, <1>6, <1>7 DEF Climbs
<1> QED BY <1>5, <1>7, <1>8 DEF OnItsWay

LEMMA DownFromOrigin ==
    ASSUME ShallowTree, Tables, Asked, NEW f, f = New(Towards(origin, executor)),
           executor \in Node, origin \in Above[executor], executor # origin
    PROVE  OnItsWay(f)
<1>1. PICK c \in Node : c = Towards(origin, executor)
  BY TowardsIs DEF Asked
<1>2. /\ origin \in Node /\ c \in Above[executor] /\ c # Root /\ Parent[c] = origin
  BY <1>1, TowardsIs DEF Asked
<1>3. /\ Depth[c] \in Nat /\ Depth[origin] \in Nat /\ Depth[c] = Depth[origin] + 1
      /\ Depth[executor] \in Nat /\ Depth[executor] + Depth[Root] <= HopLimit + 1
      /\ HopLimit \in Nat /\ Depth[Root] = 0
  BY <1>2, DepthFacts, RequestsAssumption
<1>4. f = [type |-> "req", from |-> origin, at |-> c, hops |-> HopLimit, code |-> 0]
  BY <1>1 DEF New
<1>5. f \in Frame
  BY <1>2, <1>3, <1>4 DEF Frame
<1>6. f.type = "req" /\ f.from = origin /\ f.at = c /\ f.hops = HopLimit
  BY <1>4
<1>7. Granted
  BY RequestsAssumption DEF Granted, Executor
<1>8. HopLimit >= Depth[executor] - Depth[c]
  BY <1>3
<1>9. Descends(f)
  BY <1>2, <1>6, <1>7, <1>8 DEF Descends
<1> QED BY <1>5, <1>6, <1>9 DEF OnItsWay

(* What a step leaves as it is. *)
LEMMA StillOnItsWay ==
    ASSUME UNCHANGED request, UNCHANGED known, NEW b, OnItsWay(frame'[b])
    PROVE  OnItsWay(frame[b])'
  BY DEF OnItsWay, Climbs, Descends, Ascends, Returns, Judged, Granted, Judges, Executor

LEMMA StillJudged ==
    ASSUME UNCHANGED request, UNCHANGED known
    PROVE  /\ Granted => Granted'
           /\ \A code : Judged(code) => Judged(code)'
<1>1. Granted <=> Granted'
  BY DEF Granted, Judges, Executor
<1> QED BY <1>1 DEF Judged

LEMMA StillWay ==
    ASSUME UNCHANGED request, UNCHANGED known, AnswerInv, NEW b \in Attempt, Way(b),
           frame'[b] = frame[b], hand'[b] = hand[b], channel'[b] = channel[b],
           outcome'[b] = outcome[b], executed'[b] = executed[b],
           \/ asked' = asked
           \/ asked' = asked + 1 /\ asked' # b
    PROVE  Way(b)'
<1>1. frame[b] # None => OnItsWay(frame[b])'
  BY StillOnItsWay DEF Way
<1>2. hand[b] # 0 => Judged(hand[b])'
  BY StillJudged DEF Way
<1>3. channel[b] # 0 => Judged(channel[b])'
  BY StillJudged DEF Way
<1>4. \A code \in Code : outcome[b] = <<code>> => code = 408 \/ Judged(code)'
  BY StillJudged DEF Way
<1>5. executed[b] = 0 \/ Granted'
  BY StillJudged DEF Way
<1>6. b <= asked' => b <= asked
  BY RequestsAssumption DEF AnswerInv, BrokerType, Attempt
<1>7. UNCHANGED kind
  OBVIOUS
<1> QED BY <1>1, <1>2, <1>3, <1>4, <1>5, <1>6, <1>7 DEF Way

(* It holds at the start. *)
LEMMA InitWay == Init => WayInv
<1> SUFFICES ASSUME Init PROVE WayInv
  OBVIOUS
<1>1. Asked
  BY DEF Init, Asked
<1>2. Tables
  <2>1. up = Node \ {Root}
    BY DEF Init
  <2>2. known = Index(TRUE) \/ known = Index(FALSE)
    BY DEF Init
  <2> QED BY <2>1, <2>2 DEF Tables
<1>3. ASSUME NEW a \in Attempt PROVE Way(a)
  <2>1. asked = 0 /\ ~(a <= asked)
    BY RequestsAssumption DEF Init, Attempt
  <2> QED BY <2>1 DEF Init, Way
<1> QED BY <1>1, <1>2, <1>3, InitAnswer DEF WayInv

(* A client asks. *)
LEMMA AskWay ==
    ASSUME ShallowTree, WayInv, Steady, NEW a \in Attempt, Ask(a)
    PROVE  \A b \in Attempt : Way(b)'
<1>0. /\ FrameType /\ BrokerType /\ Asked /\ Tables /\ \A b \in Attempt : Way(b)
      /\ AnswerInv /\ Fresh(a)
  BY DEF WayInv, AnswerInv
<1>1. /\ UNCHANGED <<request, known, hand, channel, outcome, executed>>
      /\ asked = 0 /\ asked' = a /\ a = 1 /\ kind # "exec"
  BY DEF Ask
<1>2. PICK f : f = New(ParentConn(origin))
  OBVIOUS
<1>3. OnItsWay(f)
  BY <1>0, <1>1, <1>2, UpFromOrigin DEF Asked
<1>4. frame' = [frame EXCEPT ![a] = f]
  BY <1>2 DEF Ask, Put
<1>5. frame'[a] = f /\ \A b \in Attempt : b # a => frame'[b] = frame[b]
  BY <1>0, <1>4 DEF FrameType
<1>6. Way(a)'
  <2>1. OnItsWay(frame[a])'
    BY <1>1, <1>3, <1>5, StillOnItsWay
  <2>2. frame'[a] # None
    BY <1>3, <1>5, NoneAssumption DEF OnItsWay
  <2>3. hand'[a] = 0 /\ channel'[a] = 0 /\ executed'[a] = 0 /\ outcome'[a] = <<>>
    BY <1>0, <1>1 DEF Fresh
  <2> QED BY <2>1, <2>2, <2>3 DEF Way
<1>7. ASSUME NEW b \in Attempt, b # a PROVE Way(b)'
  <2>1. frame'[b] = frame[b] /\ asked' = asked + 1 /\ asked' # b
    BY <1>1, <1>5, <1>7
  <2> QED BY <1>0, <1>1, <2>1, StillWay
<1> QED BY <1>6, <1>7

(* A flow calls, for the first time as nothing has changed. *)
LEMMA ExecCallWay ==
    ASSUME ShallowTree, WayInv, Steady, Steady', NEW a \in Attempt, ExecCall(a)
    PROVE  \A b \in Attempt : Way(b)'
<1> DEFINE below == Via(origin, executor)
           c == IF below # None /\ ~IsParent(origin, below) THEN below ELSE ParentConn(origin)
           Sent == Put(a, New(c)) /\ UNCHANGED outcome
           Failed == outcome' = [outcome EXCEPT ![a] = <<500>>] /\ UNCHANGED frame
<1>0. /\ FrameType /\ BrokerType /\ Asked /\ Tables /\ \A b \in Attempt : Way(b)
      /\ AnswerInv /\ Fresh(a)
  BY DEF WayInv, AnswerInv
<1>10. a \in Nat /\ asked \in Nat
  BY <1>0, RequestsAssumption DEF BrokerType, Attempt
<1>1. /\ UNCHANGED <<request, known, hand, channel, executed>>
      /\ a = asked + 1 /\ asked' = a /\ kind = "exec"
  BY DEF ExecCall
<1>2. IF c # None THEN Sent ELSE Failed
  <2>1. PICK error \in BOOLEAN :
          /\ changes' = changes + (IF a > 1 THEN 1 ELSE 0) + (IF error THEN 1 ELSE 0)
          /\ IF c # None /\ ~error THEN Sent ELSE Failed
    BY DEF ExecCall
  <2>2. ~error
    <3> HIDE DEF c, Sent, Failed
    <3> QED BY <2>1 DEF Steady
  <2> HIDE DEF c, Sent, Failed
  <2> QED BY <2>1, <2>2
<1>3. executor \in Node \cup {Nowhere} /\ executor # origin /\ origin \in Node
  BY <1>0, <1>1 DEF Asked
<1>4. hand'[a] = 0 /\ channel'[a] = 0 /\ executed'[a] = 0 /\ outcome[a] = <<>> /\ frame[a] = None
  BY <1>0, <1>10, <1>1 DEF Fresh
<1>5. CASE c # None
  <2>1. OnItsWay(New(c))
    <3>1. CASE executor \in Node /\ origin \in Above[executor]
      <4>1. c = Towards(origin, executor)
        BY <1>0, <1>3, <3>1, ViaIs
      <4> HIDE DEF c
      <4> QED BY <1>0, <1>3, <3>1, <4>1, DownFromOrigin
    <3>2. CASE ~(executor \in Node /\ origin \in Above[executor])
      <4>1. c = ParentConn(origin)
        BY <1>0, <1>3, <3>2, ViaIs
      <4>2. origin # Root
        BY <1>0, <1>5, <4>1 DEF ParentConn, Tables
      <4> HIDE DEF c
      <4> QED BY <1>0, <4>1, <4>2, UpFromOrigin
    <3> QED BY <3>1, <3>2
  <2>2. PICK f : f = New(c)
    OBVIOUS
  <2>3. UNCHANGED outcome /\ frame' = [frame EXCEPT ![a] = f]
    BY <1>2, <1>5, <2>2 DEF Put
  <2>4. frame'[a] = f /\ \A b \in Attempt : b # a => frame'[b] = frame[b]
    BY <1>0, <2>3 DEF FrameType
  <2> HIDE DEF c
  <2>5. OnItsWay(frame[a])'
    BY <1>1, <2>1, <2>2, <2>4, StillOnItsWay
  <2>6. Way(a)'
    <3>1. hand'[a] = 0 /\ channel'[a] = 0 /\ executed'[a] = 0 /\ outcome'[a] = <<>> /\ kind' = "exec"
      BY <1>1, <1>4, <2>3
    <3> QED BY <2>5, <3>1 DEF Way
  <2>7. ASSUME NEW b \in Attempt, b # a PROVE Way(b)'
    <3>1. frame'[b] = frame[b] /\ outcome'[b] = outcome[b] /\ asked' = asked + 1 /\ asked' # b
      BY <1>1, <2>3, <2>4, <2>7
    <3> QED BY <1>0, <1>1, <3>1, StillWay
  <2> QED BY <2>6, <2>7
<1>6. CASE c = None
  <2>1. origin = Root /\ executor = Nowhere
    <3>1. ASSUME executor \in Node, origin \in Above[executor] PROVE FALSE
      BY <1>0, <1>3, <1>6, <3>1, ViaIs
    <3>2. c = ParentConn(origin)
      BY <1>0, <1>3, <3>1, ViaIs
    <3>3. origin = Root
      BY <1>0, <1>3, <1>6, <3>2, DepthFacts, RequestsAssumption DEF ParentConn, Tables
    <3> QED BY <1>3, <3>1, <3>3, AboveNodes
  <2>2. outcome' = [outcome EXCEPT ![a] = <<500>>] /\ UNCHANGED frame
    BY <1>2, <1>6
  <2>3. outcome'[a] = <<500>> /\ \A b \in Attempt : b # a => outcome'[b] = outcome[b]
    BY <1>0, <2>2 DEF BrokerType
  <2>4. Judged(500)'
    BY <1>1, <2>1 DEF Judged
  <2>5. Way(a)'
    <3>1. ASSUME NEW code \in Code, outcome'[a] = <<code>> PROVE Judged(code)'
      <4>1. code = 500
        BY <2>3, <3>1
      <4> QED BY <2>4, <4>1
    <3> QED BY <1>1, <1>4, <2>2, <3>1 DEF Way
  <2>6. ASSUME NEW b \in Attempt, b # a PROVE Way(b)'
    <3>1. frame'[b] = frame[b] /\ outcome'[b] = outcome[b] /\ asked' = asked + 1 /\ asked' # b
      BY <1>1, <2>2, <2>3, <2>6
    <3> QED BY <1>0, <1>1, <3>1, StillWay
  <2> QED BY <2>5, <2>6
<1> QED BY <1>5, <1>6

(* Handling a request leaves the indexes alone; a send that fails counts. *)
LEMMA RequestTables ==
    ASSUME NEW a, HandleRequest(a)
    PROVE  UNCHANGED <<known, up>> /\ (changes' = changes \/ changes' = changes + 1)
<1> DEFINE n == frame[a].at
           Kept == UNCHANGED <<known, up>> /\ (changes' = changes \/ changes' = changes + 1)
<1>1. ASSUME NEW c, NEW tell, NEW tellError, Forward(a, n, c, tell, tellError) PROVE Kept
  BY <1>1 DEF Forward
<1>2. ASSUME UNCHANGED tables PROVE Kept
  BY <1>2
<1>3. ASSUME \/ ForwardDown(a, n) \/ ForwardDownOrDrop(a, n) \/ ForwardCtrlEnd(a, n)
             \/ RunDown(a, n) \/ Deny(a, n) \/ Up(a, n)
      PROVE  Kept
  <2> HIDE DEF Kept
  <2>1. \/ UNCHANGED tables \/ Forward(a, n, Via(n, executor), TRUE, TRUE)
        \/ Forward(a, n, Via(n, executor), FALSE, FALSE)
        \/ Forward(a, n, NextHop(n, executor), FALSE, FALSE)
        \/ Forward(a, n, ParentConn(n), TRUE, kind = "run")
    BY <1>3 DEF ForwardDown, ForwardDownOrDrop, ForwardCtrlEnd, RunDown, Deny, Up
  <2> QED BY <1>1, <1>2, <2>1
<1>4. ASSUME Route(a, n) PROVE Kept
  <2> HIDE DEF Kept
  <2>1. Up(a, n) \/ Deny(a, n) \/ Forward(a, n, Via(n, executor), TRUE, kind = "run")
    BY <1>4 DEF Route
  <2> QED BY <1>1, <1>3, <2>1
<1>5. ASSUME NEW done, NEW codes, Reply(a, n, done, codes) PROVE UNCHANGED tables
  BY <1>5 DEF Reply
<1>6. ASSUME \/ ApplySetLocal(a, n) \/ ApplyDeleteLocal(a, n) \/ RunLocal(a, n)
             \/ CancelRunLocal(a, n) \/ StatusLocal(a, n) \/ DetailLocal(a, n)
             \/ ListLocal(a, n) \/ ListRunsLocal(a, n)
             \/ GetLocal(a, n) \/ ListDirLocal(a, n) \/ MkdirLocal(a, n) \/ ReadTextLocal(a, n)
             \/ kind = "exec" /\ ExecLocal(a, n)
      PROVE  Kept
  BY <1>6 DEF Reply, Does, DoesNot, ApplySetLocal, ApplyDeleteLocal, RunLocal, CancelRunLocal,
       StatusLocal, DetailLocal, ListLocal, ListRunsLocal, GetLocal, ListDirLocal, MkdirLocal,
       ReadTextLocal, ExecLocal
<1> HIDE DEF Kept
<1> QED BY <1>3, <1>4, <1>6, RequestCases DEF Kept

(* A hub handles a request. *)
LEMMA RequestWay ==
    ASSUME ShallowTree, WayInv, Steady, Steady', NEW a \in Attempt, HandleRequest(a)
    PROVE  \A b \in Attempt : Way(b)'
<1>0. /\ FrameType /\ BrokerType /\ Asked /\ Tables /\ \A b \in Attempt : Way(b)
      /\ AnswerInv
  BY DEF WayInv, AnswerInv
<1>1. UNCHANGED request /\ UNCHANGED <<asked, hand, channel, outcome>>
  BY DEF HandleRequest
<1>2. UNCHANGED known
  BY RequestTables
<1>3. frame[a] # None /\ OnItsWay(frame[a])
  BY <1>0 DEF HandleRequest, Has, Way
<1>4. OnItsWay(frame'[a]) /\ (executed' = executed \/ Granted)
  BY <1>0, <1>3, RequestOnItsWay
<1>5. Attempted(a)
  BY <1>0 DEF Attempted, HandleRequest, BrokerType
<1>6. Handled(a)
  BY <1>5, RequestHandled
<1>7. \A b \in Attempt : b # a => frame'[b] = frame[b] /\ executed'[b] = executed[b]
  BY <1>0, <1>6 DEF Handled, Settles, Reports, FrameType, BrokerType
<1>8. Way(a)'
  <2>1. OnItsWay(frame[a])'
    BY <1>1, <1>2, <1>4, StillOnItsWay
  <2>2. frame'[a] # None
    BY <1>4, NoneAssumption DEF OnItsWay
  <2>3. hand'[a] # 0 => Judged(hand[a])'
    BY <1>0, <1>1, <1>2, StillJudged DEF Way
  <2>4. channel'[a] # 0 => Judged(channel[a])'
    BY <1>0, <1>1, <1>2, StillJudged DEF Way
  <2>5. \A code \in Code : outcome'[a] = <<code>> => code = 408 \/ Judged(code)'
    BY <1>0, <1>1, <1>2, StillJudged DEF Way
  <2>6. executed'[a] = 0 \/ Granted'
    BY <1>0, <1>1, <1>2, <1>4, StillJudged DEF Way
  <2> QED BY <2>1, <2>2, <2>3, <2>4, <2>5, <2>6 DEF Way
<1>9. ASSUME NEW b \in Attempt, b # a PROVE Way(b)'
  <2>1. /\ frame'[b] = frame[b] /\ executed'[b] = executed[b] /\ hand'[b] = hand[b]
        /\ channel'[b] = channel[b] /\ outcome'[b] = outcome[b] /\ asked' = asked
    BY <1>1, <1>7, <1>9
  <2> QED BY <1>0, <1>1, <1>2, <2>1, StillWay
<1> QED BY <1>8, <1>9

(* An answer goes on; none is lost. *)
LEMMA ResponseWay ==
    ASSUME ShallowTree, WayInv, Steady, NEW a \in Attempt, ForwardResponse(a)
    PROVE  \A b \in Attempt : Way(b)'
<1>0. /\ FrameType /\ BrokerType /\ Asked /\ Tables /\ \A b \in Attempt : Way(b)
      /\ AnswerInv
  BY DEF WayInv, AnswerInv
<1>1. /\ UNCHANGED request /\ UNCHANGED known
      /\ UNCHANGED <<asked, hand, channel, outcome, executed>>
  BY DEF ForwardResponse
<1>2. frame[a] # None /\ OnItsWay(frame[a])
  BY <1>0 DEF ForwardResponse, Has, Way
<1>3. OnItsWay(frame'[a])
  BY <1>0, <1>2, ResponseOnItsWay
<1>4. PICK n, c : Drop(a) \/ Pass(a, n, c)
  BY DEF ForwardResponse, ForwardCtrlByHeaderTarget, ForwardRemoteByHeaderTarget
<1>5. \A b \in Attempt : b # a => frame'[b] = frame[b]
  BY <1>0, <1>4 DEF Drop, Pass, Put, FrameType
<1>6. Way(a)'
  <2>1. OnItsWay(frame[a])'
    BY <1>1, <1>3, StillOnItsWay
  <2>2. frame'[a] # None
    BY <1>3, NoneAssumption DEF OnItsWay
  <2>3. hand'[a] # 0 => Judged(hand[a])'
    BY <1>0, <1>1, StillJudged DEF Way
  <2>4. channel'[a] # 0 => Judged(channel[a])'
    BY <1>0, <1>1, StillJudged DEF Way
  <2>5. \A code \in Code : outcome'[a] = <<code>> => code = 408 \/ Judged(code)'
    BY <1>0, <1>1, StillJudged DEF Way
  <2>6. executed'[a] = 0 \/ Granted'
    BY <1>0, <1>1, StillJudged DEF Way
  <2> QED BY <2>1, <2>2, <2>3, <2>4, <2>5, <2>6 DEF Way
<1>7. ASSUME NEW b \in Attempt, b # a PROVE Way(b)'
  <2>1. /\ frame'[b] = frame[b] /\ executed'[b] = executed[b] /\ hand'[b] = hand[b]
        /\ channel'[b] = channel[b] /\ outcome'[b] = outcome[b] /\ asked' = asked
    BY <1>1, <1>5, <1>7
  <2> QED BY <1>0, <1>1, <2>1, StillWay
<1> QED BY <1>6, <1>7

(* The origin gets an answer: a client takes it; a call has it from the    *)
(* hand of Deliver and its channel, or its deadline is first.              *)
LEMMA GottenWay ==
    ASSUME ShallowTree, WayInv, Steady, NEW a \in Attempt,
           Receive(a) \/ Deliver(a) \/ DeliverSend(a) \/ CallReturns(a) \/ CallTimesOut(a)
    PROVE  \A b \in Attempt : Way(b)'
<1>0. /\ FrameType /\ BrokerType /\ \A b \in Attempt : Way(b)
      /\ AnswerInv /\ Way(a) /\ Honest(a)
  BY DEF WayInv, AnswerInv
<1>1. UNCHANGED request /\ UNCHANGED known /\ UNCHANGED <<asked, executed>>
  BY DEF Receive, Deliver, DeliverSend, CallReturns, CallTimesOut
<1>2. \A b \in Attempt : b # a => /\ frame'[b] = frame[b] /\ hand'[b] = hand[b]
                                  /\ channel'[b] = channel[b] /\ outcome'[b] = outcome[b]
  <2>1. CASE Receive(a) \/ Deliver(a)
    BY <1>0, <2>1 DEF Receive, Deliver, Drop, Put, FrameType, BrokerType
  <2>2. CASE DeliverSend(a)
    BY <1>0, <2>2 DEF DeliverSend, BrokerType
  <2>3. CASE CallReturns(a) \/ CallTimesOut(a)
    BY <1>0, <2>3 DEF CallReturns, CallTimesOut, BrokerType
  <2> QED BY <2>1, <2>2, <2>3
<1>3. executed'[a] = 0 \/ Granted'
  BY <1>0, <1>1, StillJudged DEF Way
<1>4. Way(a)'
  <2>1. CASE Receive(a)
    <3>1. /\ Has(a, "resp") /\ kind # "exec" /\ UNCHANGED <<hand, channel>>
          /\ frame'[a] = None /\ outcome' = [outcome EXCEPT ![a] = Append(@, frame[a].code)]
      BY <1>0, <2>1 DEF Receive, Drop, Put, FrameType
    <3>2. frame[a] # None /\ OnItsWay(frame[a]) /\ frame[a].type = "resp"
      BY <1>0, <3>1 DEF Has, Way
    <3>3. Judged(frame[a].code) /\ outcome[a] = <<>> /\ hand[a] = 0 /\ channel[a] = 0
      BY <1>0, <3>1, <3>2 DEF OnItsWay, Honest, Open
    <3>4. outcome'[a] = <<frame[a].code>>
      BY <1>0, <3>1, <3>3 DEF BrokerType
    <3>5. ASSUME NEW code \in Code, outcome'[a] = <<code>> PROVE Judged(code)'
      <4>1. code = frame[a].code
        BY <3>4, <3>5
      <4> QED BY <1>1, <3>3, <4>1, StillJudged
    <3>6. hand'[a] = 0 /\ channel'[a] = 0 /\ outcome'[a] # <<>>
      BY <3>1, <3>3, <3>4
    <3> QED BY <1>3, <3>1, <3>5, <3>6 DEF Way
  <2>2. CASE Deliver(a)
    <3>1. /\ Has(a, "resp") /\ kind' = "exec" /\ UNCHANGED <<channel, outcome>>
          /\ frame'[a] = None /\ hand'[a] = (IF a \in waiters THEN frame[a].code ELSE 0)
      BY <1>0, <2>2 DEF Deliver, Drop, Put, FrameType, BrokerType
    <3>2. frame[a] # None /\ OnItsWay(frame[a]) /\ frame[a].type = "resp"
      BY <1>0, <3>1 DEF Has, Way
    <3>3. Judged(frame[a].code)
      BY <3>2 DEF OnItsWay
    <3>4. hand'[a] # 0 => Judged(hand[a])'
      BY <1>1, <3>1, <3>3, StillJudged
    <3>5. channel'[a] # 0 => Judged(channel[a])'
      BY <1>0, <1>1, <3>1, StillJudged DEF Way
    <3>6. \A code \in Code : outcome'[a] = <<code>> => code = 408 \/ Judged(code)'
      BY <1>0, <1>1, <3>1, StillJudged DEF Way
    <3> QED BY <1>3, <3>1, <3>4, <3>5, <3>6 DEF Way
  <2>3. CASE DeliverSend(a)
    <3>1. /\ hand[a] # 0 /\ hand'[a] = 0 /\ channel'[a] = hand[a] /\ UNCHANGED <<frame, outcome>>
      BY <1>0, <2>3 DEF DeliverSend, BrokerType
    <3>2. Judged(channel[a])'
      BY <1>0, <1>1, <3>1, StillJudged DEF Way
    <3>3. \A code \in Code : outcome'[a] = <<code>> => code = 408 \/ Judged(code)'
      BY <1>0, <1>1, <3>1, StillJudged DEF Way
    <3>4. frame'[a] # None => OnItsWay(frame[a])'
      BY <1>0, <1>1, <3>1, StillOnItsWay DEF Way
    <3>5. a <= asked' /\ kind' # "exec" => frame'[a] # None \/ outcome'[a] # <<>>
      BY <1>0, <1>1, <3>1 DEF Way
    <3> QED BY <1>3, <3>1, <3>2, <3>3, <3>4, <3>5 DEF Way
  <2>4. CASE CallReturns(a) \/ CallTimesOut(a)
    <3>1. /\ kind' = "exec" /\ UNCHANGED <<frame, hand>>
          /\ channel'[a] = channel[a] \/ channel'[a] = 0
      BY <1>0, <2>4 DEF CallReturns, CallTimesOut, Waiting, BrokerType
    <3>2. frame'[a] # None => OnItsWay(frame[a])'
      BY <1>0, <1>1, <3>1, StillOnItsWay DEF Way
    <3>3. hand'[a] # 0 => Judged(hand[a])'
      BY <1>0, <1>1, <3>1, StillJudged DEF Way
    <3>4. channel'[a] # 0 => Judged(channel[a])'
      BY <1>0, <1>1, <3>1, StillJudged DEF Way
    <3>5. PICK c : outcome'[a] = <<c>> /\ (c = 408 \/ Judged(c))
      BY <1>0, <2>4 DEF CallReturns, CallTimesOut, BrokerType, Way
    <3>6. ASSUME NEW code \in Code, outcome'[a] = <<code>> PROVE code = 408 \/ Judged(code)'
      <4>1. code = c
        BY <3>5, <3>6
      <4> QED BY <1>1, <3>5, <4>1, StillJudged
    <3> QED BY <1>3, <3>1, <3>2, <3>3, <3>4, <3>6 DEF Way
  <2> QED BY <2>1, <2>2, <2>3, <2>4
<1>5. ASSUME NEW b \in Attempt, b # a PROVE Way(b)'
  <2>1. /\ frame'[b] = frame[b] /\ executed'[b] = executed[b] /\ hand'[b] = hand[b]
        /\ channel'[b] = channel[b] /\ outcome'[b] = outcome[b] /\ asked' = asked
    BY <1>1, <1>2, <1>5
  <2> QED BY <1>0, <1>1, <2>1, StillWay
<1> QED BY <1>4, <1>5

(* Every step keeps it: in a step that leaves the tree steady nothing      *)
(* changes in the indexes.                                                 *)
LEMMA StepWay ==
    ASSUME ShallowTree
    PROVE  WayInv /\ [Next]_vars => WayInv'
<1> SUFFICES ASSUME WayInv, [Next]_vars PROVE WayInv'
  OBVIOUS
<1>1. AnswerInv'
  BY StepAnswer DEF WayInv
<1>2. CASE UNCHANGED vars
  <2>1. UNCHANGED request /\ UNCHANGED known
    BY <1>2 DEF vars
  <2>2. Asked' /\ (Tables => Tables') /\ (Steady' <=> Steady)
    BY <1>2 DEF vars, WayInv, Asked, Tables, Steady, Index
  <2>3. ASSUME NEW b \in Attempt, Way(b) PROVE Way(b)'
    <3>1. /\ frame' = frame /\ executed' = executed /\ hand' = hand
          /\ channel' = channel /\ outcome' = outcome /\ asked' = asked
      BY <1>2 DEF vars
    <3> QED BY <2>1, <2>3, <3>1, StillWay DEF WayInv
  <2> QED BY <1>1, <2>2, <2>3 DEF WayInv
<1>3. CASE \E a \in Attempt :
             Ask(a) \/ ExecCall(a) \/ Worker(a) \/ CallReturns(a) \/ CallTimesOut(a)
  <2>1. PICK a \in Attempt :
          Ask(a) \/ ExecCall(a) \/ Worker(a) \/ CallReturns(a) \/ CallTimesOut(a)
    BY <1>3
  <2>2. UNCHANGED request /\ UNCHANGED <<known, up>> /\ changes' \in Nat /\ changes <= changes'
    <3>0. changes \in Nat
      BY DEF WayInv, Asked
    <3>1. CASE HandleRequest(a)
      <4>1. UNCHANGED <<known, up>> /\ (changes' = changes \/ changes' = changes + 1)
        BY <3>1, RequestTables
      <4>2. UNCHANGED request
        BY <3>1 DEF HandleRequest
      <4> QED BY <3>0, <4>1, <4>2
    <3>2. CASE ExecCall(a)
      <4>1. PICK error \in BOOLEAN :
              changes' = changes + (IF a > 1 THEN 1 ELSE 0) + (IF error THEN 1 ELSE 0)
        BY <3>2 DEF ExecCall
      <4>2. changes' \in Nat /\ changes <= changes'
        BY <3>0, <4>1
      <4> QED BY <3>2, <4>2 DEF ExecCall
    <3>3. CASE Ask(a) \/ ForwardResponse(a) \/ Receive(a) \/ Deliver(a) \/ DeliverSend(a)
               \/ CallReturns(a) \/ CallTimesOut(a)
      BY <3>0, <3>3 DEF Ask, ForwardResponse, Receive, Deliver, DeliverSend, CallReturns, CallTimesOut
    <3> QED BY <2>1, <3>1, <3>2, <3>3 DEF Worker
  <2>3. Asked'
    BY <2>2 DEF WayInv, Asked
  <2>4. ASSUME Steady' PROVE Steady /\ Tables' /\ \A b \in Attempt : Way(b)'
    <3>1. Steady
      BY <2>2, <2>4 DEF Steady, WayInv, Asked
    <3>2. Tables'
      BY <2>2, <3>1 DEF Tables, WayInv, Index
    <3>3. \A b \in Attempt : Way(b)'
      BY <2>1, <2>4, <3>1, AskWay, ExecCallWay, RequestWay, ResponseWay, GottenWay DEF Worker
    <3> QED BY <3>1, <3>2, <3>3
  <2> QED BY <1>1, <2>3, <2>4 DEF WayInv
<1>4. CASE \E n \in Node : Cut(n) \/ \E t \in {origin, executor} : Forget(n, t) \/ Learn(n, t)
  <2>1. UNCHANGED request /\ changes' = changes + 1
    BY <1>4 DEF Cut, Forget, Learn, Change
  <2>2. Asked' /\ ~Steady'
    BY <2>1 DEF Asked, Steady, WayInv
  <2> QED BY <1>1, <2>2 DEF WayInv
<1> QED BY <1>2, <1>3, <1>4 DEF Next

(* RoutedAsTheTreeSays: while nothing changes, hubs that each look only    *)
(* into their own index (GetByNode) and ask for permission only where both *)
(* ends are below them execute, refuse and answer as the whole tree says;  *)
(* the hop limit suffices when the tree is shallow enough for it.          *)
THEOREM RoutedRight == ASSUME ShallowTree PROVE Spec => []RoutedAsTheTreeSays
<1>1. WayInv => RoutedAsTheTreeSays
  <2> SUFFICES ASSUME WayInv, NEW a \in Attempt, Steady, Over(a)
               PROVE  /\ Len(outcome[a]) = 1
                      /\ \/ outcome[a] = <<408>>
                         \/ IF executor = Nowhere
                            THEN outcome[a] = <<IF origin = Root THEN 500 ELSE 404>>
                            ELSE IF Granted THEN outcome[a] = <<403>> => kind = "exec"
                            ELSE outcome[a] = <<403>>
                      /\ executed[a] = 0 \/ Granted
    BY DEF RoutedAsTheTreeSays
  <2>1. Way(a) /\ Honest(a)
    BY DEF WayInv, AnswerInv
  <2>2. outcome[a] # <<>>
    BY <2>1 DEF Way, Over, Waiting
  <2>3. PICK code \in Code : outcome[a] = <<code>>
    BY <2>1, <2>2 DEF Honest
  <2>4. code = 408 \/ Judged(code)
    BY <2>1, <2>3 DEF Way
  <2>5. Len(outcome[a]) = 1 /\ (outcome[a] = <<403>> => code = 403)
    BY <2>3
  <2>6. CASE code = 408
    BY <2>1, <2>3, <2>5, <2>6 DEF Way
  <2>7. CASE Judged(code)
    BY <2>1, <2>3, <2>5, <2>7 DEF Way, Judged
  <2> QED BY <2>4, <2>6, <2>7
<1>2. Init => WayInv
  BY InitWay
<1>3. WayInv /\ [Next]_vars => WayInv'
  BY StepWay
<1> QED BY <1>1, <1>2, <1>3, PTL DEF Spec

=============================================================================
