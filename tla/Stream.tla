------------------------------- MODULE Stream -------------------------------
(***************************************************************************)
(* The stream sub-protocol (stream/handler.go): how a coordinator sets up  *)
(* a delivery between a source on one node and a consumer endpoint on      *)
(* another, in two phases, and how deliveries are taken down by their      *)
(* users and by owners that withdraw what they announced.                  *)
(*                                                                         *)
(* A goroutine that handles a request calls other nodes and waits for each *)
(* answer, for two seconds at most.  A step is a critical section of h.mu  *)
(* or of pendingMu with the send that goes with it.  Frames are handled by *)
(* goroutines of their own, in any order.  The core, which is not in this  *)
(* repository, forwards responses to their target.  A private request for  *)
(* another node it may forward too, or hand to this node's handler, which  *)
(* looks at the payload only and handles it here.                          *)
(***************************************************************************)
EXTENDS Naturals, FiniteSets

CONSTANTS
    Node,
    Parent,      \* Parent[n]: the node n is connected to, or None
    Route,       \* Route[n][x]: the connection of n towards x below it, or None
    Source,      \* sources that may be announced
    Endpoint,    \* consumer endpoints that may be announced
    OwnerOf,     \* the node that announces a source or an endpoint
    KindOf,      \* the kind each is announced with
    Requester,   \* who sends requests
    At,          \* the node a requester sends to
    Allowed,     \* requesters with the permissions of stream
    Connect,     \* connections that may be asked for, records [by, source, endpoint]
    Workload,    \* sets of them: what is asked for in one behaviour
    Closers,     \* requesters that disconnect what they know of
    Withdrawn,   \* the sources and endpoints that may be withdrawn
    Delivery,    \* the delivery ids newUUID can return
    Task,        \* goroutines that handle requests
    None,
    MaxCloses,   \* bound: disconnect requests
    MaxWithdraws \* bound: withdrawals

Owned == Source \cup Endpoint
Info == [by : Requester, source : Source, endpoint : Endpoint, coord : Node]

ASSUME StreamAssumption ==
    /\ None \notin Node \cup Task \cup Owned \cup Delivery
    /\ (\A S \in SUBSET Delivery : S # None) /\ (\A i \in Info : i # None)
    /\ Parent \in [Node -> Node \cup {None}]
    /\ Route \in [Node -> [Node -> Node \cup {None}]]
    /\ Source \cap Endpoint = {}
    /\ OwnerOf \in [Owned -> Node]
    /\ At \in [Requester -> Node]
    /\ Allowed \subseteq Requester /\ Closers \subseteq Requester
    /\ Connect \subseteq [by : Requester, source : Source, endpoint : Endpoint]
    /\ Workload \subseteq SUBSET Connect
    /\ Withdrawn \subseteq Owned
    /\ MaxCloses \in Nat /\ MaxWithdraws \in Nat

VARIABLES
    entries,     \* sources and consumers: the deliveries of each, None if not announced
    pd, cd,      \* producerDeliveries, consumerDeliveries: state, "none" if absent
    routes,      \* deliveryRoutes of the coordinator: state, "none" if absent
    info,        \* what establishDelivery put in the requests, None before
    pendingCtrl, \* pendingCtrl[n][d]: the task that waits at n for answers about d
    inbox,       \* the channel a task waits on: an answer, or None
    pc, node,    \* a task's place, and the node it runs on
    cur, todo,   \* the delivery it works on, and those it has still to work on
    owned,       \* the source or endpoint it withdraws, None if it does not
    waiting,     \* tasks that have called another node
    net,         \* frames in flight
    known,       \* deliveries whose requester was answered ok
    closes, withdraws,
    ended,       \* history: deliveries somebody has begun to take down
    unsure       \* history: deliveries of which a prepare, or the producer's close
                 \* of a disconnect, ended without its answer, or of which the
                 \* wrong node handled a request

state == <<entries, pd, cd, routes>>
waits == <<pendingCtrl, inbox, waiting>>
place == <<pc, node, cur, todo, owned>>
bound == <<closes, withdraws>>
vars  == <<state, info, waits, place, net, known, bound, ended, unsure>>

(* establishDelivery, closeDeliveryRoute and the bestEffortClose of an      *)
(* owner as chains of calls: the request, the side it is for, and where the *)
(* task goes on after success and after any error.                          *)
Calls == [
    prepP  |-> [act |-> "prepare",  role |-> "producer", ok |-> "prepC",   err |-> "idle"],
    prepC  |-> [act |-> "prepare",  role |-> "consumer", ok |-> "install", err |-> "undoP"],
    undoP  |-> [act |-> "abort",    role |-> "producer", ok |-> "idle",    err |-> "idle"],
    actP   |-> [act |-> "activate", role |-> "producer", ok |-> "actC",    err |-> "dropP"],
    dropP  |-> [act |-> "abort",    role |-> "producer", ok |-> "dropC",   err |-> "dropC"],
    dropC  |-> [act |-> "abort",    role |-> "consumer", ok |-> "remove",  err |-> "remove"],
    actC   |-> [act |-> "activate", role |-> "consumer", ok |-> "confirm", err |-> "backP"],
    backP  |-> [act |-> "close",    role |-> "producer", ok |-> "dropC",   err |-> "dropC"],
    shutP  |-> [act |-> "close",    role |-> "producer", ok |-> "shutC",   err |-> "remove"],
    shutC  |-> [act |-> "close",    role |-> "consumer", ok |-> "remove",  err |-> "remove"],
    tellC  |-> [act |-> "close",    role |-> "consumer", ok |-> "tellK",   err |-> "tellK"],
    tellP  |-> [act |-> "close",    role |-> "producer", ok |-> "tellK",   err |-> "tellK"],
    tellK  |-> [act |-> "close",    role |-> "both",     ok |-> "end",     err |-> "end"]]

Call == DOMAIN Calls
Place == Call \cup {"idle", "install", "confirm", "remove", "closing", "end"}
Acts == {"prepare", "activate", "abort", "close"}
State == {"none", "pending", "active"}

(* Frames: a request of a user on its way to the node that can handle it, a *)
(* private request and its answer.  A private frame names its task only to  *)
(* tell apart frames with the same contents.                                *)
UserFrame ==
    [kind : {"connect"}, to : Node, req : Connect]
    \cup [kind : {"disconnect"}, to : Node, by : Requester, d : Delivery]
PrivateFrame ==
    [kind : {"request"}, to : Node, target : Node, from : Node, act : Acts,
     role : {"producer", "consumer", "both"}, d : Delivery, closeRoute : BOOLEAN,
     task : Task]
    \cup [kind : {"answer"}, to : Node, act : Acts, d : Delivery, ok : BOOLEAN, task : Task]

TypeOK ==
    /\ entries \in [Owned -> (SUBSET Delivery) \cup {None}]
    /\ pd \in [Delivery -> State] /\ cd \in [Delivery -> State]
    /\ routes \in [Delivery -> State \cup {"closing"}]
    /\ info \in [Delivery -> Info \cup {None}]
    /\ pendingCtrl \in [Node -> [Delivery -> Task \cup {None}]]
    /\ inbox \in [Task -> [act : Acts, ok : BOOLEAN] \cup {None}]
    /\ pc \in [Task -> Place] /\ node \in [Task -> Node \cup {None}]
    /\ cur \in [Task -> Delivery \cup {None}] /\ todo \in [Task -> SUBSET Delivery]
    /\ owned \in [Task -> Owned \cup {None}] /\ waiting \subseteq Task
    /\ net \subseteq UserFrame \cup PrivateFrame
    /\ known \subseteq Delivery /\ ended \subseteq Delivery /\ unsure \subseteq Delivery
    /\ closes \in 0..MaxCloses /\ withdraws \in 0..MaxWithdraws

Init ==
    /\ entries = [o \in Owned |-> {}]
    /\ pd = [d \in Delivery |-> "none"] /\ cd = [d \in Delivery |-> "none"]
    /\ routes = [d \in Delivery |-> "none"]
    /\ info = [d \in Delivery |-> None]
    /\ pendingCtrl = [n \in Node |-> [d \in Delivery |-> None]]
    /\ inbox = [t \in Task |-> None]
    /\ pc = [t \in Task |-> "idle"] /\ node = [t \in Task |-> None]
    /\ cur = [t \in Task |-> None] /\ todo = [t \in Task |-> {}]
    /\ owned = [t \in Task |-> None] /\ waiting = {}
    /\ \E asked \in Workload :
          net = {[kind |-> "connect", to |-> At[r.by], req |-> r] : r \in asked}
    /\ known = {} /\ ended = {} /\ unsure = {}
    /\ closes = 0 /\ withdraws = 0

Producer(d) == OwnerOf[info[d].source]
Consumer(d) == OwnerOf[info[d].endpoint]
Announced(o) == entries[o] # None

(* resolveNextHop.                                                          *)
NextHop(n, x) == IF Route[n][x] # None THEN Route[n][x] ELSE Parent[n]

(* resolveRoute: x is n itself, below n, or n's parent.                     *)
Visible(n, x) == x = n \/ Route[n][x] # None \/ Parent[n] = x

-----------------------------------------------------------------------------
(* Tasks.                                                                   *)

Starts(t, n, d, there) ==
    /\ pc[t] = "idle"
    /\ pc' = [pc EXCEPT ![t] = there] /\ node' = [node EXCEPT ![t] = n]
    /\ cur' = [cur EXCEPT ![t] = d]
    /\ UNCHANGED <<todo, owned>>

Finishes(t) ==
    /\ pc' = [pc EXCEPT ![t] = "idle"] /\ node' = [node EXCEPT ![t] = None]
    /\ cur' = [cur EXCEPT ![t] = None]
    /\ owned' = [owned EXCEPT ![t] = None]
    /\ UNCHANGED todo

(* An owner that withdraws goes on with the next delivery it has found.     *)
TakesNext(t, ds) ==
    \/ ds = {} /\ Finishes(t)
    \/ \E d \in ds :
          /\ cur' = [cur EXCEPT ![t] = d] /\ todo' = [todo EXCEPT ![t] = ds \ {d}]
          /\ pc' = [pc EXCEPT ![t] = "end"]
          /\ UNCHANGED <<node, owned>>

(* A third node that coordinates is told by the owner that withdraws.       *)
ThirdCoordinator(d) == info[d].coord \notin {Producer(d), Consumer(d)}

GoesOn(t, there) ==
    CASE there = "idle" -> Finishes(t)
      [] there = "end" \/ (there = "tellK" /\ ~ThirdCoordinator(cur[t]))
            -> TakesNext(t, todo[t])
      [] OTHER -> pc' = [pc EXCEPT ![t] = there] /\ UNCHANGED <<node, cur, todo, owned>>

-----------------------------------------------------------------------------
(* The private requests, at the node that handles them.                     *)

Side(role, d) == IF role = "producer" THEN info[d].source ELSE info[d].endpoint

SameKind(d) == KindOf[info[d].source] = KindOf[info[d].endpoint]

(* The code answered: prepareProducerLocal, prepareConsumerLocal,           *)
(* handleDeliveryActivateLocal, and abort and close, which always succeed.  *)
Accepts(n, act, role, d) ==
    CASE act = "prepare"  -> /\ n = OwnerOf[Side(role, d)] /\ Announced(Side(role, d))
                             /\ role = "consumer" => SameKind(d)
      [] act = "activate" -> /\ n = OwnerOf[Side(role, d)]
                             /\ (IF role = "producer" THEN pd[d] ELSE cd[d]) # "none"
      [] OTHER            -> TRUE

(* The state a side gets.                                                   *)
Becomes(act) == CASE act = "prepare" -> "pending" [] act = "activate" -> "active"
                  [] OTHER -> "none"

(* The sides of d that node n holds and the request is about.               *)
Touches(n, role, d) ==
    {o \in {info[d].source, info[d].endpoint} :
        n = OwnerOf[o] /\ (role = "both" \/ o = Side(role, d))}

(* Mutant: preparing a delivery does not list it under its entry.           *)
ListedNever(o, act, d) ==
    CASE act \in {"prepare", "activate"} -> entries[o] [] OTHER -> entries[o] \ {d}

(* The deliveries listed under an entry afterwards.                         *)
Listed(o, act, d) ==
    CASE act = "prepare" -> entries[o] \cup {d} [] act = "activate" -> entries[o]
      [] OTHER -> entries[o] \ {d}

(* What node n does on such a request.                                      *)
Apply(n, act, role, d, closeRoute) ==
    IF ~Accepts(n, act, role, d) THEN UNCHANGED state
    ELSE LET mine == Touches(n, role, d) IN
         /\ pd' = IF info[d].source \in mine THEN [pd EXCEPT ![d] = Becomes(act)] ELSE pd
         /\ cd' = IF info[d].endpoint \in mine THEN [cd EXCEPT ![d] = Becomes(act)] ELSE cd
         /\ entries' = [o \in Owned |->
                IF o \in mine /\ Announced(o) THEN Listed(o, act, d) ELSE entries[o]]
         /\ routes' = IF closeRoute /\ n = info[d].coord
                      THEN [routes EXCEPT ![d] = "none"] ELSE routes

(* OnReceive for a private request: whoever it is for, it is handled here,  *)
(* and the answer goes back to the node that asked.                         *)
HandlePrivate(f) ==
    /\ f \in net /\ f.kind = "request"
    /\ Apply(f.to, f.act, f.role, f.d, f.closeRoute)
    /\ net' = (net \ {f}) \cup
          {[kind |-> "answer", to |-> f.from, act |-> f.act, d |-> f.d,
            ok |-> Accepts(f.to, f.act, f.role, f.d), task |-> f.task]}
    /\ unsure' = IF f.to # f.target THEN unsure \cup {f.d} ELSE unsure
    /\ UNCHANGED <<info, waits, place, known, bound, ended>>

(* The core passes a request for another node on.                           *)
ForwardPrivate(f) ==
    /\ f \in net /\ f.kind = "request" /\ f.to # f.target
    /\ net' = (net \ {f}) \cup {[f EXCEPT !.to = NextHop(f.to, f.target)]}
    /\ UNCHANGED <<state, info, waits, place, known, bound, ended, unsure>>

(* tryDeliverPendingCtrl: into the channel registered for the delivery's    *)
(* transaction, whoever waits there and for what; a channel holds one.      *)
TryDeliverPendingCtrl(f) ==
    /\ f \in net /\ f.kind = "answer"
    /\ net' = net \ {f}
    /\ LET t == pendingCtrl[f.to][f.d] IN
       inbox' = IF t = None \/ inbox[t] # None THEN inbox
                ELSE [inbox EXCEPT ![t] = [act |-> f.act, ok |-> f.ok]]
    /\ UNCHANGED <<state, info, pendingCtrl, waiting, place, known, bound, ended, unsure>>

-----------------------------------------------------------------------------
(* A task's call.                                                           *)

Target(t) ==
    LET role == Calls[pc[t]].role
        d == cur[t]
    IN  CASE role = "producer" -> Producer(d) [] role = "consumer" -> Consumer(d)
          [] OTHER -> info[d].coord

(* Mutant: the coordinator's route is left to the coordinator.              *)
ClosesRouteNever(t, n) == FALSE

(* An owner that withdraws asks the coordinator to forget the delivery.     *)
ClosesRoute(t, n) == owned[t] # None /\ n = info[cur[t]].coord

(* On the node itself the handler is called directly.                       *)
CallLocal(t) ==
    /\ pc[t] \in Call /\ t \notin waiting /\ Target(t) = node[t]
    /\ LET call == Calls[pc[t]] IN
       /\ Apply(node[t], call.act, call.role, cur[t], ClosesRoute(t, node[t]))
       /\ GoesOn(t, IF Accepts(node[t], call.act, call.role, cur[t]) THEN call.ok ELSE call.err)
    /\ UNCHANGED <<info, waits, net, known, bound, ended, unsure>>

(* callPrivate: the channel is registered under the delivery's transaction, *)
(* over any other, and the request sent to the next hop.                    *)
CallPrivate(t) ==
    /\ pc[t] \in Call /\ t \notin waiting /\ Target(t) # node[t]
    /\ LET n == node[t]
           call == Calls[pc[t]]
           d == cur[t]
       IN  /\ pendingCtrl' = [pendingCtrl EXCEPT ![n][d] = t]
           /\ waiting' = waiting \cup {t}
           /\ net' = net \cup
                 {[kind |-> "request", to |-> NextHop(n, Target(t)), target |-> Target(t),
                   from |-> n, act |-> call.act, role |-> call.role, d |-> d,
                   closeRoute |-> ClosesRoute(t, Target(t)), task |-> t]}
    /\ UNCHANGED <<state, info, inbox, place, known, bound, ended, unsure>>

(* The call returns: its entry is removed, even if it is another's by now.  *)
Returns(t) ==
    /\ t \in waiting /\ waiting' = waiting \ {t}
    /\ inbox' = [inbox EXCEPT ![t] = None]
    /\ pendingCtrl' = [pendingCtrl EXCEPT ![node[t]][cur[t]] = None]
    /\ UNCHANGED <<state, info, net, known, bound, ended>>

Decisive == {"prepP", "prepC", "shutP"}

NoAnswer(t) == unsure' = IF pc[t] \in Decisive THEN unsure \cup {cur[t]} ELSE unsure

(* An answer to some other call is an error.                                *)
ReceiveAnswer(t) ==
    /\ Returns(t) /\ inbox[t] # None
    /\ LET call == Calls[pc[t]] IN
       /\ GoesOn(t, IF inbox[t].act = call.act /\ inbox[t].ok THEN call.ok ELSE call.err)
       /\ IF inbox[t].act = call.act THEN UNCHANGED unsure ELSE NoAnswer(t)

(* Mutant: a call nobody answers counts as done.                            *)
CallTimesOutGoesOn(t) ==
    /\ Returns(t)
    /\ GoesOn(t, Calls[pc[t]].ok)
    /\ NoAnswer(t)

(* Two seconds have passed, or the request's context has ended.             *)
CallTimesOut(t) ==
    /\ Returns(t)
    /\ GoesOn(t, Calls[pc[t]].err)
    /\ NoAnswer(t)

-----------------------------------------------------------------------------
(* Connect and subscribe.                                                   *)

Forward(f) ==
    net' = (net \ {f}) \cup
        IF Parent[f.to] = None THEN {} ELSE {[f EXCEPT !.to = Parent[f.to]]}

(* routeCoordinatorRequest: up to the first node that sees both ends, which *)
(* becomes the coordinator, if the requester is allowed.                    *)
RouteCoordinatorRequest(f, t) ==
    /\ f \in net /\ f.kind = "connect"
    /\ LET n == f.to
           both == Visible(n, OwnerOf[f.req.source]) /\ Visible(n, OwnerOf[f.req.endpoint])
       IN  \/ /\ ~both /\ Forward(f)
              /\ UNCHANGED <<info, place>>
           \/ /\ both /\ f.req.by \notin Allowed
              /\ net' = net \ {f}
              /\ UNCHANGED <<info, place>>
           \/ /\ both /\ f.req.by \in Allowed
              /\ net' = net \ {f}
              /\ \E d \in Delivery :
                    /\ info[d] = None
                    /\ info' = [info EXCEPT ![d] =
                          [by |-> f.req.by, source |-> f.req.source,
                           endpoint |-> f.req.endpoint, coord |-> n]]
                    /\ Starts(t, n, d, "prepP")
    /\ UNCHANGED <<state, waits, known, bound, ended, unsure>>

(* Both ends have accepted.                                                 *)
InstallRoute(t) ==
    /\ pc[t] = "install"
    /\ routes' = [routes EXCEPT ![cur[t]] = "pending"]
    /\ GoesOn(t, "actP")
    /\ UNCHANGED <<entries, pd, cd, info, waits, net, known, bound, ended, unsure>>

(* Both ends are active, and the requester is answered ok.                  *)
ConfirmRoute(t) ==
    /\ pc[t] = "confirm"
    /\ routes' = [routes EXCEPT ![cur[t]] = IF @ = "none" THEN @ ELSE "active"]
    /\ known' = known \cup {cur[t]}
    /\ Finishes(t)
    /\ UNCHANGED <<entries, pd, cd, info, waits, net, bound, ended, unsure>>

(* removeRoute, and the answer.                                             *)
RemoveRoute(t) ==
    /\ pc[t] = "remove"
    /\ routes' = [routes EXCEPT ![cur[t]] = "none"]
    /\ Finishes(t)
    /\ UNCHANGED <<entries, pd, cd, info, waits, net, known, bound, ended, unsure>>

-----------------------------------------------------------------------------
(* Disconnect and unsubscribe.                                              *)

Disconnect(q, d) ==
    /\ q \in Closers /\ d \in known
    /\ closes < MaxCloses /\ closes' = closes + 1
    /\ net' = net \cup {[kind |-> "disconnect", to |-> At[q], by |-> q, d |-> d]}
    /\ UNCHANGED <<state, info, waits, place, known, withdraws, ended, unsure>>

HasRoute(n, d) == n = info[d].coord /\ routes[d] # "none"

HasLocalDelivery(n, d) ==
    (n = Producer(d) /\ pd[d] # "none") \/ (n = Consumer(d) /\ cd[d] # "none")

(* routeDeliveryRequest: up to the first node that knows the delivery.  If  *)
(* that is not the coordinator, the answer is that there is none.           *)
RouteDeliveryRequest(f, t) ==
    /\ f \in net /\ f.kind = "disconnect"
    /\ LET n == f.to
           here == HasRoute(n, f.d) \/ HasLocalDelivery(n, f.d)
       IN  \/ ~here /\ Forward(f) /\ UNCHANGED place
           \/ /\ here /\ net' = net \ {f}
              /\ IF f.by \in Allowed /\ HasRoute(n, f.d)
                 THEN Starts(t, n, f.d, "closing") ELSE UNCHANGED place
    /\ UNCHANGED <<state, info, waits, known, bound, ended, unsure>>

(* closeDeliveryRoute before its calls.                                     *)
MarkClosing(t) ==
    /\ pc[t] = "closing"
    /\ routes' = [routes EXCEPT ![cur[t]] = IF @ = "none" THEN @ ELSE "closing"]
    /\ ended' = ended \cup {cur[t]}
    /\ GoesOn(t, "shutP")
    /\ UNCHANGED <<entries, pd, cd, info, waits, net, known, bound, unsure>>

-----------------------------------------------------------------------------
(* Announcing and withdrawing, on the owner's node.                         *)

Announce(o) ==
    /\ ~Announced(o)
    /\ entries' = [entries EXCEPT ![o] = {}]
    /\ UNCHANGED <<pd, cd, routes, info, waits, place, net, known, bound, ended, unsure>>

(* handleWithdrawLocal and handleWithdrawConsumerLocal forget the entry and *)
(* remember its deliveries, to close them one by one.                       *)
Withdraw(o, t) ==
    /\ o \in Withdrawn /\ Announced(o) /\ pc[t] = "idle"
    /\ withdraws < MaxWithdraws /\ withdraws' = withdraws + 1
    /\ entries' = [entries EXCEPT ![o] = None]
    /\ LET held == {d \in entries[o] : (IF o \in Source THEN pd[d] ELSE cd[d]) # "none"} IN
       /\ ended' = ended \cup held
       /\ \/ held = {} /\ UNCHANGED place
          \/ \E d \in held :
                /\ cur' = [cur EXCEPT ![t] = d]
                /\ todo' = [todo EXCEPT ![t] = held \ {d}]
                /\ pc' = [pc EXCEPT ![t] = "end"]
                /\ node' = [node EXCEPT ![t] = OwnerOf[o]]
                /\ owned' = [owned EXCEPT ![t] = o]
    /\ UNCHANGED <<pd, cd, routes, info, waits, net, known, closes, unsure>>

(* The owner's own side first, and the route if it is the coordinator; then *)
(* the other side, unless it is on the same node.                           *)
EndLocal(t) ==
    /\ pc[t] = "end"
    /\ LET role == IF owned[t] \in Source THEN "producer" ELSE "consumer" IN
       /\ Apply(node[t], "close", role, cur[t], ClosesRoute(t, node[t]))
       /\ GoesOn(t, IF Producer(cur[t]) = Consumer(cur[t]) THEN "tellK"
                    ELSE IF role = "producer" THEN "tellC" ELSE "tellP")
    /\ UNCHANGED <<info, waits, net, known, bound, ended, unsure>>

-----------------------------------------------------------------------------
TaskStep(t) ==
    \/ CallLocal(t) \/ CallPrivate(t) \/ ReceiveAnswer(t) \/ CallTimesOut(t)
    \/ InstallRoute(t) \/ ConfirmRoute(t) \/ RemoveRoute(t)
    \/ MarkClosing(t) \/ EndLocal(t)

Next ==
    \/ \E f \in net :
          \/ HandlePrivate(f) \/ ForwardPrivate(f) \/ TryDeliverPendingCtrl(f)
          \/ \E t \in Task : RouteCoordinatorRequest(f, t) \/ RouteDeliveryRequest(f, t)
    \/ \E t \in Task : TaskStep(t) \/ \E o \in Owned : Withdraw(o, t)
    \/ \E q \in Requester, d \in Delivery : Disconnect(q, d)
    \/ \E o \in Owned : Announce(o)

Spec == Init /\ [][Next]_vars

-----------------------------------------------------------------------------
(* Nothing is under way.                                                    *)
Quiet ==
    /\ \A t \in Task : pc[t] = "idle"
    /\ \A f \in net : f.kind \in {"connect", "disconnect"}

(* Nothing makes up for the lost answer to a prepare or to the producer's   *)
(* close, for a request the wrong node has handled, or for the consumer     *)
(* that bestEffortCloseLocalProducer passes over on the producer's node.    *)
Excused(d) ==
    \/ d \in unsure
    \/ d \in ended /\ Producer(d) = Consumer(d)

(* No delivery is left half open: producer, consumer and coordinator all    *)
(* have it, and active, or none of them does, however setting up, timeouts, *)
(* disconnects and withdrawals overlap (establishDelivery undoes what it    *)
(* began, closeDeliveryRoute and the withdrawals close every side).         *)
NoHalfOpen ==
    Quiet => \A d \in Delivery :
        \/ pd[d] = "active" /\ cd[d] = "active" /\ routes[d] = "active"
        \/ pd[d] = "none" /\ cd[d] = "none" /\ routes[d] = "none"
        \/ Excused(d)

(* When connect or subscribe is answered ok, both ends are active, unless   *)
(* somebody has begun to take the delivery down again (establishDelivery    *)
(* takes no other call's answer for that of an activation).                 *)
OkMeansActive ==
    [][\A d \in known' \ known : d \in ended \/ (pd[d] = "active" /\ cd[d] = "active")]_vars

(* Every delivery a node holds is found by a withdrawal: it is in its       *)
(* entry, or a withdrawal that removed the entry is still to close it.      *)
CatalogReaches ==
    \A d \in Delivery :
        \A o \in Owned :
            /\ info[d] # None /\ o \in {info[d].source, info[d].endpoint}
            /\ (IF o \in Source THEN pd[d] ELSE cd[d]) # "none"
            => \/ Announced(o) /\ d \in entries[o]
               \/ \E t \in Task : owned[t] = o /\ d \in todo[t] \cup {cur[t]}
=============================================================================
