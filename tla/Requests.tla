------------------------------ MODULE Requests ------------------------------
(***************************************************************************)
(* How a request finds the node that executes it, and its answer the way   *)
(* back, in a tree of hubs: file control requests (file/handler.go), flow  *)
(* set and delete, the other flow requests, which share                    *)
(* forwardToExecutorWithPerm (flow/handler.go), and exec calls             *)
(* (exec/handler.go) with the broker a flow waits at for their answers     *)
(* (broker/broker.go).  The four do the same with small differences; a     *)
(* behaviour is about requests of one kind, from one node to one node.     *)
(*                                                                         *)
(* The first hub that has both ends below it judges the request (hubs      *)
(* differ in what they grant), and the hubs below it trust their parent.   *)
(* Which nodes are below a hub it knows from its index, which lags behind  *)
(* the tree.  Every hub runs a pool of workers, and a request has one      *)
(* frame under way at a time.  What execution does, and malformed          *)
(* requests (400), are not modelled.                                       *)
(***************************************************************************)
EXTENDS Naturals, Sequences, FiniteSets

CONSTANTS
    Node, Root,
    Parent,      \* Parent[n]: the node n has its parent connection to
    Nowhere,     \* the number of no node
    Here,        \* no number given: the hub the request reaches first
    None,
    Kind,        \* of "file", "set", "delete", "run" (and the flow queries), "exec"
    HopLimit,    \* the hop limit frames start with
    MaxAttempts, \* bound: how often a flow tries a call
    MaxChanges   \* bound: changes of indexes and connections, send errors, retries

Attempt == 1..MaxAttempts
\* 500 stands for every other refusal of an executor, too (400, 409, ...).
Code == {1, 403, 404, 408, 500}

(* A node and those above it; those in its subtree; its child towards t.    *)
Above[n \in Node] == IF n = Root THEN {n} ELSE {n} \cup Above[Parent[n]]
Below(n) == {m \in Node : n \in Above[m]}
Towards(n, t) == CHOOSE c \in Above[t] : c # Root /\ Parent[c] = n
Lca(m, n) == CHOOSE x \in Above[m] \cap Above[n] : Above[m] \cap Above[n] \subseteq Above[x]

(* A tree in which the way up to the root and down to any node takes no     *)
(* more hops than the limit (the first send takes none).                    *)
ShallowTree ==
    \E depth \in [Node -> 0..HopLimit + 1] :
        /\ depth[Root] = 0
        /\ \A n \in Node \ {Root} : depth[n] = depth[Parent[n]] + 1
        /\ \A m, n \in Node : depth[m] + depth[n] <= HopLimit + 1

ASSUME RequestsAssumption ==
    /\ Root \in Node /\ {Nowhere, Here, None} \cap Node = {} /\ Nowhere # Here
    /\ Parent \in [Node \ {Root} -> Node]
    /\ Kind \subseteq {"file", "set", "delete", "run", "exec"}
    /\ HopLimit \in Nat /\ MaxAttempts \in Nat /\ MaxChanges \in Nat

VARIABLES
    kind, origin, executor, \* what is asked, by which node, of which node
    grants,   \* the hubs that grant it: permCfg.Has of each hub
    known,    \* known[n]: the nodes in the index of n (GetByNode)
    up,       \* the nodes whose parent connection is up
    frame,    \* the frame of an attempt that is under way, or None
    asked,    \* attempts made
    waiters,  \* Broker.waiters of the origin (exec)
    hand,     \* the answer Deliver has removed the waiter for, or 0
    channel,  \* what is in the waiter's channel: a code, or 0
    closed,   \* the channels that have been closed
    outcome,  \* what the requester has got for an attempt: a sequence of codes
    executed, \* history: how often an attempt was executed
    changes   \* changes so far

request == <<kind, origin, executor, grants>>
tables == <<known, up, changes>>
broker == <<waiters, hand, channel, closed>>
vars == <<kind, origin, executor, grants, known, up, frame, asked, waiters, hand,
          channel, closed, outcome, executed, changes>>

Frame == [type : {"req", "resp"}, from : Node, at : Node, hops : 0..HopLimit,
          code : Code \cup {0}]

ASSUME NoneAssumption == None \notin Frame

TypeOK ==
    /\ kind \in Kind /\ origin \in Node /\ executor \in Node \cup {Nowhere, Here}
    /\ grants \subseteq Node
    /\ known \in [Node -> SUBSET Node]
    /\ up \subseteq Node \ {Root}
    /\ frame \in [Attempt -> Frame \cup {None}]
    /\ asked \in Attempt \cup {0}
    /\ waiters \subseteq Attempt
    /\ hand \in [Attempt -> Code \cup {0}]
    /\ channel \in [Attempt -> Code \cup {0}] /\ closed \subseteq Attempt
    /\ outcome \in [Attempt -> Seq(Code)]
    /\ executed \in [Attempt -> Nat]
    /\ changes \in 0..MaxChanges

(* An index that is up to date; some connection managers also have the      *)
(* parent's own number in it.                                               *)
Index(withParent) ==
    [n \in Node |-> (Below(n) \ {n})
                    \cup (IF withParent /\ n # Root THEN {Parent[n]} ELSE {})]

Init ==
    /\ kind \in Kind /\ origin \in Node /\ executor \in Node \cup {Nowhere, Here}
    /\ kind = "exec" => executor \notin {origin, Here}
    /\ kind # "exec" => origin # Root
    /\ grants \in SUBSET {n \in Node : Below(n) # {n}}
    /\ known \in {Index(TRUE), Index(FALSE)}
    /\ up = Node \ {Root}
    /\ frame = [a \in Attempt |-> None] /\ asked = 0
    /\ waiters = {} /\ closed = {}
    /\ hand = [a \in Attempt |-> 0] /\ channel = [a \in Attempt |-> 0]
    /\ outcome = [a \in Attempt |-> <<>>] /\ executed = [a \in Attempt |-> 0]
    /\ changes = 0

-----------------------------------------------------------------------------
(* Next hops (ConnManager.GetByNode, findParentConn, external core).        *)

ParentConn(n) == IF n \in up THEN Parent[n] ELSE None
IsParent(n, c) == n # Root /\ c = Parent[n]

Via(n, t) ==
    IF t \notin known[n] THEN None
    ELSE IF IsParent(n, t) THEN t ELSE Towards(n, t)

(* Down if the index has the target, otherwise up.                          *)
NextHop(n, t) == IF Via(n, t) # None THEN Via(n, t) ELSE ParentConn(n)

Put(a, f) == frame' = [frame EXCEPT ![a] = f]
Drop(a) == Put(a, None)

(* Mutant: the hop limit is copied.                                         *)
PassFreely(a, n, c) == Put(a, [frame[a] EXCEPT !.from = n, !.at = c])

(* The frame goes on with one hop less (CloneToTCPForForward, external).    *)
Pass(a, n, c) == Put(a, [frame[a] EXCEPT !.from = n, !.at = c, !.hops = @ - 1])

(* A new frame to the origin; dropped when there is no way.                 *)
Answer(a, n, code) ==
    Put(a, IF NextHop(n, origin) = None THEN None
           ELSE [type |-> "resp", from |-> n, at |-> NextHop(n, origin), hops |-> HopLimit,
                 code |-> code])

(* Forwarding a request.  When the hops are used up the origin is told      *)
(* unless tell is FALSE.  A send may fail (changes): only                   *)
(* forwardToExecutorWithPerm and forwardDown tell the origin then.          *)
Forward(a, n, c, tell, tellError) ==
    \/ /\ frame[a].hops > 0
       /\ Pass(a, n, c)
       /\ UNCHANGED tables
    \/ /\ frame[a].hops = 0
       /\ IF tell THEN Answer(a, n, 500) ELSE Drop(a)
       /\ UNCHANGED tables
    \/ /\ frame[a].hops > 0 /\ changes < MaxChanges
       /\ IF tellError THEN Answer(a, n, 500) ELSE Drop(a)
       /\ changes' = changes + 1
       /\ UNCHANGED <<known, up>>

-----------------------------------------------------------------------------
(* The requester.  A client (external) sends to its hub.  A flow's call     *)
(* registers with the broker and goes down, unchecked, when the target is   *)
(* below, otherwise to the parent; with neither it fails (sendExecCall).    *)
(* A call that has failed is tried again, as a new request.                 *)

New(c) == [type |-> "req", from |-> origin, at |-> c, hops |-> HopLimit, code |-> 0]

Ask(a) ==
    /\ a = 1 /\ asked = 0
    /\ kind # "exec" /\ ParentConn(origin) # None
    /\ asked' = a
    /\ Put(a, New(ParentConn(origin)))
    /\ UNCHANGED <<request, tables, broker, outcome, executed>>

ExecCall(a) ==
    LET below == Via(origin, executor)
        c == IF below # None /\ ~IsParent(origin, below) THEN below ELSE ParentConn(origin)
    IN  /\ kind = "exec" /\ a = asked + 1
        /\ a > 1 => outcome[asked] \notin {<<>>, <<1>>}
        /\ asked' = a
        /\ \E error \in BOOLEAN :
             /\ changes' = changes + (IF a > 1 THEN 1 ELSE 0) + (IF error THEN 1 ELSE 0)
             /\ changes' <= MaxChanges
             /\ IF c # None /\ ~error
                THEN Put(a, New(c)) /\ waiters' = waiters \cup {a} /\ UNCHANGED <<outcome, closed>>
                ELSE /\ outcome' = [outcome EXCEPT ![a] = <<500>>]
                     /\ closed' = closed \cup {a}
                     /\ UNCHANGED <<frame, waiters>>
        /\ UNCHANGED <<request, known, up, hand, channel, executed>>

-----------------------------------------------------------------------------
(* A hub handles a request.                                                 *)

Has(a, type) == frame[a] # None /\ frame[a].type = type
FromParent(a) == IsParent(frame[a].at, frame[a].from)
Target(n) == IF executor = Here THEN n ELSE executor

(* The executor carries the request out, or does not, and answers.          *)
Reply(a, n, done, codes) ==
    /\ \E code \in codes : Answer(a, n, code)
    /\ executed' = [executed EXCEPT ![a] = IF done THEN @ + 1 ELSE @]
    /\ UNCHANGED tables

Does(a, n) == Reply(a, n, TRUE, {1})
DoesNot(a, n, codes) == Reply(a, n, FALSE, codes)

ApplySetLocal(a, n) == Does(a, n) \/ DoesNot(a, n, {500})
ApplyDeleteLocal(a, n) == Does(a, n) \/ DoesNot(a, n, {404, 500})
RunLocal(a, n) == Does(a, n) \/ DoesNot(a, n, {404, 500})
CancelRunLocal(a, n) == Does(a, n) \/ DoesNot(a, n, {404, 500})
StatusLocal(a, n) == Does(a, n) \/ DoesNot(a, n, {404})
DetailLocal(a, n) == Does(a, n) \/ DoesNot(a, n, {404, 500})
ListLocal(a, n) == Does(a, n)
ListRunsLocal(a, n) == Does(a, n) \/ DoesNot(a, n, {404})
GetLocal(a, n) == Does(a, n) \/ DoesNot(a, n, {404})
ListDirLocal(a, n) == Does(a, n) \/ DoesNot(a, n, {404, 500})
MkdirLocal(a, n) == Does(a, n) \/ DoesNot(a, n, {500})
ReadTextLocal(a, n) == Does(a, n) \/ DoesNot(a, n, {404, 500})

(* A method may also be executed and fail (500) or time out (408, not told  *)
(* apart); the capability may ask for more permissions (403).               *)
ExecLocal(a, n) == Reply(a, n, TRUE, {1, 500}) \/ DoesNot(a, n, {403, 404})

(* Not below this hub: to the parent.                                       *)
Up(a, n) ==
    IF ParentConn(n) = None
    THEN Answer(a, n, 404) /\ UNCHANGED tables
    ELSE Forward(a, n, ParentConn(n), TRUE, kind = "run")

Deny(a, n) == n \notin grants /\ Answer(a, n, 403) /\ UNCHANGED tables

(* Mutant: the hub does not ask whether both ends are in one branch.        *)
RouteNoBranch(a, n) ==
    LET c == Via(n, executor)
    IN  IF c = None \/ (kind # "file" /\ IsParent(n, c)) THEN Up(a, n)
        ELSE \/ n \in grants /\ Forward(a, n, c, TRUE, kind = "run")
             \/ Deny(a, n)

(* From below or a client, for another node: up; down the branch that has   *)
(* both ends; or, judged here, down to the executor.                        *)
Route(a, n) ==
    LET c == Via(n, executor)
    IN  IF c = None \/ (kind # "file" /\ IsParent(n, c)) THEN Up(a, n)
        ELSE IF Via(n, origin) = c THEN Forward(a, n, c, TRUE, kind = "run")
        ELSE \/ n \in grants /\ Forward(a, n, c, TRUE, kind = "run")
             \/ Deny(a, n)

(* From the parent, for a node further down.                                *)
ForwardDown(a, n) ==
    LET c == Via(n, executor)
    IN  IF c = None THEN Answer(a, n, 500) /\ UNCHANGED tables
        ELSE Forward(a, n, c, TRUE, TRUE)

ForwardDownOrDrop(a, n) ==
    LET c == Via(n, executor)
    IN  IF c = None THEN Drop(a) /\ UNCHANGED tables
        ELSE Forward(a, n, c, FALSE, FALSE)

ForwardCtrlEnd(a, n) ==
    LET c == NextHop(n, executor)
    IN  IF c = None THEN Drop(a) /\ UNCHANGED tables
        ELSE Forward(a, n, c, FALSE, FALSE)

(* Every handler: a request from the parent is trusted, others are judged   *)
(* here or sent on.                                                         *)
Handle(a, k, local, down) ==
    LET n == frame[a].at
    IN  /\ kind = k
        /\ IF FromParent(a)
           THEN IF Target(n) = n THEN local ELSE down /\ UNCHANGED executed
           ELSE \/ Target(n) = n /\ n \in grants /\ local
                \/ Target(n) = n /\ Deny(a, n) /\ UNCHANGED executed
                \/ Target(n) # n /\ Route(a, n) /\ UNCHANGED executed

HandleSet(a) == LET n == frame[a].at IN Handle(a, "set", ApplySetLocal(a, n), ForwardDown(a, n))
HandleDelete(a) == LET n == frame[a].at IN Handle(a, "delete", ApplyDeleteLocal(a, n), ForwardDown(a, n))

ForwardToExecutorWithPerm(a, local) ==
    LET n == frame[a].at
        c == Via(n, executor)
    IN  Handle(a, "run", local,
               IF c = None \/ IsParent(n, c) THEN Answer(a, n, 404) /\ UNCHANGED tables
               ELSE Forward(a, n, c, TRUE, TRUE))

HandleRun(a) == ForwardToExecutorWithPerm(a, RunLocal(a, frame[a].at))
HandleCancelRun(a) == ForwardToExecutorWithPerm(a, CancelRunLocal(a, frame[a].at))
HandleStatus(a) == ForwardToExecutorWithPerm(a, StatusLocal(a, frame[a].at))
HandleDetail(a) == ForwardToExecutorWithPerm(a, DetailLocal(a, frame[a].at))
HandleList(a) == ForwardToExecutorWithPerm(a, ListLocal(a, frame[a].at))
HandleListRuns(a) == ForwardToExecutorWithPerm(a, ListRunsLocal(a, frame[a].at))
HandleGet(a) == ForwardToExecutorWithPerm(a, GetLocal(a, frame[a].at))

HandleCall(a) == LET n == frame[a].at IN Handle(a, "exec", ExecLocal(a, n), ForwardDownOrDrop(a, n))

(* pull and offer, routed in the same way, are in module FileTransfer.      *)
RouteCtrlRequest(a, local) == Handle(a, "file", local, ForwardCtrlEnd(a, frame[a].at))

HandleReadRequest(a) ==
    LET n == frame[a].at IN RouteCtrlRequest(a, ListDirLocal(a, n) \/ ReadTextLocal(a, n))
HandleWriteRequest(a) == RouteCtrlRequest(a, MkdirLocal(a, frame[a].at))

HandleRequest(a) ==
    /\ Has(a, "req")
    /\ \/ HandleSet(a) \/ HandleDelete(a)
       \/ HandleRun(a) \/ HandleCancelRun(a)
       \/ HandleStatus(a) \/ HandleDetail(a) \/ HandleList(a) \/ HandleListRuns(a) \/ HandleGet(a)
       \/ HandleCall(a)
       \/ HandleReadRequest(a) \/ HandleWriteRequest(a)
    /\ UNCHANGED <<request, asked, broker, outcome>>

-----------------------------------------------------------------------------
(* The way back.                                                            *)

(* flow, exec: what came from the parent does not go back to it.            *)
ForwardRemoteByHeaderTarget(a, n, c) ==
    IF c = None \/ frame[a].hops = 0 \/ (FromParent(a) /\ IsParent(n, c))
    THEN Drop(a) ELSE Pass(a, n, c)

(* file                                                                     *)
ForwardCtrlByHeaderTarget(a, n, c) ==
    IF c = None \/ frame[a].hops = 0 THEN Drop(a) ELSE Pass(a, n, c)

ForwardResponse(a) ==
    LET n == frame[a].at
        c == NextHop(n, origin)
    IN  /\ Has(a, "resp") /\ n # origin
        /\ IF kind = "file" THEN ForwardCtrlByHeaderTarget(a, n, c)
                            ELSE ForwardRemoteByHeaderTarget(a, n, c)
        /\ UNCHANGED <<request, tables, asked, broker, outcome, executed>>

Receive(a) ==
    /\ Has(a, "resp") /\ frame[a].at = origin /\ kind # "exec"
    /\ outcome' = [outcome EXCEPT ![a] = Append(@, frame[a].code)]
    /\ Drop(a)
    /\ UNCHANGED <<request, tables, asked, broker, executed>>

(* Mutant: the waiter is looked up and stays registered.                    *)
DeliverKeep(a) ==
    /\ Has(a, "resp") /\ frame[a].at = origin /\ kind = "exec"
    /\ hand' = [hand EXCEPT ![a] = IF a \in waiters THEN frame[a].code ELSE 0]
    /\ Drop(a)
    /\ UNCHANGED <<request, tables, asked, waiters, channel, closed, outcome, executed>>

(* Mutant: the answer goes to whatever call is waiting.                     *)
DeliverToAnyone(a) ==
    /\ Has(a, "resp") /\ frame[a].at = origin /\ kind = "exec"
    /\ hand' = [hand EXCEPT ![asked] = IF asked \in waiters THEN frame[a].code ELSE 0]
    /\ waiters' = waiters \ {asked}
    /\ Drop(a)
    /\ UNCHANGED <<request, tables, asked, channel, closed, outcome, executed>>

(* handleCallResp: Deliver removes the waiter under the lock ...            *)
Deliver(a) ==
    /\ Has(a, "resp") /\ frame[a].at = origin /\ kind = "exec"
    /\ hand' = [hand EXCEPT ![a] = IF a \in waiters THEN frame[a].code ELSE 0]
    /\ waiters' = waiters \ {a}
    /\ Drop(a)
    /\ UNCHANGED <<request, tables, asked, channel, closed, outcome, executed>>

(* ... and then sends to its channel and closes it.                         *)
DeliverSend(a) ==
    /\ hand[a] # 0
    /\ channel' = [channel EXCEPT ![a] = hand[a]]
    /\ closed' = closed \cup {a}
    /\ hand' = [hand EXCEPT ![a] = 0]
    /\ UNCHANGED <<request, tables, frame, asked, waiters, outcome, executed>>

(* The deferred cancel: closes the channel if the waiter is still there.    *)
Cancel(a) ==
    /\ waiters' = waiters \ {a}
    /\ closed' = IF a \in waiters THEN closed \cup {a} ELSE closed

Waiting(a) == kind = "exec" /\ a <= asked /\ outcome[a] = <<>>

CallReturns(a) ==
    /\ Waiting(a) /\ channel[a] # 0
    /\ outcome' = [outcome EXCEPT ![a] = <<channel[a]>>]
    /\ channel' = [channel EXCEPT ![a] = 0]
    /\ Cancel(a)
    /\ UNCHANGED <<request, tables, frame, asked, hand, executed>>

(* The node's deadline, at any time; with an answer there as well select    *)
(* takes either.                                                            *)
CallTimesOut(a) ==
    /\ Waiting(a)
    /\ outcome' = [outcome EXCEPT ![a] = <<408>>]
    /\ Cancel(a)
    /\ UNCHANGED <<request, tables, frame, asked, hand, channel, executed>>

-----------------------------------------------------------------------------
(* Indexes change when a node logs in or out somewhere below (external),    *)
(* and a parent connection is lost with the frame on it.  The entries of    *)
(* other nodes than the two ends are never read.                            *)

Change == changes < MaxChanges /\ changes' = changes + 1

Forget(n, t) ==
    /\ t \in known[n] /\ ~IsParent(n, t) /\ Change
    /\ known' = [known EXCEPT ![n] = @ \ {t}]
    /\ UNCHANGED <<request, up, frame, asked, broker, outcome, executed>>

Learn(n, t) ==
    /\ t \in Below(n) \ ({n} \cup known[n]) /\ Towards(n, t) \in up /\ Change
    /\ known' = [known EXCEPT ![n] = @ \cup {t}]
    /\ UNCHANGED <<request, up, frame, asked, broker, outcome, executed>>

Cut(n) ==
    /\ n \in up /\ Change
    /\ up' = up \ {n}
    /\ known' = [known EXCEPT ![n] = @ \ {Parent[n]}, ![Parent[n]] = @ \ Below(n)]
    /\ frame' = [a \in Attempt |->
                    IF frame[a] # None /\ {frame[a].from, frame[a].at} = {n, Parent[n]}
                    THEN None ELSE frame[a]]
    /\ UNCHANGED <<request, asked, broker, outcome, executed>>

-----------------------------------------------------------------------------
Worker(a) == HandleRequest(a) \/ ForwardResponse(a) \/ Receive(a) \/ Deliver(a) \/ DeliverSend(a)

Next ==
    \/ \E a \in Attempt : Ask(a) \/ ExecCall(a) \/ Worker(a) \/ CallReturns(a) \/ CallTimesOut(a)
    \/ \E n \in Node : Cut(n) \/ \E t \in {origin, executor} : Forget(n, t) \/ Learn(n, t)

Spec == Init /\ [][Next]_vars

(* Workers handle what arrives, and a call ends at its deadline at latest.  *)
FairSpec ==
    /\ Spec
    /\ \A a \in Attempt : WF_vars(Worker(a)) /\ WF_vars(CallReturns(a) \/ CallTimesOut(a))

-----------------------------------------------------------------------------
(* Nothing has changed, so every index is exact.                            *)
Steady == changes = 0

(* Nothing of an attempt is under way.                                      *)
Over(a) == a <= asked /\ frame[a] = None /\ hand[a] = 0 /\ ~Waiting(a)

(* What the whole tree says: a node needs nobody's permission in its own    *)
(* subtree; otherwise the lowest common ancestor of the two decides.  (For  *)
(* files, a hub that has its parent in the index also judges what is for    *)
(* the parent itself.)                                                      *)
Executor == IF executor = Here THEN Parent[origin] ELSE executor

Judges ==
    {Lca(origin, Executor)}
    \cup {n \in Above[origin] \ {origin} : /\ kind = "file" /\ IsParent(n, Executor)
                                          /\ Executor \in known[n]}

Granted ==
    /\ Executor \in Node
    /\ origin \in Above[Executor] \/ Judges \subseteq grants

(* Hop by hop, hubs that see only their own index decide what the whole     *)
(* tree decides: in a steady tree every attempt gets one answer, unless a   *)
(* call's deadline is first; 404 for a number that no node has (a call of   *)
(* the root fails at once); 403, with nothing executed, when their lowest   *)
(* common ancestor does not grant it, and otherwise only when the           *)
(* capability itself asks for more.                                         *)
RoutedAsTheTreeSays ==
    \A a \in Attempt :
        Steady /\ Over(a) =>
            /\ Len(outcome[a]) = 1
            /\ \/ outcome[a] = <<408>>
               \/ IF executor = Nowhere
                  THEN outcome[a] = <<IF origin = Root THEN 500 ELSE 404>>
                  ELSE IF Granted THEN outcome[a] = <<403>> => kind = "exec"
                  ELSE outcome[a] = <<403>>
            /\ executed[a] = 0 \/ Granted

(* Whatever changes on the way: a success is reported only for an attempt   *)
(* that was executed, 403 and 404 only for one that was not and will not    *)
(* be, and an attempt is executed and answered at most once.                *)
AnswersAreTrue ==
    \A a \in Attempt :
        /\ executed[a] <= 1 /\ Len(outcome[a]) <= 1
        /\ outcome[a] = <<1>> => executed[a] = 1
        /\ outcome[a] \in {<<403>>, <<404>>} =>
             executed[a] = 0 /\ (frame[a] = None \/ frame[a].type = "resp")

(* A late answer does no harm: Deliver never sends to a channel that the    *)
(* caller's cancel has closed (that would panic), and no waiter is left     *)
(* behind by a call that has returned.                                      *)
DeliverIsSafe ==
    \A a \in Attempt :
        /\ hand[a] # 0 => a \notin closed
        /\ a \in waiters => Waiting(a)

(* No frame goes round for ever, however wrong the indexes: everything that *)
(* was asked is over in the end.                                            *)
JourneysEnd == \A a \in Attempt : a <= asked ~> Over(a)

=============================================================================
