------------------------------ MODULE TopicBus ------------------------------
(***************************************************************************)
(* topicbus/topicbus.go: the subscriptions of one hub.  A hub keeps which  *)
(* of its connections subscribed to which topic, and subscribes at its     *)
(* parent to the topics somebody below it wants.                           *)
(*                                                                         *)
(* Worker goroutines run OnReceive and the conn.closed callback.  Each     *)
(* critical section of h.mu, each findParent and each frame sent up is a   *)
(* step of its own.  The link to the parent keeps the order of frames, so  *)
(* the parent is represented by what it will have on record once it has    *)
(* read everything sent so far.  publish and list_subs leave the           *)
(* subscriptions alone: of them, what OnReceive does first is modelled.    *)
(***************************************************************************)
EXTENDS Naturals, FiniteSets

CONSTANTS
    Worker,       \* goroutines that handle frames and events
    Conn,         \* connections of the hub, other than the parent
    NoConn,       \* the parent, as the sender of a frame
    Topic,
    SendFails,    \* sending to a connected parent may fail
    MaxParents,   \* bound: connections to a parent, one after the other
    MaxRequests   \* bound: frames received

ASSUME TopicBusAssumption ==
    /\ NoConn \notin Conn
    /\ SendFails \in BOOLEAN
    /\ MaxParents \in Nat /\ MaxRequests \in Nat

VARIABLES
    topicSubs,    \* h.topicSubs: the connections that want a topic
    connSubs,     \* h.connSubs: the topics a connection wants
    active,       \* h.upstreamActive: topics taken to be subscribed upstream
    seenParent,   \* h.parentConnID: the parent that was told everything, or 0
    closed,       \* connections that are closed
    parent,       \* the connection to the parent, or 0
    named,        \* the parent's connection has a nodeID
    lives,        \* parent connections so far
    told,         \* the topics the parent has on record for this hub
    pc, kind, conn, asked,  \* a worker's place, and the request it handles
    up,           \* the parent findParent gave a worker, or 0
    need,         \* topics a worker has to tell the parent about
    received      \* frames received

hub  == <<topicSubs, connSubs, active, seenParent>>
link == <<parent, named, lives, told>>
work == <<kind, conn, asked>>
vars == <<hub, closed, link, pc, work, up, need, received>>

Kind == {"subscribe", "unsubscribe", "other", "closed"}
Place == {"idle", "find", "clear", "compare", "gather", "resend", "note",
          "apply", "up", "send", "rollback"}

(* The topics somebody below the hub wants.                                *)
Wanted == {t \in Topic : topicSubs[t] # {}}

(* Every variable keeps its type.                                          *)
TypeOK ==
    /\ topicSubs \in [Topic -> SUBSET Conn]
    /\ connSubs \in [Conn -> SUBSET Topic]
    /\ active \in SUBSET Topic /\ told \in SUBSET Topic
    /\ closed \in SUBSET Conn
    /\ lives \in 0..MaxParents /\ named \in BOOLEAN
    /\ parent \in {0, lives} /\ seenParent \in 0..lives
    /\ pc \in [Worker -> Place] /\ kind \in [Worker -> Kind]
    /\ conn \in [Worker -> Conn \cup {NoConn}]
    /\ asked \in [Worker -> SUBSET Topic] /\ need \in [Worker -> SUBSET Topic]
    /\ up \in [Worker -> 0..lives]
    /\ received \in 0..MaxRequests

Init ==
    /\ topicSubs = [t \in Topic |-> {}] /\ connSubs = [c \in Conn |-> {}]
    /\ active = {} /\ told = {} /\ closed = {}
    /\ seenParent = 0 /\ parent = 0 /\ lives = 0 /\ named = FALSE
    /\ pc = [w \in Worker |-> "idle"]
    /\ kind = [w \in Worker |-> "other"]
    /\ conn = [w \in Worker |-> NoConn]
    /\ asked = [w \in Worker |-> {}] /\ need = [w \in Worker |-> {}]
    /\ up = [w \in Worker |-> 0]
    /\ received = 0

-----------------------------------------------------------------------------
(* The connection to the parent comes and goes; the login that gives it a  *)
(* nodeID comes later.  A parent drops the subscriptions of a connection   *)
(* that closes.                                                            *)

ParentUp ==
    /\ parent = 0 /\ lives < MaxParents
    /\ lives' = lives + 1 /\ parent' = lives + 1
    /\ named' = FALSE
    /\ UNCHANGED <<hub, closed, told, pc, work, up, need, received>>

ParentNamed ==
    /\ parent # 0 /\ ~named
    /\ named' = TRUE
    /\ UNCHANGED <<hub, closed, parent, lives, told, pc, work, up, need, received>>

ParentDown ==
    /\ parent # 0
    /\ parent' = 0 /\ named' = FALSE /\ told' = {}
    /\ UNCHANGED <<hub, closed, lives, pc, work, up, need, received>>

(* srv.Send to the connection worker w has found: delivered, lost with the *)
(* connection, or refused with an error.                                   *)
Sent(w, now) ==
    told' = IF up[w] = parent THEN now ELSE told

MayFail(w) == SendFails \/ up[w] # parent

-----------------------------------------------------------------------------
(* What a worker does next.                                                *)

Goto(w, there) == pc' = [pc EXCEPT ![w] = there]

(* The request is done; the worker forgets it.                             *)
Done(w) ==
    /\ Goto(w, "idle")
    /\ up' = [up EXCEPT ![w] = 0] /\ need' = [need EXCEPT ![w] = {}]
    /\ kind' = [kind EXCEPT ![w] = "other"]
    /\ conn' = [conn EXCEPT ![w] = NoConn]
    /\ asked' = [asked EXCEPT ![w] = {}]

(* A frame of a connection is handled after the one before it.             *)
Handling(c) == \E v \in Worker : pc[v] # "idle" /\ conn[v] = c

Begin(w, k, c, ts, there) ==
    /\ pc[w] = "idle"
    /\ Goto(w, there)
    /\ kind' = [kind EXCEPT ![w] = k]
    /\ conn' = [conn EXCEPT ![w] = c]
    /\ asked' = [asked EXCEPT ![w] = ts]
    /\ UNCHANGED <<hub, link, up, need>>

OnReceive(w, c, k, ts) ==
    /\ received < MaxRequests /\ received' = received + 1
    /\ c \notin closed /\ ~Handling(c)
    /\ Begin(w, k, c, ts, "find")
    /\ UNCHANGED closed

(* The conn.closed callback, after the last frame of the connection.       *)
ConnClosed(w, c) ==
    /\ c \notin closed /\ ~Handling(c)
    /\ closed' = closed \cup {c}
    /\ Begin(w, "closed", c, {}, "apply")
    /\ UNCHANGED received

-----------------------------------------------------------------------------
(* maybeResubscribeUpstream: a parent that is not the one told last is     *)
(* told every topic that is wanted, once it has a nodeID.                  *)

ResubscribeFrame == UNCHANGED <<closed, parent, named, lives, work, received>>

ResubscribeFind(w) ==
    /\ pc[w] = "find"
    /\ up' = [up EXCEPT ![w] = parent]
    /\ Goto(w, IF parent = 0 THEN "clear" ELSE IF named THEN "compare" ELSE "apply")
    /\ UNCHANGED <<hub, told, need>>
    /\ ResubscribeFrame

ResubscribeClear(w) ==
    /\ pc[w] = "clear"
    /\ seenParent' = 0
    /\ Goto(w, "apply")
    /\ UNCHANGED <<topicSubs, connSubs, active, told, up, need>>
    /\ ResubscribeFrame

(* Mutant: any parent told before will do.                                 *)
CompareAnyParent(w) ==
    /\ pc[w] = "compare"
    /\ Goto(w, IF seenParent # 0 THEN "apply" ELSE "gather")
    /\ UNCHANGED <<hub, told, up, need>>
    /\ ResubscribeFrame

ResubscribeCompare(w) ==
    /\ pc[w] = "compare"
    /\ Goto(w, IF up[w] = seenParent THEN "apply" ELSE "gather")
    /\ UNCHANGED <<hub, told, up, need>>
    /\ ResubscribeFrame

(* Mutant: the topics marked active are sent, not the wanted ones.         *)
GatherActive(w) ==
    /\ pc[w] = "gather"
    /\ need' = [need EXCEPT ![w] = active]
    /\ Goto(w, IF active = {} THEN "note" ELSE "resend")
    /\ UNCHANGED <<hub, told, up>>
    /\ ResubscribeFrame

(* snapshotActiveTopics.                                                   *)
ResubscribeGather(w) ==
    /\ pc[w] = "gather"
    /\ need' = [need EXCEPT ![w] = Wanted]
    /\ Goto(w, IF Wanted = {} THEN "note" ELSE "resend")
    /\ UNCHANGED <<hub, told, up>>
    /\ ResubscribeFrame

ResubscribeSend(w) ==
    /\ pc[w] = "resend"
    /\ \/ /\ Sent(w, told \cup need[w])
          /\ Goto(w, "note")
          /\ UNCHANGED need
       \/ /\ MayFail(w)
          /\ Goto(w, "apply")
          /\ need' = [need EXCEPT ![w] = {}]
          /\ UNCHANGED told
    /\ UNCHANGED <<hub, up>>
    /\ ResubscribeFrame

ResubscribeNote(w) ==
    /\ pc[w] = "note"
    /\ seenParent' = up[w]
    /\ active' = active \cup need[w]
    /\ need' = [need EXCEPT ![w] = {}]
    /\ Goto(w, "apply")
    /\ UNCHANGED <<topicSubs, connSubs, told, up>>
    /\ ResubscribeFrame

-----------------------------------------------------------------------------
(* The request itself.                                                     *)

ApplyFrame == UNCHANGED <<seenParent, closed, link, received>>

(* The worker tells the parent about the topics, if there are any.         *)
ThenTell(w, topics) ==
    IF topics = {}
    THEN Done(w)
    ELSE /\ Goto(w, "up")
         /\ need' = [need EXCEPT ![w] = topics]
         /\ UNCHANGED <<work, up>>

(* addSubscriptions: topics wanted for the first time are marked and sent. *)
AddSubscriptions(w) ==
    /\ pc[w] = "apply" /\ kind[w] = "subscribe"
    /\ LET c     == conn[w]
           new   == asked[w] \ connSubs[c]
           first == {t \in new : topicSubs[t] = {} /\ t \notin active}
       IN  /\ connSubs' = [connSubs EXCEPT ![c] = connSubs[c] \cup new]
           /\ topicSubs' = [t \in Topic |-> IF t \in new THEN topicSubs[t] \cup {c}
                                            ELSE topicSubs[t]]
           /\ active' = active \cup first
           /\ ThenTell(w, first)
    /\ ApplyFrame

(* Connection c no longer wants the topics; those nobody wants any more    *)
(* are unmarked and the parent is told.                                    *)
Drop(w, c, topics) ==
    LET gone == topics \cap connSubs[c]
        last == {t \in gone : topicSubs[t] = {c} /\ t \in active}
    IN  /\ connSubs' = [connSubs EXCEPT ![c] = connSubs[c] \ gone]
        /\ topicSubs' = [t \in Topic |-> IF t \in gone THEN topicSubs[t] \ {c}
                                         ELSE topicSubs[t]]
        /\ active' = active \ last
        /\ ThenTell(w, last)

RemoveSubscriptions(w) ==
    /\ pc[w] = "apply" /\ kind[w] = "unsubscribe"
    /\ Drop(w, conn[w], asked[w])
    /\ ApplyFrame

(* Mutant: the index of topics is forgotten.                               *)
RemoveConnIndexOnly(w) ==
    /\ pc[w] = "apply" /\ kind[w] = "closed"
    /\ connSubs' = [connSubs EXCEPT ![conn[w]] = {}]
    /\ Done(w)
    /\ UNCHANGED <<topicSubs, active>>
    /\ ApplyFrame

RemoveConnAll(w) ==
    /\ pc[w] = "apply" /\ kind[w] = "closed"
    /\ Drop(w, conn[w], connSubs[conn[w]])
    /\ ApplyFrame

(* publish and list_subs, or a frame without a valid action.               *)
HandleOther(w) ==
    /\ pc[w] = "apply" /\ kind[w] = "other"
    /\ Done(w)
    /\ UNCHANGED <<topicSubs, connSubs, active>>
    /\ ApplyFrame

-----------------------------------------------------------------------------
(* maybeSubscribeUpstream and maybeUnsubscribeUpstream: a subscription     *)
(* that could not be sent is unmarked again, an unsubscription is not.     *)

UpFind(w) ==
    /\ pc[w] = "up"
    /\ \/ /\ parent # 0
          /\ up' = [up EXCEPT ![w] = parent]
          /\ Goto(w, "send")
          /\ UNCHANGED <<work, need>>
       \/ /\ parent = 0 /\ kind[w] = "subscribe"
          /\ Goto(w, "rollback")
          /\ UNCHANGED <<work, up, need>>
       \/ /\ parent = 0 /\ kind[w] # "subscribe"
          /\ Done(w)
    /\ UNCHANGED <<hub, closed, link, received>>

UpSend(w) ==
    /\ pc[w] = "send"
    /\ \/ /\ Sent(w, IF kind[w] = "subscribe" THEN told \cup need[w]
                     ELSE told \ need[w])
          /\ Done(w)
       \/ /\ MayFail(w) /\ kind[w] = "subscribe"
          /\ Goto(w, "rollback")
          /\ UNCHANGED <<told, work, up, need>>
       \/ /\ MayFail(w) /\ kind[w] # "subscribe"
          /\ Done(w)
          /\ UNCHANGED told
    /\ UNCHANGED <<hub, closed, parent, named, lives, received>>

RollbackUpstreamMarks(w) ==
    /\ pc[w] = "rollback"
    /\ active' = active \ need[w]
    /\ Done(w)
    /\ UNCHANGED <<topicSubs, connSubs, seenParent, closed, link, received>>

-----------------------------------------------------------------------------

Resubscribe(w) ==
    \/ ResubscribeFind(w) \/ ResubscribeClear(w) \/ ResubscribeCompare(w)
    \/ ResubscribeGather(w) \/ ResubscribeSend(w) \/ ResubscribeNote(w)

Apply(w) ==
    \/ AddSubscriptions(w) \/ RemoveSubscriptions(w) \/ RemoveConnAll(w)
    \/ HandleOther(w)

Tell(w) == UpFind(w) \/ UpSend(w) \/ RollbackUpstreamMarks(w)

Step(w) == Resubscribe(w) \/ Apply(w) \/ Tell(w)

Next ==
    \/ ParentUp \/ ParentNamed \/ ParentDown
    \/ \E w \in Worker : \E c \in Conn :
          \/ ConnClosed(w, c)
          \/ \E k \in {"subscribe", "unsubscribe"}, ts \in SUBSET Topic \ {{}} :
                OnReceive(w, c, k, ts)
    \/ \E w \in Worker, c \in Conn \cup {NoConn} : OnReceive(w, c, "other", {})
    \/ \E w \in Worker : Step(w)

(* A worker that has begun goes on: no step of it waits for another.       *)
Spec == Init /\ [][Next]_vars /\ \A w \in Worker : WF_vars(Step(w))

-----------------------------------------------------------------------------
(* The index by topic and the index by connection say the same, and a      *)
(* connection that is closed is in neither, once removeConnAll has run.    *)
IndexesAgree ==
    /\ \A c \in Conn, t \in Topic : c \in topicSubs[t] <=> t \in connSubs[c]
    /\ \A c \in closed : connSubs[c] = {} \/ Handling(c)

(* Nothing is under way, and the parent is the one told last.              *)
Settled ==
    /\ \A w \in Worker : pc[w] = "idle"
    /\ parent # 0 /\ seenParent = parent

(* Then the parent has exactly the topics on record that are wanted below: *)
(* it sends what is wanted, and nothing that is not.                       *)
TellsParentExactly == Settled => told = Wanted

(* After a parent has come and logged in, the next frame to arrive, of     *)
(* whatever kind, makes the hub tell it everything, unless it leaves       *)
(* again before.                                                           *)
ReconnectRepairs ==
    \A w \in Worker, p \in 1..MaxParents :
        (pc[w] = "find" /\ parent = p /\ named) ~> (parent # p \/ seenParent = p)
=============================================================================
