------------------------------ MODULE VarStore ------------------------------
(***************************************************************************)
(* The varstore sub-protocol (varstore/varstore.go): ONE variable, owned   *)
(* by a client, in a tree of hubs.  A hub whose connection manager knows a *)
(* route to the owner is an authority for the variable: it answers and     *)
(* applies requests itself.  The others pass them to their parent and keep *)
(* who waits for the answer.  Writes are copied up the tree (up_set,       *)
(* up_revoke), down to the owner (notify_set, notify_revoke) and to        *)
(* subscribers (var_changed, var_deleted); every hub on the way keeps the  *)
(* last record that came by.                                               *)
(*                                                                         *)
(* A connection is a pair of FIFO queues, and a hub handles one frame in   *)
(* one step.  assist_get is get between two hubs, and so on.  Clients and  *)
(* the connection manager are external; a client sends to its own hub.     *)
(***************************************************************************)
EXTENDS Naturals, Sequences, FiniteSets, SequencesExt

CONSTANTS
    Hub,
    Parent,      \* Parent[h]: the hub h is connected to, or None
    Client,
    HubOf,       \* the hub a client is connected to
    Owner,       \* the client that owns the variable
    Route,       \* Route[h][c]: the peer of h towards c, None outside h's subtree
    Workload,    \* what clients and flows do and may do: records
                 \*  asks:    the requests of clients, records [from, act, vis]
                 \*  flows:   hubs on which a flow calls varstore::set and ::revoke
                 \*  late:    hubs that do not know the owner before its first up_set
                 \*  trusted: clients with the permissions var.private_set,
                 \*           .subscribe and .revoke
                 \*  fails:   the injected persistence may return an error
                 \*  most, writes, leaves: bounds on requests, on writes and on
                 \*           connections that close
    None,
    MaxRequests  \* bound: requests of clients and capability calls

Peer == Hub \cup Client
Child(h) == {k \in Hub : Parent[k] = h}
Link == {<<c, HubOf[c]>> : c \in Client} \cup {<<HubOf[c], c>> : c \in Client}
        \cup {<<h, Parent[h]>> : h \in {k \in Hub : Parent[k] # None}}
        \cup {<<Parent[h], h>> : h \in {k \in Hub : Parent[k] # None}}
Neighbour(h) == {p \in Peer : <<p, h>> \in Link}

ASSUME TreeAssumption ==
    /\ Hub \cap Client = {} /\ None \notin Peer
    /\ Parent \in [Hub -> Hub \cup {None}]
    /\ HubOf \in [Client -> Hub]
    /\ Owner \in Client
    /\ Route \in [Hub -> [Client -> Peer \cup {None}]]
    /\ MaxRequests \in Nat
    /\ \A w \in Workload :
          /\ w.flows \subseteq Hub /\ w.late \subseteq Hub \ {HubOf[Owner]}
          /\ w.trusted \subseteq Client /\ w.fails \in BOOLEAN
          /\ {w.most, w.writes} \subseteq 0..MaxRequests /\ w.leaves \in Nat

Visibility == {"public", "private", ""}

VARIABLES
    work,     \* what this behaviour asks for, of Workload
    rec,      \* records: what hub h holds of the variable, or None
    via,      \* the connection manager's route of h to the owner, or None
    pending,  \* pending: waiters of get and list that h has passed up
    writing,  \* writing: waiters of set and revoke, by the msg_id passed up
    pendSub,  \* pendingSubs: subscribers waiting for the parent's answer
    subs,     \* subscriptions: pairs <<subscriber, connection>>
    connSubs, \* connSubs: the connections the index knows to carry one
    upSub,    \* upstreamSubs
    net,      \* the frames on each connection
    closed,   \* the pairs <<hub, peer>> whose connection is gone
    asked,    \* the requests made: msg_id -> [from, act, val]
    open,     \* msg_ids not answered yet
    writeId,  \* writeMsgSeq
    version,  \* every write carries a value of its own
    seen,     \* client: the newest value it was sent, by any frame
    subd,     \* client: it was told that it is subscribed
    owed      \* history: the newest value a subscribed client must hear of

hubs == <<rec, via, pending, writing, pendSub, subs, connSubs, upSub>>
clients == <<asked, open, version, seen, subd>>
vars == <<work, rec, via, pending, writing, pendSub, subs, connSubs, upSub,
          net, closed, asked, open, writeId, version, seen, subd, owed>>

Value == 0..MaxRequests            \* 0: the empty string
Record == [val : Value, vis : Visibility]
MsgId == 0..MaxRequests
WriteId == Nat
Act == {"set", "get", "list", "revoke", "subscribe", "unsubscribe"}
Resp == {"set_resp", "get_resp", "list_resp", "revoke_resp", "subscribe_resp"}
Notice == {"up_set", "up_revoke", "notify_set", "notify_revoke",
           "var_changed", "var_deleted"}
Waiter == [conn : Peer, src : Peer, mid : Nat]

(* A frame: action, SourceID, TargetID, MsgID, and of the payload the       *)
(* value, the visibility, the code and whether it names the variable.       *)
Frame == [act : Act \cup Resp \cup Notice, src : Peer, tgt : Peer \cup {None},
          mid : Nat, val : Value, vis : Visibility, code : 0..5,
          named : BOOLEAN]

TypeOK ==
    /\ work \in Workload
    /\ rec \in [Hub -> Record \cup {None}]
    /\ via \in [Hub -> Peer \cup {None}]
    /\ pending \in [Hub -> [{"get", "list"} -> Seq(Waiter)]]
    /\ \A h \in Hub : writing[h] \subseteq [up : WriteId, act : Act, w : Waiter]
    /\ pendSub \in [Hub -> Seq(Waiter)]
    /\ subs \in [Hub -> SUBSET (Peer \X Peer)]
    /\ connSubs \in [Hub -> SUBSET Peer]
    /\ upSub \in [Hub -> BOOLEAN]
    /\ \A l \in Link : \A i \in 1..Len(net[l]) : net[l][i] \in Frame
    /\ closed \subseteq Hub \X Peer
    /\ open \subseteq MsgId
    /\ version \in Value
    /\ seen \in [Client -> Value]
    /\ subd \in [Client -> BOOLEAN]
    /\ owed \in [Client -> Value]

Init ==
    /\ work \in Workload
    /\ rec = [h \in Hub |-> None]
    /\ via = [h \in Hub |-> IF h \in work.late THEN None ELSE Route[h][Owner]]
    /\ pending = [h \in Hub |-> [k \in {"get", "list"} |-> <<>>]]
    /\ writing = [h \in Hub |-> {}]
    /\ pendSub = [h \in Hub |-> <<>>]
    /\ subs = [h \in Hub |-> {}]
    /\ connSubs = [h \in Hub |-> {}]
    /\ upSub = [h \in Hub |-> FALSE]
    /\ net = [l \in Link |-> <<>>]
    /\ closed = {}
    /\ asked = <<>> /\ open = {} /\ writeId = 0 /\ version = 0
    /\ seen = [c \in Client |-> 0]
    /\ subd = [c \in Client |-> FALSE]
    /\ owed = [c \in Client |-> 0]

-----------------------------------------------------------------------------
(* Frames.                                                                  *)

Connected(h, p) == <<h, p>> \notin closed

(* findParent and ConnManager.GetByNode.                                    *)
Up(h) == IF Parent[h] # None /\ Connected(h, Parent[h]) THEN Parent[h] ELSE None

Towards(h, c) ==
    LET hop == IF c = Owner THEN via[h] ELSE IF c \in Client THEN Route[h][c]
               ELSE None
    IN  IF hop # None /\ Connected(h, hop) THEN hop ELSE None

(* ownerInSubtree.                                                          *)
InSubtree(h) == Towards(h, Owner) # None

Msg(act, src, tgt, mid, val, vis, code) ==
    [act |-> act, src |-> src, tgt |-> tgt, mid |-> mid, val |-> val,
     vis |-> vis, code |-> code, named |-> TRUE]

Out(to, m) == [to |-> to, m |-> m]

(* One frame if there is somewhere to send it to.                           *)
SendTo(to, m) == IF to = None THEN <<>> ELSE <<Out(to, m)>>

(* Of the frames h sends, those for link l; none on a connection that is    *)
(* closed, where Send fails.                                                *)
OnLink(h, l, outs) ==
    SelectSeq(outs, LAMBDA o : <<h, o.to>> = l /\ l \notin closed)

(* Hub h takes the first frame from peer p and sends the frames in outs.    *)
Handled(h, p, outs) ==
    net' = [l \in Link |->
        LET rest == IF l = <<p, h>> THEN Tail(net[l]) ELSE net[l]
            mine == OnLink(h, l, outs)
        IN  rest \o [i \in 1..Len(mine) |-> mine[i].m]]

(* h sends without having taken a frame.                                    *)
Emitted(h, outs) ==
    net' = [l \in Link |->
        LET mine == OnLink(h, l, outs)
        IN  net[l] \o [i \in 1..Len(mine) |-> mine[i].m]]

(* A client only notes what it is sent, so nothing depends on when it does: *)
(* it does so before anything else happens.                                 *)
ClientsIdle == \A c \in Client : net[<<HubOf[c], c>>] = <<>>

Takes(h, p, act) ==
    /\ net[<<p, h>>] # <<>>
    /\ Head(net[<<p, h>>]).act = act
    /\ ClientsIdle

Frm(h, p) == Head(net[<<p, h>>])

(* sendResp: the answer goes back over the connection, with the requester's *)
(* SourceID and MsgID.                                                      *)
Answer(w, act, val, vis, code) ==
    <<Out(w.conn, Msg(act, w.src, w.conn, w.mid, val, vis, code))>>

Asker(p, m) == [conn |-> p, src |-> m.src, mid |-> m.mid]

(* The answer for every waiter, in order.                                   *)
Answers(ws, act, val, vis, code) ==
    FlattenSeq([i \in 1..Len(ws) |-> Answer(ws[i], act, val, vis, code)])

-----------------------------------------------------------------------------
(* Propagation to subscribers.                                              *)

(* propagateChange: a frame per subscription, addressed to the subscriber.  *)
ChangeMsgs(h, r, skip) ==
    LET q == SetToSeq({s \in subs[h] : s[1] \notin skip \cup {Owner}})
    IN  [i \in 1..Len(q) |->
           Out(q[i][2], Msg("var_changed", h, q[i][1], 0, r.val, r.vis, 1))]

Kept(h, keep) == {s \in subs[h] : s[1] = keep}

(* propagateDelete: tell the subscribers, drop all but keep's subscription, *)
(* and let go of the parent's if none is left.                              *)
DeleteMsgs(h, keep, skip) ==
    LET q == SetToSeq({s \in subs[h] : s[1] \notin skip \cup {keep}})
    IN  [i \in 1..Len(q) |->
           Out(q[i][2], Msg("var_deleted", h, q[i][1], 0, 0, "", 1))]
        \o (IF upSub[h] /\ Kept(h, keep) = {}
            THEN SendTo(Up(h), Msg("unsubscribe", h, Up(h), 0, 0, "", 0))
            ELSE <<>>)

Purge(h, keep) ==
    /\ subs' = [subs EXCEPT ![h] = Kept(h, keep)]
    /\ connSubs' = [connSubs EXCEPT ![h] =
                      @ \ {s[2] : s \in subs[h] \ Kept(h, keep)}]
    /\ upSub' = [upSub EXCEPT ![h] = @ /\ Kept(h, keep) # {}]

KeepSubs == UNCHANGED <<subs, connSubs, upSub>>

Public(r) == r # None /\ r.vis = "public"

(* A new record of h: what its subscribers are sent, and what is left of    *)
(* the subscriptions.  A variable that stops being public counts as deleted *)
(* for everyone but its owner (handleVisibilityDowngrade).                  *)
SaveMsgs(h, r, actor, skip) ==
    IF Public(rec[h]) /\ ~Public(r)
    THEN DeleteMsgs(h, Owner, {actor})
    ELSE ChangeMsgs(h, r, skip)

Save(h, r) ==
    /\ rec' = [rec EXCEPT ![h] = r]
    /\ IF Public(rec[h]) /\ ~Public(r) THEN Purge(h, Owner) ELSE KeepSubs

(* saveRecord alone, in the handlers of answers.                            *)
Cache(h, m) ==
    rec' = IF m.code = 1 THEN [rec EXCEPT ![h] = [val |-> m.val, vis |-> m.vis]]
           ELSE rec

-----------------------------------------------------------------------------
(* Requests at a hub.                                                       *)

(* handleSet and handleRevoke without authority: the hub passes the write   *)
(* up under a msg_id of its own and keeps the waiter under that msg_id.     *)
PassWriteUp(h, p, m) ==
    /\ Up(h) # None
    /\ writeId' = writeId + 1
    /\ writing' = [writing EXCEPT ![h] =
                     @ \cup {[up |-> writeId + 1, act |-> m.act,
                              w |-> Asker(p, m)]}]
    /\ Handled(h, p, SendTo(Up(h), [m EXCEPT !.tgt = Up(h),
                                            !.mid = writeId + 1]))
    /\ UNCHANGED <<rec, via, pending, pendSub, subs, connSubs, upSub>>

(* A request answered at once, with nothing changed.                        *)
Refuse(h, p, m, act, code) ==
    /\ Handled(h, p, Answer(Asker(p, m), act, 0, "", code))
    /\ UNCHANGED <<hubs, writeId>>

NextVis(h, m) == IF m.vis # "" THEN m.vis
                 ELSE IF rec[h] # None THEN rec[h].vis ELSE ""

MaySet(h, m) ==
    \/ m.src = Owner
    \/ rec[h] # None /\ (NextVis(h, m) = "public" \/ m.src \in work.trusted)

(* The record a set leaves: a visibility not given is the one it had, or    *)
(* private.                                                                 *)
NewRecord(h, m) ==
    [val |-> m.val, vis |-> IF NextVis(h, m) = "" THEN "private"
                            ELSE NextVis(h, m)]

NotifyOwner(h, act, src, val, vis) ==
    IF src = Owner THEN <<>>
    ELSE SendTo(Towards(h, Owner), Msg(act, src, Owner, 0, val, vis, 1))

HandleSet(h, p) ==
    /\ Takes(h, p, "set")
    /\ LET m == Frm(h, p)
           r == NewRecord(h, m)
       IN  \/ ~InSubtree(h) /\ PassWriteUp(h, p, m)
           \/ ~InSubtree(h) /\ Up(h) = None /\ Refuse(h, p, m, "set_resp", 4)
           \/ InSubtree(h) /\ ~MaySet(h, m) /\ Refuse(h, p, m, "set_resp", 3)
           \/ /\ work.fails /\ InSubtree(h) /\ MaySet(h, m)
              /\ Refuse(h, p, m, "set_resp", 5)
           \/ /\ InSubtree(h) /\ MaySet(h, m)
              /\ Save(h, r)
              /\ Handled(h, p,
                    SaveMsgs(h, r, m.src, {m.src})
                    \o SendTo(Up(h), Msg("up_set", m.src, Up(h), 0, m.val, m.vis, 0))
                    \o Answer(Asker(p, m), "set_resp", r.val, r.vis, 1)
                    \o NotifyOwner(h, "notify_set", m.src, r.val, r.vis))
              /\ UNCHANGED <<via, pending, writing, pendSub, writeId>>
    /\ owed' = [c \in Client |->
                  IF InSubtree(h) /\ rec'[h] # rec[h] /\ subd[c] /\ c # Owner
                     /\ c # Frm(h, p).src
                  THEN Frm(h, p).val ELSE owed[c]]
    /\ UNCHANGED <<closed, clients>>

Readable(h, m) == Public(rec[h]) \/ m.src = Owner \/ m.src \in work.trusted

(* Queue the waiter and ask the parent; forward gives the frame no msg_id.  *)
PassQueryUp(h, p, m) ==
    /\ Up(h) # None
    /\ pending' = [pending EXCEPT ![h][m.act] = Append(@, Asker(p, m))]
    /\ Handled(h, p, SendTo(Up(h), [m EXCEPT !.tgt = Up(h), !.mid = 0]))
    /\ UNCHANGED <<rec, via, writing, pendSub, subs, connSubs, upSub, writeId>>

(* Mutant: a record is answered from, authority or not.                     *)
GetsHereCached(h) == rec[h] # None

(* handleGet answers from its record only as an authority.                  *)
GetsHere(h) == InSubtree(h) /\ rec[h] # None

(* The refusal of a private variable carries neither owner nor name.        *)
HandleGet(h, p) ==
    /\ Takes(h, p, "get")
    /\ LET m == Frm(h, p)
       IN  \/ /\ GetsHere(h) /\ Readable(h, m)
              /\ Handled(h, p, Answer(Asker(p, m), "get_resp",
                                      rec[h].val, rec[h].vis, 1))
              /\ UNCHANGED <<hubs, writeId>>
           \/ /\ GetsHere(h) /\ ~Readable(h, m)
              /\ Handled(h, p,
                    <<Out(p, [Msg("get_resp", m.src, p, m.mid, 0, "", 3)
                              EXCEPT !.named = FALSE])>>)
              /\ UNCHANGED <<hubs, writeId>>
           \/ ~GetsHere(h) /\ PassQueryUp(h, p, m)
           \/ ~GetsHere(h) /\ Up(h) = None /\ Refuse(h, p, m, "get_resp", 4)
    /\ UNCHANGED <<closed, clients, owed>>

Listed(h, m) == rec[h] # None /\ Readable(h, m)

HandleList(h, p) ==
    /\ Takes(h, p, "list")
    /\ LET m == Frm(h, p)
       IN  \/ /\ \/ InSubtree(h) /\ Listed(h, m)
                 \/ Up(h) = None
              /\ Handled(h, p, Answer(Asker(p, m), "list_resp", 0, "", 1))
              /\ UNCHANGED <<hubs, writeId>>
           \/ /\ ~(InSubtree(h) /\ Listed(h, m))
              /\ PassQueryUp(h, p, m)
    /\ UNCHANGED <<closed, clients, owed>>

MayRevoke(m) == m.src = Owner \/ m.src \in work.trusted

(* handleRevoke asks further up also when an authority has no record.       *)
HandleRevoke(h, p) ==
    /\ Takes(h, p, "revoke")
    /\ LET m == Frm(h, p)
           local == InSubtree(h) /\ MayRevoke(m) /\ rec[h] # None
           further == ~InSubtree(h) \/ (MayRevoke(m) /\ rec[h] = None)
       IN  \/ further /\ PassWriteUp(h, p, m)
           \/ further /\ Up(h) = None /\ Refuse(h, p, m, "revoke_resp", 4)
           \/ /\ InSubtree(h) /\ ~MayRevoke(m)
              /\ Refuse(h, p, m, "revoke_resp", 3)
           \/ work.fails /\ local /\ Refuse(h, p, m, "revoke_resp", 5)
           \/ /\ local
              /\ rec' = [rec EXCEPT ![h] = None]
              /\ Purge(h, None)
              /\ Handled(h, p,
                    DeleteMsgs(h, None, {m.src, Owner})
                    \o SendTo(Up(h), Msg("up_revoke", m.src, Up(h), 0, 0, "", 0))
                    \o Answer(Asker(p, m), "revoke_resp", 0, "", 1)
                    \o NotifyOwner(h, "notify_revoke", m.src, 0, ""))
              /\ UNCHANGED <<via, pending, writing, pendSub, writeId>>
    /\ UNCHANGED <<closed, clients, owed>>

MaySubscribe(h, m) == Public(rec[h]) \/ m.src = Owner \/ m.src \in work.trusted

(* handleSubscribe: only the first of several waiting subscribers is passed *)
(* up.                                                                      *)
HandleSubscribe(h, p) ==
    /\ Takes(h, p, "subscribe")
    /\ LET m == Frm(h, p)
           here == InSubtree(h) /\ rec[h] # None
       IN  \/ /\ here /\ MaySubscribe(h, m)
              /\ subs' = [subs EXCEPT ![h] = @ \cup {<<m.src, p>>}]
              /\ connSubs' = [connSubs EXCEPT ![h] = @ \cup {p}]
              /\ Handled(h, p, Answer(Asker(p, m), "subscribe_resp",
                                      0, rec[h].vis, 1))
              /\ UNCHANGED <<rec, via, pending, writing, pendSub, upSub>>
           \/ /\ here /\ ~MaySubscribe(h, m)
              /\ Refuse(h, p, m, "subscribe_resp", 3)
           \/ /\ ~here /\ Up(h) # None
              /\ pendSub' = [pendSub EXCEPT ![h] = Append(@, Asker(p, m))]
              /\ Handled(h, p,
                    IF pendSub[h] # <<>> THEN <<>>
                    ELSE SendTo(Up(h), [m EXCEPT !.tgt = Up(h), !.mid = 0]))
              /\ UNCHANGED <<rec, via, pending, writing, subs, connSubs, upSub>>
           \/ ~here /\ Up(h) = None /\ Refuse(h, p, m, "subscribe_resp", 4)
    /\ UNCHANGED <<closed, clients, writeId, owed>>

(* handleUnsubscribe: the parent hears of it when nobody is left here.  A   *)
(* frame from another hub is not answered.                                  *)
HandleUnsubscribe(h, p) ==
    /\ Takes(h, p, "unsubscribe")
    /\ LET m == Frm(h, p)
           left == subs[h] \ {<<m.src, p>>}
       IN  /\ subs' = [subs EXCEPT ![h] = left]
           /\ connSubs' = [connSubs EXCEPT ![h] = @ \ {p}]
           /\ upSub' = [upSub EXCEPT ![h] = @ /\ left # {}]
           /\ Handled(h, p,
                 (IF upSub[h] /\ left = {}
                  THEN SendTo(Up(h), [m EXCEPT !.tgt = Up(h), !.mid = 0])
                  ELSE <<>>)
                 \o (IF p \in Client
                     THEN Answer(Asker(p, m), "subscribe_resp", 0, "", 1)
                     ELSE <<>>))
    /\ UNCHANGED <<rec, via, pending, writing, pendSub, closed, clients,
                   writeId, owed>>

-----------------------------------------------------------------------------
(* Answers from the parent.                                                 *)

(* Mutant: an answer serves every write that waits.                         *)
WritersOfAny(h, m) == writing[h]

(* popPendingWrite.                                                         *)
WritersOf(h, m) == {x \in writing[h] : x.up = m.mid}

HandleSetResp(h, p) ==
    /\ Takes(h, p, "set_resp")
    /\ LET m == Frm(h, p)
           ws == SetToSeq({x.w : x \in WritersOf(h, m)})
       IN  /\ writing' = [writing EXCEPT ![h] = @ \ WritersOf(h, m)]
           /\ Cache(h, m)
           /\ Handled(h, p, Answers(ws, "set_resp", m.val, m.vis, m.code))
    /\ UNCHANGED <<via, pending, pendSub, subs, connSubs, upSub, closed,
                   clients, writeId, owed>>

HandleRevokeResp(h, p) ==
    /\ Takes(h, p, "revoke_resp")
    /\ LET m == Frm(h, p)
           ws == SetToSeq({x.w : x \in WritersOf(h, m)})
       IN  /\ writing' = [writing EXCEPT ![h] = @ \ WritersOf(h, m)]
           /\ \/ /\ m.code = 1
                 /\ rec' = [rec EXCEPT ![h] = None]
                 /\ Purge(h, None)
              \/ m.code # 1 /\ UNCHANGED rec /\ KeepSubs
           /\ Handled(h, p,
                 (IF m.code = 1 THEN DeleteMsgs(h, None, {}) ELSE <<>>)
                 \o Answers(ws, "revoke_resp", 0, "", m.code))
    /\ UNCHANGED <<via, pending, pendSub, closed, clients, writeId, owed>>

(* Mutant: the answer is for the first who waits.                           *)
PopPendingFirst(h, kind) ==
    IF pending[h][kind] = <<>> THEN <<>> ELSE <<Head(pending[h][kind])>>

(* popPending: everyone who waits.                                          *)
PopPending(h, kind) == pending[h][kind]

(* handleGetResp and handleListResp: the answer goes to everyone who waits  *)
(* for this variable, and a get also leaves its record in the cache.        *)
HandleQueryResp(h, p, kind, act) ==
    /\ Takes(h, p, act)
    /\ LET m == Frm(h, p)
           ws == IF m.named THEN PopPending(h, kind) ELSE <<>>
       IN  /\ pending' = IF m.named THEN [pending EXCEPT ![h][kind] = <<>>]
                         ELSE pending
           /\ IF kind = "get" THEN Cache(h, m) ELSE UNCHANGED rec
           /\ Handled(h, p, Answers(ws, act, m.val, m.vis, m.code))
    /\ UNCHANGED <<via, writing, pendSub, subs, connSubs, upSub, closed,
                   clients, writeId, owed>>

HandleGetResp(h, p) == HandleQueryResp(h, p, "get", "get_resp")
HandleListResp(h, p) == HandleQueryResp(h, p, "list", "list_resp")

(* Whether the parent's answer admits a waiting subscriber.                 *)
Admits(m, w) ==
    m.code = 1 /\ (m.vis = "public" \/ w.src = Owner \/ w.src \in work.trusted)

(* popPendingSubscribe: everyone who waits for this variable.               *)
PopPendingSubscribe(h) == pendSub[h]

(* handleSubscribeResp.  The answer has no value, and the record saved from *)
(* it has none either.                                                      *)
HandleSubscribeResp(h, p) ==
    /\ Takes(h, p, "subscribe_resp")
    /\ LET m == Frm(h, p)
           ws == PopPendingSubscribe(h)
           adm == {w \in ToSet(ws) : Admits(m, w)}
       IN  /\ pendSub' = [pendSub EXCEPT ![h] = <<>>]
           /\ Cache(h, m)
           /\ upSub' = [upSub EXCEPT ![h] =
                          IF m.code = 1 THEN Up(h) # None \/ @
                          ELSE @ /\ m.code # 4]
           /\ subs' = [subs EXCEPT ![h] = @ \cup {<<w.src, w.conn>> : w \in adm}]
           /\ connSubs' = [connSubs EXCEPT ![h] = @ \cup {w.conn : w \in adm}]
           /\ Handled(h, p,
                 FlattenSeq([i \in 1..Len(ws) |->
                    IF Admits(m, ws[i])
                    THEN Answer(ws[i], "subscribe_resp", 0, m.vis, 1)
                    ELSE Answer(ws[i], "subscribe_resp", 0, "",
                                IF m.code = 1 THEN 3 ELSE m.code)]))
    /\ UNCHANGED <<via, pending, writing, closed, clients, writeId, owed>>

-----------------------------------------------------------------------------
(* Copies of a write.                                                       *)

(* indexOwnerRoute keeps a route that is there.                             *)
IndexOwner(h, p) ==
    via' = IF Towards(h, Owner) = None THEN [via EXCEPT ![h] = p] ELSE via

(* Mutant: the route is not learned.                                        *)
HandleUpSetUnindexed(h, p) ==
    /\ Takes(h, p, "up_set")
    /\ LET m == Frm(h, p)
           r == [val |-> m.val, vis |-> m.vis]
       IN  /\ UNCHANGED via
           /\ Save(h, r)
           /\ Handled(h, p,
                 SaveMsgs(h, r, m.src, {Owner, p})
                 \o SendTo(Up(h), [m EXCEPT !.tgt = Up(h)]))
    /\ UNCHANGED <<pending, writing, pendSub, closed, clients, writeId, owed>>

HandleUpSet(h, p) ==
    /\ Takes(h, p, "up_set")
    /\ LET m == Frm(h, p)
           r == [val |-> m.val, vis |-> m.vis]
       IN  /\ IndexOwner(h, p)
           /\ Save(h, r)
           /\ Handled(h, p,
                 SaveMsgs(h, r, m.src, {Owner, p})
                 \o SendTo(Up(h), [m EXCEPT !.tgt = Up(h)]))
    /\ UNCHANGED <<pending, writing, pendSub, closed, clients, writeId, owed>>

(* handleDeletion for a frame: the record and the subscriptions go.  The    *)
(* frame is passed on before the subscribers are told, or after.            *)
Erase(h, p, skip, before, after) ==
    /\ rec' = [rec EXCEPT ![h] = None]
    /\ Purge(h, None)
    /\ Handled(h, p, before \o DeleteMsgs(h, None, skip) \o after)
    /\ UNCHANGED <<via, pending, writing, pendSub, closed, clients, writeId,
                   owed>>

HandleUpRevoke(h, p) ==
    /\ Takes(h, p, "up_revoke")
    /\ Erase(h, p, {p}, <<>>, SendTo(Up(h), [Frm(h, p) EXCEPT !.tgt = Up(h)]))

(* forwardCmdByHeaderTarget: a notice for someone else goes on towards its  *)
(* target, never back where it came from, and is handled here as well.      *)
Onward(h, p) ==
    LET m == Frm(h, p)
        hop == IF Towards(h, m.tgt) # None THEN Towards(h, m.tgt) ELSE Up(h)
    IN  IF m.tgt = h \/ hop = p THEN <<>> ELSE SendTo(hop, m)

HandleNotifySet(h, p) ==
    /\ Takes(h, p, "notify_set")
    /\ LET m == Frm(h, p)
           r == [val |-> m.val, vis |-> m.vis]
       IN  /\ Save(h, r)
           /\ Handled(h, p, Onward(h, p) \o SaveMsgs(h, r, m.src, {Owner, p}))
    /\ UNCHANGED <<via, pending, writing, pendSub, closed, clients, writeId,
                   owed>>

HandleNotifyRevoke(h, p) ==
    Takes(h, p, "notify_revoke") /\ Erase(h, p, {p}, Onward(h, p), <<>>)

(* Mutant: a hub that passes var_changed on does not look at it.            *)
HandleVarChangedForwards(h, p) ==
    /\ Takes(h, p, "var_changed")
    /\ Handled(h, p, Onward(h, p))
    /\ UNCHANGED <<hubs, closed, clients, writeId, owed>>

HandleVarChanged(h, p) ==
    /\ Takes(h, p, "var_changed")
    /\ LET m == Frm(h, p)
           r == [val |-> m.val, vis |-> m.vis]
       IN  /\ rec' = [rec EXCEPT ![h] = r]
           /\ Handled(h, p, Onward(h, p) \o ChangeMsgs(h, r, {m.src}))
    /\ UNCHANGED <<via, pending, writing, pendSub, subs, connSubs, upSub,
                   closed, clients, writeId, owed>>

HandleVarDeleted(h, p) ==
    /\ Takes(h, p, "var_deleted")
    /\ Erase(h, p, {Frm(h, p).src, Owner}, Onward(h, p), <<>>)

-----------------------------------------------------------------------------
(* varstore::set and varstore::revoke, called by a flow on hub h, which     *)
(* need no authority.  The hub is the actor.                                *)

CapabilitySet(h) ==
    /\ ClientsIdle /\ version < work.writes
    /\ \E vis \in Visibility :
          LET r == NewRecord(h, [val |-> version + 1, vis |-> vis])
          IN  /\ Save(h, r)
              /\ Emitted(h,
                    SaveMsgs(h, r, h, {h})
                    \o SendTo(Up(h), Msg("up_set", h, Up(h), 0, r.val, r.vis, 0))
                    \o NotifyOwner(h, "notify_set", h, r.val, r.vis))
    /\ version' = version + 1
    /\ owed' = [c \in Client |->
                  IF InSubtree(h) /\ subd[c] /\ c # Owner THEN version + 1
                  ELSE owed[c]]
    /\ UNCHANGED <<via, pending, writing, pendSub, closed, asked, open,
                   writeId, seen, subd>>

CapabilityRevoke(h) ==
    /\ ClientsIdle /\ rec[h] # None
    /\ rec' = [rec EXCEPT ![h] = None]
    /\ Purge(h, None)
    /\ Emitted(h,
          DeleteMsgs(h, None, {h, Owner})
          \o SendTo(Up(h), Msg("up_revoke", h, Up(h), 0, 0, "", 0))
          \o NotifyOwner(h, "notify_revoke", h, 0, ""))
    /\ UNCHANGED <<via, pending, writing, pendSub, closed, clients, writeId,
                   owed>>

-----------------------------------------------------------------------------
(* Connections.  The hub forgets the waiters and subscriptions of one that  *)
(* closes: removeConnPending, removeConnSubscriptions (those the index      *)
(* knows) and maybeUnsubscribeUpstream.                                     *)

Others(ws, p) == SelectSeq(ws, LAMBDA w : w.conn # p)

ConnClosed(h, p) ==
    LET left == IF p \in connSubs[h] THEN {s \in subs[h] : s[2] # p}
                ELSE subs[h]
    IN  /\ pending' = [pending EXCEPT ![h] =
                         [k \in {"get", "list"} |-> Others(pending[h][k], p)]]
        /\ writing' = [writing EXCEPT ![h] = {x \in @ : x.w.conn # p}]
        /\ pendSub' = [pendSub EXCEPT ![h] = Others(@, p)]
        /\ subs' = [subs EXCEPT ![h] = left]
        /\ connSubs' = [connSubs EXCEPT ![h] = @ \ {p}]
        /\ upSub' = [upSub EXCEPT ![h] =
                       @ /\ ~(p \in connSubs[h] /\ left = {})]
        /\ net' = [l \in Link |->
              IF l \in {<<h, p>>, <<p, h>>} THEN <<>>
              ELSE IF upSub[h] /\ p \in connSubs[h] /\ left = {}
                      /\ Up(h) # None /\ l = <<h, Up(h)>>
              THEN Append(net[l], Msg("unsubscribe", h, Up(h), 0, 0, "", 0))
              ELSE net[l]]

(* A client other than the owner goes away.                                 *)
ClientLeaves(c) ==
    LET h == HubOf[c]
    IN  /\ ClientsIdle /\ c # Owner /\ Connected(h, c)
        /\ Cardinality(closed) < work.leaves
        /\ closed' = closed \cup {<<h, c>>}
        /\ ConnClosed(h, c)
        /\ open' = {i \in open : asked[i].from # c}
        /\ subd' = [subd EXCEPT ![c] = FALSE]
        /\ UNCHANGED <<rec, via, asked, writeId, version, seen, owed>>

-----------------------------------------------------------------------------
(* Clients (external).                                                      *)

Ask(q) ==
    LET c == q.from
        h == HubOf[c]
        id == Len(asked) + 1
        val == IF q.act = "set" THEN version + 1 ELSE 0
    IN  /\ ClientsIdle /\ Len(asked) < work.most
        /\ (q.act = "set" => version < work.writes)
        /\ Connected(h, c)
        /\ version' = IF q.act = "set" THEN version + 1 ELSE version
        /\ asked' = Append(asked, [from |-> c, act |-> q.act, val |-> val])
        /\ open' = open \cup {id}
        /\ net' = [net EXCEPT ![<<c, h>>] =
                     Append(@, Msg(q.act, c, h, id, val, q.vis, 0))]
        /\ UNCHANGED <<hubs, closed, writeId, seen, subd, owed>>

RespTo(act) == CASE act = "set" -> "set_resp" [] act = "get" -> "get_resp"
                 [] act = "list" -> "list_resp" [] act = "revoke" -> "revoke_resp"
                 [] act \in {"subscribe", "unsubscribe"} -> "subscribe_resp"

ClientTakes(c) ==
    LET l == <<HubOf[c], c>>
        m == Head(net[l])
        read == m.act \in {"get_resp", "var_changed", "set_resp"} /\ m.code = 1
    IN  /\ net[l] # <<>>
        /\ net' = [net EXCEPT ![l] = Tail(@)]
        /\ open' = IF m.act \in Resp THEN open \ {m.mid} ELSE open
        /\ seen' = IF read THEN [seen EXCEPT ![c] = m.val] ELSE seen
        /\ subd' = [subd EXCEPT ![c] =
              CASE m.act = "var_deleted" -> FALSE
                [] m.act = "subscribe_resp" ->
                     m.code = 1 /\ asked[m.mid].act = "subscribe"
                [] OTHER -> @]
        /\ owed' = [owed EXCEPT ![c] =
              CASE m.act \in {"var_deleted", "subscribe_resp"} -> 0
                [] m.act = "var_changed" /\ m.val >= @ -> 0
                [] OTHER -> @]
        /\ UNCHANGED <<hubs, closed, asked, writeId, version>>

-----------------------------------------------------------------------------
HubStep(h, p) ==
    \/ HandleSet(h, p) \/ HandleGet(h, p) \/ HandleList(h, p)
    \/ HandleRevoke(h, p) \/ HandleSubscribe(h, p) \/ HandleUnsubscribe(h, p)
    \/ HandleSetResp(h, p) \/ HandleGetResp(h, p) \/ HandleListResp(h, p)
    \/ HandleRevokeResp(h, p) \/ HandleSubscribeResp(h, p)
    \/ HandleUpSet(h, p) \/ HandleUpRevoke(h, p)
    \/ HandleNotifySet(h, p) \/ HandleNotifyRevoke(h, p)
    \/ HandleVarChanged(h, p) \/ HandleVarDeleted(h, p)

Next ==
    /\ UNCHANGED work
    /\ \/ \E c \in Client : ClientTakes(c)
       \/ \E q \in work.asks : Ask(q)
       \/ \E c \in Client : ClientLeaves(c)
       \/ \E h \in Hub : \E p \in Neighbour(h) : HubStep(h, p)
       \/ \E h \in work.flows : CapabilitySet(h) \/ CapabilityRevoke(h)

Spec == Init /\ [][Next]_vars

-----------------------------------------------------------------------------
(* Properties.                                                              *)

Quiet == \A l \in Link : net[l] = <<>>

(* All writes enter at the owner's hub: nobody else sets or revokes.        *)
OneEntry == \A q \in work.asks : q.act \in {"set", "revoke"} => q.from = Owner

(* While only the owner and the flows of its hub write: once every frame    *)
(* has arrived, the hubs above the owner agree with the owner's own on      *)
(* whether the variable is there, its value and whether it is public, and   *)
(* those that have it know the way to the owner: up_set and up_revoke bring *)
(* every hub that answers for the variable to the same state.               *)
AuthoritiesAgree ==
    Quiet /\ OneEntry => \A h \in Hub : Route[h][Owner] # None =>
        LET a == rec[h]
            b == rec[HubOf[Owner]]
        IN  /\ a = None <=> b = None
            /\ a # None => /\ InSubtree(h) /\ a.val = b.val
                           /\ Public(a) <=> Public(b)

(* What a client is sent of the variable never goes back: not from          *)
(* var_changed to a get, nor from one hub's record to another's.            *)
ReadsNeverGoBack == [][\A c \in Client : seen'[c] >= seen[c]]_seen

(* A client that takes an answer has asked for it, once: msg_id, action and *)
(* the value of a set are those of a request it made and that is still      *)
(* open.                                                                    *)
AnswersMatch ==
    \A c \in Client :
        LET q == net[<<HubOf[c], c>>]
        IN  \A i \in 1..Len(q) : q[i].act \in Resp =>
               /\ q[i].mid \in open
               /\ asked[q[i].mid].from = c
               /\ RespTo(asked[q[i].mid].act) = q[i].act
               /\ q[i].act = "set_resp" /\ q[i].code = 1
                     => q[i].val = asked[q[i].mid].val
               /\ \A j \in 1..Len(q) :
                     q[j].act \in Resp /\ q[j].mid = q[i].mid => i = j

(* Once every frame has arrived, every request of a client that is still    *)
(* connected has been answered, and no hub keeps a waiter.                  *)
EveryoneAnswered ==
    Quiet => /\ open = {}
             /\ \A h \in Hub : /\ pendSub[h] = <<>> /\ writing[h] = {}
                               /\ \A k \in {"get", "list"} :
                                     pending[h][k] = <<>>

(* Once every frame has arrived, a client that was told it is subscribed    *)
(* has been sent the newest value written since (or that it was deleted).   *)
SubscribersCurrent == Quiet => \A c \in Client : subd[c] => owed[c] = 0
=============================================================================
