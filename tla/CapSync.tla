------------------------------ MODULE CapSync -------------------------------
(***************************************************************************)
(* How the capabilities of hubs become known further up: cap_snapshot,     *)
(* cap_upsert, cap_withdraw, cap_heartbeat and their answers               *)
(* (exec/handler.go), and the registry they come from.                     *)
(*                                                                         *)
(* Hubs 1, 2, ... are a chain; i + 1 is the parent of i.  A hub handles    *)
(* one frame at a time and a connection keeps the order of frames; a frame *)
(* that a worker has taken is handled even if its connection is closed     *)
(* meanwhile.  A capability is its key (provider, method, version): the    *)
(* registry never changes a descriptor.  Time is what the leases need: a   *)
(* hub is "due" when half a lease has passed since it last sent or heard,  *)
(* a record at its parent expires no sooner than that, and a frame or an   *)
(* answer takes less than half a lease.  Every hub has the permission to   *)
(* sync.  Not modelled: cap_query's own way up (a waiter as in module      *)
(* Requests, but under the client's req_id).                               *)
(***************************************************************************)
EXTENDS Naturals, Sequences, FiniteSets

CONSTANTS
    MaxHubs,
    Cap, Provider, \* capabilities, and the hub each one is offered by
    None,
    Workload       \* records: top, the hub without a parent; caps, what may
                   \* be registered; faults, the number of disconnections,
                   \* restarts and expiries; and epochs: time stands still
                   \* when the epoch of a hub is that large

Hub == 1..MaxHubs

Frame == [kind : {"snapshot", "upsert", "withdraw", "heartbeat"}, epoch : Nat,
          caps : SUBSET Cap, late : BOOLEAN]
Answer == [code : {1, 400, 404, 409}, epoch : Nat]
Record == [epoch : Nat, caps : SUBSET Cap, expired : BOOLEAN]

ASSUME CapSyncAssumption ==
    /\ MaxHubs \in Nat /\ Provider \in [Cap -> Hub]
    /\ None \notin Frame /\ None \notin Record
    /\ \A w \in Workload : w.top \in Hub /\ w.faults \in Nat
                          /\ w.caps \subseteq Cap /\ w.epochs \in Nat

VARIABLES
    work,    \* of Workload
    own,     \* own[i]: what is registered at hub i (capability.Registry)
    sent,    \* capUpstreamSent
    cache,   \* capUpstreamCache
    epoch,   \* capUpstreamEpoch
    due,     \* half a lease has passed since capUpstreamLastAt
    rec,     \* rec[i]: capChildren[i] of hub i + 1, or None
    linked,  \* the hubs that are connected to their parent
    up,      \* up[i]: frames from i to i + 1
    taken,   \* taken[i]: the one a worker of i + 1 has taken, or None
    down,    \* down[i]: answers from i + 1 to i
    closing, \* conn.closed of hub i's connection is about to reach i + 1
    astray,  \* history, see Strays: the record did not begin as a snapshot
             \* of the present connection
    faults

upstream == <<sent, cache, epoch, due>>
wires == <<linked, up, taken, down, closing>>
bounds == <<work, faults>>
vars == <<work, own, sent, cache, epoch, due, rec, linked, up, taken, down, closing,
          astray, faults>>

TypeOK ==
    /\ work \in Workload
    /\ own \in [Hub -> SUBSET Cap]
    /\ sent \in [Hub -> BOOLEAN] /\ cache \in [Hub -> SUBSET Cap]
    /\ epoch \in [Hub -> Nat] /\ due \in [Hub -> BOOLEAN]
    /\ rec \in [Hub -> Record \cup {None}]
    /\ linked \subseteq Hub /\ closing \subseteq Hub
    /\ up \in [Hub -> Seq(Frame)] /\ taken \in [Hub -> Frame \cup {None}]
    /\ down \in [Hub -> Seq(Answer)]
    /\ astray \subseteq Hub
    /\ faults \in Nat

Children == 1..(MaxHubs - 1)
Below == 1..(work.top - 1)   \* the hubs that have a parent

Init ==
    /\ work \in Workload
    /\ own = [i \in Hub |-> {}]
    /\ sent = [i \in Hub |-> FALSE] /\ cache = [i \in Hub |-> {}]
    /\ epoch = [i \in Hub |-> 0] /\ due = [i \in Hub |-> FALSE]
    /\ rec = [i \in Hub |-> None]
    /\ linked = 1..(work.top - 1)
    /\ up = [i \in Hub |-> <<>>] /\ taken = [i \in Hub |-> None]
    /\ down = [i \in Hub |-> <<>>]
    /\ closing = {} /\ astray = {} /\ faults = 0

-----------------------------------------------------------------------------
(* What maybeSyncSnapshotUpstream of hub i does, as a function of the       *)
(* hub's upstream state s, its child's record r, and force.  The result     *)
(* has the new s and r and the frames for the parent, which are sent after  *)
(* capMu has been released.                                                 *)

Live(r) == r # None /\ ~r.expired
Held(r) == IF Live(r) THEN r.caps ELSE {}

(* collectAggregatedCapsLocked, which also drops expired records            *)
Aggregate(i, r) == own[i] \cup Held(r)

(* diffCapabilityMaps                                                       *)
Upserts(s, now) == now \ s.cache
Withdraws(s, now) == s.cache \ now

NewFrame(kind, e, caps) == [kind |-> kind, epoch |-> e, caps |-> caps, late |-> FALSE]
Reset(s) == [s EXCEPT !.sent = FALSE, !.cache = {}, !.due = FALSE]

Snapshot(s, now) ==
    [s EXCEPT !.sent = TRUE, !.cache = now, !.due = FALSE, !.epoch = @ + 1,
              !.out = Append(@, NewFrame("snapshot", s.epoch + 1, now))]

Changes(s, now, force) ==
    LET ups == Upserts(s, now)
        wds == Withdraws(s, now)
        beat == s.due \/ (force /\ ups = {} /\ wds = {})
        frames == (IF ups = {} THEN <<>> ELSE <<NewFrame("upsert", s.epoch, ups)>>)
                  \o (IF wds = {} THEN <<>> ELSE <<NewFrame("withdraw", s.epoch, wds)>>)
                  \o (IF beat THEN <<NewFrame("heartbeat", s.epoch, {})>> ELSE <<>>)
    IN  IF frames = <<>> THEN s
        ELSE [s EXCEPT !.cache = now, !.due = FALSE, !.out = @ \o frames]

MaybeSync(i, s, r, force) ==
    LET now == Aggregate(i, r)
    IN  IF i \notin linked THEN Reset(s)
        ELSE IF ~s.sent THEN Snapshot(s, now)
        ELSE Changes(s, now, force)

(* The child's record after it: collecting drops one that has expired.      *)
Collected(i, r) == IF i \in linked /\ ~Live(r) THEN None ELSE r

(* The upstream state of hub i, and its new value.                          *)
State(i) == [sent |-> sent[i], cache |-> cache[i], epoch |-> epoch[i], due |-> due[i],
             out |-> up[i]]

Install(i, s) ==
    /\ sent' = [sent EXCEPT ![i] = s.sent]
    /\ cache' = [cache EXCEPT ![i] = s.cache]
    /\ epoch' = [epoch EXCEPT ![i] = s.epoch]
    /\ due' = [due EXCEPT ![i] = s.due]

(* Hub i's child is i - 1; the lowest hub has none.                         *)
Child(i) == IF i = 1 THEN None ELSE rec[i - 1]
SetChild(i, r) == rec' = IF i = 1 THEN rec ELSE [rec EXCEPT ![i - 1] = r]

-----------------------------------------------------------------------------
(* A capability is registered; nothing is sent yet.                         *)
Register(i, c) ==
    /\ i <= work.top /\ Provider[c] = i /\ c \in work.caps \ own[i]
    /\ own' = [own EXCEPT ![i] = @ \cup {c}]
    /\ UNCHANGED <<upstream, rec, wires, astray, bounds>>

(* Some exec frame reaches hub i: OnReceive syncs before anything else.     *)
Arrives(i, r) ==
    LET s == MaybeSync(i, State(i), Child(i), FALSE)
    IN  /\ i <= work.top
        /\ Install(i, s)
        /\ up' = [up EXCEPT ![i] = s.out]
        /\ SetChild(i, r)
        /\ UNCHANGED <<own, linked, taken, down, closing, astray, bounds>>

OnReceive(i) == Arrives(i, Collected(i, Child(i)))

(* Answering a query drops a record that has expired at any hub.            *)
HandleCapQuery(i) == Arrives(i, IF Live(Child(i)) THEN Child(i) ELSE None)

-----------------------------------------------------------------------------
(* The parent handles a frame f of hub i, of which it has the record r: the *)
(* new record and the answer.                                               *)

Refused(r, code, e) == [rec |-> r, answer |-> [code |-> code, epoch |-> e]]
Accepted(e, caps) == [rec |-> [epoch |-> e, caps |-> caps, expired |-> FALSE],
                      answer |-> [code |-> 1, epoch |-> e]]

(* normalizeCapabilityDescriptor: only the sender's own are accepted.       *)
Sane(i, caps) == \A c \in caps : Provider[c] = i

(* Mutant: the snapshot is added to what the parent has. *)
SnapshotAdds(i, r, f) ==
    IF ~Sane(i, f.caps) THEN Refused(r, 400, f.epoch)
    ELSE IF r # None /\ f.epoch < r.epoch THEN Refused(r, 409, r.epoch)
    ELSE Accepted(f.epoch, f.caps \cup IF r = None THEN {} ELSE r.caps)

HandleCapSnapshot(i, r, f) ==
    IF ~Sane(i, f.caps) THEN Refused(r, 400, f.epoch)
    ELSE IF r # None /\ f.epoch < r.epoch THEN Refused(r, 409, r.epoch)
    ELSE Accepted(f.epoch, f.caps)

HandleCapUpsert(i, r, f) ==
    IF ~Sane(i, f.caps) THEN Refused(r, 400, f.epoch)
    ELSE IF r = None THEN Accepted(f.epoch, f.caps)
    ELSE IF f.epoch < r.epoch THEN Refused(r, 409, r.epoch)
    ELSE Accepted(f.epoch, f.caps \cup IF f.epoch > r.epoch THEN {} ELSE r.caps)

HandleCapWithdraw(i, r, f) ==
    IF r = None THEN Refused(r, 404, f.epoch)
    ELSE IF f.epoch < r.epoch THEN Refused(r, 409, r.epoch)
    ELSE Accepted(f.epoch, IF f.epoch > r.epoch THEN {} ELSE r.caps \ f.caps)

HandleCapHeartbeat(i, r, f) ==
    IF r = None THEN Refused(r, 404, f.epoch)
    ELSE IF f.epoch < r.epoch THEN Refused(r, 409, r.epoch)
    ELSE Accepted(f.epoch, r.caps)

HandleAction(i, r, f) ==
    CASE f.kind = "snapshot"  -> HandleCapSnapshot(i, r, f)
      [] f.kind = "upsert"    -> HandleCapUpsert(i, r, f)
      [] f.kind = "withdraw"  -> HandleCapWithdraw(i, r, f)
      [] f.kind = "heartbeat" -> HandleCapHeartbeat(i, r, f)

(* A worker may handle a frame of a connection that is gone, and an upsert  *)
(* or withdrawal may begin a record (none is there, or one of a lower       *)
(* epoch); a snapshot of the present connection puts it right.              *)
Begins(r, f) == f.kind \in {"upsert", "withdraw"} /\ (r = None \/ f.epoch > r.epoch)

Strays(i, r, f) ==
    IF f.kind = "snapshot" /\ ~f.late THEN astray \ {i}
    ELSE IF f.late \/ Begins(r, f) THEN astray \cup {i}
    ELSE astray

Take(i) ==
    /\ i \in linked /\ up[i] # <<>> /\ taken[i] = None
    /\ taken' = [taken EXCEPT ![i] = Head(up[i])]
    /\ up' = [up EXCEPT ![i] = Tail(@)]
    /\ UNCHANGED <<own, upstream, rec, linked, down, closing, astray, bounds>>

(* OnReceive at i + 1: its own sync, the frame's handler with its answer,   *)
(* and, if that accepted the frame, a forced sync.                          *)
HandleFrame(i) ==
    LET j == i + 1
        f == taken[i]
        s0 == MaybeSync(j, State(j), rec[i], FALSE)
        r0 == Collected(j, rec[i])
        h == HandleAction(i, r0, f)
        ok == h.answer.code = 1
        s1 == IF ok THEN MaybeSync(j, s0, h.rec, TRUE) ELSE s0
    IN  /\ i \in Below /\ taken[i] # None
        /\ Install(j, s1)
        /\ up' = [up EXCEPT ![j] = s1.out]
        /\ rec' = [rec EXCEPT ![i] = h.rec]
        /\ astray' = IF ok THEN Strays(i, r0, f) ELSE astray
        /\ taken' = [taken EXCEPT ![i] = None]
        /\ down' = IF i \in linked THEN [down EXCEPT ![i] = Append(@, h.answer)] ELSE down
        /\ UNCHANGED <<own, linked, closing, bounds>>

(* The answer reaches hub i.  A 400 is only logged; a code from 500 on would *)
(* bring a resync, too, but no parent sends one.                            *)
(* Mutant: a missing snapshot is only logged. *)
ResyncOnStaleEpoch(code) == code = 409

MustResync(code) == code \in {404, 409}

HandleCapSyncResp(i) ==
    LET a == Head(down[i])
        s0 == MaybeSync(i, State(i), Child(i), FALSE)
        r0 == Collected(i, Child(i))
        known == [s0 EXCEPT !.epoch = IF a.epoch > @ THEN a.epoch ELSE @]
        s1 == IF a.code = 1 THEN [known EXCEPT !.due = FALSE]
              ELSE IF MustResync(a.code) THEN MaybeSync(i, Reset(known), r0, TRUE)
              ELSE known
    IN  /\ i \in Below /\ down[i] # <<>>
        /\ Install(i, s1)
        /\ up' = [up EXCEPT ![i] = s1.out]
        /\ SetChild(i, r0)
        /\ down' = [down EXCEPT ![i] = Tail(@)]
        /\ UNCHANGED <<own, linked, taken, closing, astray, bounds>>

-----------------------------------------------------------------------------
(* Time, connections and restarts.                                          *)

Idle(i) == up[i] = <<>> /\ taken[i] = None /\ down[i] = <<>>

HalfLease(i) ==
    /\ i \in Below /\ sent[i] /\ ~due[i]
    /\ \A h \in Below : Idle(h) /\ epoch[h] < work.epochs
    /\ due' = [due EXCEPT ![i] = TRUE]
    /\ UNCHANGED <<own, sent, cache, epoch, rec, wires, astray, bounds>>

Expire(i) ==
    /\ i \in Below /\ Live(rec[i]) /\ due[i] /\ faults < work.faults
    /\ rec' = [rec EXCEPT ![i].expired = TRUE]
    /\ faults' = faults + 1
    /\ UNCHANGED <<own, upstream, wires, astray, work>>

(* The connections of the hubs in gone end: what a worker has taken goes    *)
(* on, and so may one answer, at the hubs in alive.                         *)
Drop(gone, alive) ==
    /\ linked' = linked \ gone
    /\ up' = [i \in Hub |-> IF i \in gone THEN <<>> ELSE up[i]]
    /\ \E last \in [gone \cap alive -> {0, 1}] :
           /\ \A i \in gone \cap alive : last[i] <= Len(down[i])
           /\ down' = [i \in Hub |-> IF i \in gone \cap alive THEN SubSeq(down[i], 1, last[i])
                                     ELSE IF i \in alive THEN down[i] ELSE <<>>]

Late(f) == IF f = None THEN None ELSE [f EXCEPT !.late = TRUE]

Disconnect(i) ==
    /\ i \in linked \ closing /\ faults < work.faults
    /\ Drop({i}, Hub)
    /\ taken' = [taken EXCEPT ![i] = Late(@)]
    /\ closing' = closing \cup {i}
    /\ faults' = faults + 1
    /\ UNCHANGED <<own, upstream, rec, astray, work>>

(* conn.closed at i + 1, which may be behind a new connection's frames.     *)
ConnClosed(i) ==
    LET j == i + 1
        s == IF rec[i] = None THEN State(j) ELSE MaybeSync(j, State(j), None, TRUE)
    IN  /\ i \in closing
        /\ closing' = closing \ {i}
        /\ Install(j, s)
        /\ up' = [up EXCEPT ![j] = s.out]
        /\ rec' = [rec EXCEPT ![i] = None]
        /\ astray' = astray \ {i}
        /\ UNCHANGED <<own, linked, taken, down, bounds>>

Reconnect(i) ==
    /\ i \in Below \ linked
    /\ linked' = linked \cup {i}
    /\ UNCHANGED <<own, upstream, rec, up, taken, down, closing, astray, bounds>>

(* A hub comes back with an empty memory and without its connections.       *)
Restart(i) ==
    LET gone == {i, i - 1} \cap linked
    IN  /\ i <= work.top /\ faults < work.faults /\ closing \cap {i} = {}
        /\ own' = [own EXCEPT ![i] = {}]
        /\ Install(i, [sent |-> FALSE, cache |-> {}, epoch |-> 0, due |-> FALSE])
        /\ SetChild(i, None)
        /\ Drop(gone, Hub \ {i})
        /\ taken' = [h \in Hub |-> IF h = i THEN Late(taken[h])
                                   ELSE IF h = i - 1 THEN None ELSE taken[h]]
        /\ closing' = (closing \ {i - 1}) \cup (gone \cap {i})
        /\ astray' = astray \ {i - 1}
        /\ faults' = faults + 1
        /\ UNCHANGED work

-----------------------------------------------------------------------------
Next ==
    \/ \E i \in Hub, c \in Cap : Register(i, c)
    \/ \E i \in Hub : \/ OnReceive(i) \/ HandleCapQuery(i)
                      \/ Take(i) \/ HandleFrame(i) \/ HandleCapSyncResp(i)
                      \/ HalfLease(i) \/ Expire(i)
                      \/ Disconnect(i) \/ ConnClosed(i) \/ Reconnect(i) \/ Restart(i)

Spec == Init /\ [][Next]_vars

(* Workers and events run, time passes, a hub that lost its parent connects *)
(* again, and now and then some exec frame comes by: nothing else makes a   *)
(* hub look at its leases.                                                  *)
FairSpec ==
    /\ Spec
    /\ \A i \in Children : /\ WF_vars(Take(i) \/ HandleFrame(i) \/ HandleCapSyncResp(i))
                           /\ WF_vars(ConnClosed(i) \/ Reconnect(i))
                           /\ WF_vars(OnReceive(i))
                           /\ SF_vars(HalfLease(i))

-----------------------------------------------------------------------------
Quiet(i) == i \in linked /\ Idle(i)
OwnOnly(i) == Sane(i, cache[i] \cup Aggregate(i, Child(i)))

(* What a hub believes to have told its parent (capUpstreamCache) is what   *)
(* the parent holds of the hub's own capabilities, whenever nothing is      *)
(* under way between them: through refused epochs and frames, resyncs, new  *)
(* connections, late frames and restarts.  A child's capabilities are no    *)
(* part of it, since the parent refuses them; and the parent may have       *)
(* dropped the record, or the record may have begun with an upsert or a     *)
(* late frame.                                                              *)
BelievedIsHeld ==
    \A i \in Below \ (closing \cup astray) :
        Quiet(i) /\ rec[i] # None => rec[i].caps = {c \in cache[i] : Provider[c] = i}

(* Once connections are stable the parent's record is, and stays, what the  *)
(* hub has registered, unless it aggregates a child's capabilities or the   *)
(* record began with an upsert or a late frame: heartbeats find out         *)
(* that a record is gone, and the 404 brings a new snapshot.                *)
Converges ==
    \A i \in Children : <>[](i \in Below /\ OwnOnly(i) /\ i \notin astray
                        => Held(rec[i]) = own[i])

(* What the hub collected from its child and sent on is what its parent     *)
(* holds, as long as no connection, hub or lease has failed.                *)
AggregateIsHeld ==
    faults = 0 => \A i \in Below : Quiet(i) /\ sent[i] => Held(rec[i]) = cache[i]

=============================================================================
