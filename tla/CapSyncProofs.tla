--------------------------- MODULE CapSyncProofs ----------------------------
(***************************************************************************)
(* What a hub believes to have told its parent is what the parent holds:   *)
(* BelievedIsHeld of module CapSync, for a chain of any length, any number *)
(* of capabilities and any number of faults.                               *)
(*                                                                         *)
(* The frames between a hub and its parent form a line, in the order in    *)
(* which they were sent.  Each capability the hub offers is in             *)
(* capUpstreamCache or not as the last frame in the line that mentions it  *)
(* says; and a record that began as a snapshot of the present connection   *)
(* says it of those no frame mentions.  This holds because a frame that    *)
(* the parent refuses mentions none of the hub's own capabilities, or      *)
(* repeats what has been sent: OnReceive syncs before a handler runs, so a *)
(* child's new capabilities never share an upsert with the hub's own.      *)
(***************************************************************************)
EXTENDS CapSync, SequenceTheorems, TLAPS

Upstream == [sent : BOOLEAN, cache : SUBSET Cap, epoch : Nat, due : BOOLEAN, out : Seq(Frame)]

(* The capabilities hub i may offer. *)
Offered(i) == {c \in Cap : Provider[c] = i}

(* The frames under way from hub i: one that a worker of the parent has    *)
(* taken, unless its connection has ended meanwhile, and the queue.        *)
Before(i) == IF taken[i] = None \/ taken[i].late THEN <<>> ELSE <<taken[i]>>
Line(i) == Before(i) \o up[i]

(* A frame of hub i decides whether the parent holds c, and how.           *)
Sets(i, f, c) == \/ f.kind = "snapshot" /\ Sane(i, f.caps)
                 \/ f.kind \in {"upsert", "withdraw"} /\ c \in f.caps
Says(f, c) == f.kind # "withdraw" /\ c \in f.caps

(* The set is accepted as it is, or has nothing that is the hub's own.     *)
Pure(i, S) == Sane(i, S) \/ S \cap Offered(i) = {}

InOrder(l, e) ==
    \A k \in 1..Len(l) : /\ ~l[k].late /\ l[k].epoch <= e
                         /\ \A m \in k..Len(l) : l[k].epoch <= l[m].epoch
Unmixed(i, l) ==
    \A k \in 1..Len(l) : l[k].kind = "upsert" => Pure(i, l[k].caps)
LastWord(i, l, ca) ==
    \A c \in Offered(i), k \in 1..Len(l) :
        Sets(i, l[k], c) /\ (\A m \in 1..Len(l) : m > k => ~Sets(i, l[m], c))
        => (Says(l[k], c) <=> c \in ca)

(* The line l of hub i leads to the cache ca; e is the hub's epoch.        *)
Leads(i, l, ca, e) == InOrder(l, e) /\ Unmixed(i, l) /\ LastWord(i, l, ca)

(* The record r and then the line l lead to the cache ca.                  *)
Agrees(i, l, r, ca, e) ==
    /\ r.epoch <= e /\ \A k \in 1..Len(l) : r.epoch <= l[k].epoch
    /\ \A c \in Offered(i) : (\A k \in 1..Len(l) : ~Sets(i, l[k], c))
                             => (c \in r.caps <=> c \in ca)

(* Whatever record leads to ca along l leads to cb along m.                *)
Onward(i, l, ca, e, m, cb, g) ==
    \A r \in Record : Agrees(i, l, r, ca, e) => Agrees(i, m, r, cb, g)

(* The frame f says what changes of the hub's own from ca to cb.           *)
Carries(i, f, ca, cb) ==
    \A c \in Offered(i) : /\ Sets(i, f, c) => (Says(f, c) <=> c \in cb)
                          /\ ~Sets(i, f, c) => (c \in ca <=> c \in cb)

-----------------------------------------------------------------------------
(* Lines.                                                                  *)

(* One more frame in the line, when the hub's cache changes from ca to cb. *)
LEMMA SendOne ==
    ASSUME NEW i \in Hub, NEW l \in Seq(Frame), NEW f \in Frame,
           NEW ca \in SUBSET Cap, NEW cb \in SUBSET Cap, NEW e \in Nat, NEW g \in Nat, e <= g,
           Leads(i, l, ca, e), f.epoch = g, ~f.late, f.kind = "upsert" => Pure(i, f.caps),
           Carries(i, f, ca, cb)
    PROVE  /\ Append(l, f) \in Seq(Frame)
           /\ Leads(i, Append(l, f), cb, g)
           /\ Onward(i, l, ca, e, Append(l, f), cb, g)
<1> PICK x : x = Append(l, f)
  OBVIOUS
<1>1. x \in Seq(Frame) /\ Len(x) = Len(l) + 1 /\ Len(l) \in Nat /\ x[Len(l) + 1] = f
  BY AppendProperties, LenProperties
<1>2. \A k \in 1..Len(l) : x[k] = l[k] /\ l[k] \in Frame
  BY AppendProperties, ElementOfSeq
<1>3. \A k \in 1..Len(x) : k = Len(l) + 1 \/ k \in 1..Len(l)
  BY <1>1
<1>4. InOrder(x, g)
  <2> SUFFICES ASSUME NEW k \in 1..Len(x)
               PROVE  /\ ~x[k].late /\ x[k].epoch <= g
                      /\ \A m \in k..Len(x) : x[k].epoch <= x[m].epoch
    BY DEF InOrder
  <2>1. CASE k = Len(l) + 1
    <3>1. \A m \in k..Len(x) : m = k
      BY <2>1, <1>1
    <3> QED BY <3>1, <2>1, <1>1 DEF Frame
  <2>2. CASE k \in 1..Len(l)
    <3>1. ~x[k].late /\ x[k].epoch <= e /\ x[k].epoch \in Nat
      BY <2>2, <1>2 DEF Leads, InOrder, Frame
    <3>2. x[k].epoch <= g
      BY <3>1
    <3>3. ASSUME NEW m \in k..Len(x) PROVE x[k].epoch <= x[m].epoch
      <4>1. m = Len(l) + 1 \/ m \in k..Len(l)
        BY <1>1, <2>2, <3>3
      <4>2. CASE m = Len(l) + 1
        BY <4>2, <3>2, <1>1
      <4>3. CASE m \in k..Len(l)
        <5>1. m \in 1..Len(l)
          BY <4>3, <2>2, <1>1
        <5> QED BY <4>3, <5>1, <2>2, <1>2 DEF Leads, InOrder
      <4> QED BY <4>1, <4>2, <4>3
    <3> QED BY <3>1, <3>2, <3>3
  <2> QED BY <2>1, <2>2, <1>3
<1>5. Unmixed(i, x)
  BY <1>1, <1>2, <1>3 DEF Unmixed, Leads
<1>6. LastWord(i, x, cb)
  <2> SUFFICES ASSUME NEW c \in Offered(i), NEW k \in 1..Len(x), Sets(i, x[k], c),
                      \A m \in 1..Len(x) : m > k => ~Sets(i, x[m], c)
               PROVE  Says(x[k], c) <=> c \in cb
    BY DEF LastWord
  <2>1. CASE k = Len(l) + 1
    BY <2>1, <1>1 DEF Carries
  <2>2. CASE k \in 1..Len(l)
    <3>1. ~Sets(i, f, c)
      <4>1. Len(l) + 1 \in 1..Len(x) /\ Len(l) + 1 > k
        BY <2>2, <1>1
      <4> QED BY <4>1, <1>1
    <3>2. \A m \in 1..Len(l) : m > k => ~Sets(i, l[m], c)
      <4>1. \A m \in 1..Len(l) : m \in 1..Len(x)
        BY <1>1
      <4> QED BY <4>1, <1>2
    <3>3. Sets(i, l[k], c) /\ (Says(x[k], c) <=> Says(l[k], c))
      BY <2>2, <1>2
    <3>4. Says(l[k], c) <=> c \in ca
      BY <3>2, <3>3, <2>2 DEF Leads, LastWord
    <3> QED BY <3>1, <3>3, <3>4 DEF Carries
  <2> QED BY <2>1, <2>2, <1>3
<1>7. ASSUME NEW r \in Record, Agrees(i, l, r, ca, e) PROVE Agrees(i, x, r, cb, g)
  <2>1. r.epoch \in Nat /\ r.epoch <= g
    BY <1>7 DEF Record, Agrees
  <2>2. \A k \in 1..Len(x) : r.epoch <= x[k].epoch
    BY <1>1, <1>2, <1>3, <1>7, <2>1 DEF Agrees
  <2>3. ASSUME NEW c \in Offered(i), \A k \in 1..Len(x) : ~Sets(i, x[k], c)
        PROVE  c \in r.caps <=> c \in cb
    <3>1. ~Sets(i, f, c)
      BY <2>3, <1>1
    <3>2. \A k \in 1..Len(l) : k \in 1..Len(x)
      BY <1>1
    <3>3. \A k \in 1..Len(l) : ~Sets(i, l[k], c)
      BY <3>2, <2>3, <1>2
    <3> QED BY <3>1, <3>3, <1>7 DEF Agrees, Carries
  <2> QED BY <2>1, <2>2, <2>3 DEF Agrees
<1> QED BY <1>1, <1>4, <1>5, <1>6, <1>7 DEF Leads, Onward

(* Nothing in the line. *)
LEMMA EmptyLine ==
    ASSUME NEW i \in Hub, NEW ca, NEW e
    PROVE  Leads(i, <<>>, ca, e)
<1> PICK l : l = <<>>
  OBVIOUS
<1>1. \A k \in 1..Len(l) : FALSE
  OBVIOUS
<1> QED BY <1>1 DEF Leads, InOrder, Unmixed, LastWord

(* A hub's epoch may rise. *)
LEMMA RaiseEpoch ==
    ASSUME NEW i \in Hub, NEW l \in Seq(Frame), NEW ca \in SUBSET Cap,
           NEW e \in Nat, NEW g \in Nat, e <= g, Leads(i, l, ca, e)
    PROVE  /\ Leads(i, l, ca, g)
           /\ Onward(i, l, ca, e, l, ca, g)
<1>0. \A k \in 1..Len(l) : l[k] \in Frame
  BY ElementOfSeq
<1>1. \A k \in 1..Len(l) : l[k].epoch \in Nat
  BY <1>0 DEF Frame
<1>2. InOrder(l, g)
  BY <1>1 DEF Leads, InOrder
<1>3. \A r \in Record : r.epoch \in Nat
  BY DEF Record
<1> QED BY <1>2, <1>3 DEF Leads, Agrees, Onward

(* The first frame leaves the line. *)
LEMMA TailLeads ==
    ASSUME NEW i \in Hub, NEW l \in Seq(Frame), l # <<>>, NEW ca \in SUBSET Cap, NEW e \in Nat,
           Leads(i, l, ca, e)
    PROVE  Leads(i, Tail(l), ca, e)
<1> PICK t : t = Tail(l)
  OBVIOUS
<1>1. /\ Len(l) \in Nat \ {0} /\ Len(t) = Len(l) - 1 /\ Len(t) \in Nat
      /\ \A k \in 1..Len(t) : t[k] = l[k + 1] /\ k + 1 \in 1..Len(l)
  BY EmptySeq, HeadTailProperties
<1>2. InOrder(t, e)
  <2> SUFFICES ASSUME NEW k \in 1..Len(t)
               PROVE  /\ ~t[k].late /\ t[k].epoch <= e
                      /\ \A m \in k..Len(t) : t[k].epoch <= t[m].epoch
    BY DEF InOrder
  <2>1. \A m \in k..Len(t) : m \in 1..Len(t) /\ m + 1 \in (k + 1)..Len(l)
    BY <1>1
  <2> QED BY <2>1, <1>1 DEF Leads, InOrder
<1>3. Unmixed(i, t)
  BY <1>1 DEF Leads, Unmixed
<1>4. LastWord(i, t, ca)
  <2> SUFFICES ASSUME NEW c \in Offered(i), NEW k \in 1..Len(t), Sets(i, t[k], c),
                      \A m \in 1..Len(t) : m > k => ~Sets(i, t[m], c)
               PROVE  Says(t[k], c) <=> c \in ca
    BY DEF LastWord
  <2>1. ASSUME NEW m \in 1..Len(l), m > k + 1 PROVE ~Sets(i, l[m], c)
    <3>1. m - 1 \in 1..Len(t) /\ m - 1 > k /\ (m - 1) + 1 = m
      BY <2>1, <1>1
    <3> QED BY <3>1, <1>1
  <2> QED BY <2>1, <1>1 DEF Leads, LastWord
<1> QED BY <1>2, <1>3, <1>4 DEF Leads

-----------------------------------------------------------------------------
(* What maybeSyncSnapshotUpstream sends.                                   *)

(* The hub's upstream state s fits its line, which begins with b.          *)
Fits(i, b, s) ==
    /\ Leads(i, b \o s.out, s.cache, s.epoch)
    /\ (~s.sent \/ i \notin linked) => b \o s.out = <<>>

(* The record r fits it, too.                                              *)
Suits(i, b, s, r) == s.sent /\ Agrees(i, b \o s.out, r, s.cache, s.epoch)

(* The upstream state t after syncing in state s, with the record r of the *)
(* hub's child.                                                            *)
Synced(i, b, s, r, t) ==
    /\ t \in Upstream /\ Fits(i, b, t)
    /\ i \in linked => t.sent /\ t.cache = Aggregate(i, r)
    /\ i \notin linked => ~t.sent /\ t.out = s.out
    /\ i \in linked => \A q \in Record : Suits(i, b, s, q) => Suits(i, b, t, q)

(* Sending a frame from state s to a state t.                              *)
LEMMA SendFits ==
    ASSUME NEW i \in Hub, NEW b \in Seq(Frame), NEW out \in Seq(Frame), NEW f \in Frame,
           NEW ca \in SUBSET Cap, NEW cb \in SUBSET Cap, NEW e \in Nat, NEW g \in Nat, e <= g,
           Leads(i, b \o out, ca, e), f.epoch = g, ~f.late,
           f.kind = "upsert" => Pure(i, f.caps),
           Carries(i, f, ca, cb)
    PROVE  /\ Append(out, f) \in Seq(Frame) /\ out \o <<f>> = Append(out, f)
           /\ Leads(i, b \o Append(out, f), cb, g)
           /\ Onward(i, b \o out, ca, e, b \o Append(out, f), cb, g)
<1>1. Append(out, f) \in Seq(Frame) /\ out \o <<f>> = Append(out, f) /\ b \o out \in Seq(Frame)
  BY AppendProperties, AppendIsConcat, ConcatProperties
<1>2. <<f>> \in Seq(Frame)
  OBVIOUS
<1>3. b \o Append(out, f) = Append(b \o out, f)
  <2>1. Append(b \o out, f) = (b \o out) \o <<f>>
    BY <1>1, AppendIsConcat
  <2>2. (b \o out) \o <<f>> = b \o (out \o <<f>>)
    <3>1. PICK x : x = <<f>>
      OBVIOUS
    <3>2. x \in Seq(Frame)
      BY <1>2, <3>1
    <3>3. (b \o out) \o x = b \o (out \o x)
      BY <3>2, ConcatAssociative
    <3> QED BY <3>1, <3>3
  <2> QED BY <2>1, <2>2, <1>1
<1> PICK l : l = b \o out
  OBVIOUS
<1>4. /\ Leads(i, Append(l, f), cb, g)
      /\ Onward(i, l, ca, e, Append(l, f), cb, g)
  BY <1>1, SendOne
<1> QED BY <1>1, <1>3, <1>4

(* What NewFrame makes. *)
LEMMA NewFrameType ==
    ASSUME NEW kind \in {"snapshot", "upsert", "withdraw", "heartbeat"}, NEW e \in Nat,
           NEW caps \in SUBSET Cap
    PROVE  /\ NewFrame(kind, e, caps) \in Frame
           /\ NewFrame(kind, e, caps).kind = kind /\ NewFrame(kind, e, caps).epoch = e
           /\ NewFrame(kind, e, caps).caps = caps /\ ~NewFrame(kind, e, caps).late
BY DEF NewFrame, Frame

(* A snapshot replaces whatever the hub believed before, if the line is    *)
(* empty or the hub's own part of it stays.                                *)
LEMMA SnapshotFits ==
    ASSUME NEW i \in Hub, NEW b \in Seq(Frame), NEW s \in Upstream, NEW now \in SUBSET Cap,
           NEW ca \in SUBSET Cap, Leads(i, b \o s.out, ca, s.epoch),
           b \o s.out = <<>> \/ ca = now, NEW t, t = Snapshot(s, now)
    PROVE  /\ t \in Upstream /\ t.sent /\ t.cache = now /\ t.epoch = s.epoch + 1
           /\ Leads(i, b \o t.out, t.cache, t.epoch)
           /\ ca = now => Onward(i, b \o s.out, ca, s.epoch, b \o t.out, t.cache, t.epoch)
<1> PICK f : f = NewFrame("snapshot", s.epoch + 1, now)
  OBVIOUS
<1> PICK g : g = s.epoch + 1
  OBVIOUS
<1> PICK out : out = s.out
  OBVIOUS
<1>1. s.epoch \in Nat /\ out \in Seq(Frame) /\ g \in Nat /\ s.epoch <= g
  BY DEF Upstream
<1>2. /\ f \in Frame /\ f.kind = "snapshot" /\ f.epoch = g /\ f.caps = now /\ ~f.late
  BY <1>1, NewFrameType
<1>3. Append(out, f) \in Seq(Frame)
  BY <1>1, <1>2, AppendProperties
<1>4. /\ t \in Upstream /\ t.sent /\ t.cache = now /\ t.epoch = g /\ t.out = Append(out, f)
  BY <1>1, <1>3 DEF Snapshot, Upstream
<1>5. Carries(i, f, now, now)
  BY <1>2 DEF Says, Carries
<1>6. f.kind = "upsert" => Pure(i, f.caps)
  BY <1>2
<1>7. Leads(i, b \o out, now, s.epoch)
  BY EmptyLine
<1>8. /\ Leads(i, b \o Append(out, f), now, g)
      /\ Onward(i, b \o out, now, s.epoch, b \o Append(out, f), now, g)
  BY <1>1, <1>2, <1>5, <1>6, <1>7, SendFits
<1> QED BY <1>1, <1>4, <1>8

(* A snapshot that repeats what the hub believes. *)
LEMMA RepeatFits ==
    ASSUME NEW i \in Hub, NEW b \in Seq(Frame), NEW s \in Upstream, NEW now \in SUBSET Cap,
           Leads(i, b \o s.out, now, s.epoch), NEW t, t = Snapshot(s, now)
    PROVE  /\ t \in Upstream /\ t.sent /\ t.cache = now
           /\ Leads(i, b \o t.out, t.cache, t.epoch)
           /\ Onward(i, b \o s.out, now, s.epoch, b \o t.out, t.cache, t.epoch)
<1>1. PICK ca : ca = now
  OBVIOUS
<1>2. /\ ca \in SUBSET Cap /\ Leads(i, b \o s.out, ca, s.epoch)
      /\ (b \o s.out = <<>> \/ ca = now)
  BY <1>1
<1>3. /\ t \in Upstream /\ t.sent /\ t.cache = now /\ t.epoch = s.epoch + 1
      /\ Leads(i, b \o t.out, t.cache, t.epoch)
      /\ ca = now => Onward(i, b \o s.out, ca, s.epoch, b \o t.out, t.cache, t.epoch)
  BY <1>2, SnapshotFits
<1> QED BY <1>1, <1>3

(* One frame of a change, if there is one to send: the frames x are <<>>   *)
(* or a single frame f of the present epoch.                               *)
LEMMA ChangeFits ==
    ASSUME NEW i \in Hub, NEW b \in Seq(Frame), NEW out \in Seq(Frame), NEW f \in Frame, NEW x,
           NEW ca \in SUBSET Cap, NEW cb \in SUBSET Cap, NEW e \in Nat,
           Leads(i, b \o out, ca, e), f.epoch = e, ~f.late,
           f.kind = "upsert" => Pure(i, f.caps),
           (x = <<>> /\ ca = cb) \/ x = <<f>>,
           Carries(i, f, ca, cb)
    PROVE  /\ out \o x \in Seq(Frame) /\ x \in Seq(Frame)
           /\ Leads(i, b \o (out \o x), cb, e)
           /\ Onward(i, b \o out, ca, e, b \o (out \o x), cb, e)
<1>1. CASE x = <<>> /\ ca = cb
  BY <1>1, ConcatEmptySeq DEF Onward
<1>2. CASE x = <<f>>
  <2>1. x \in Seq(Frame)
    BY <1>2
  <2>2. out \o x = Append(out, f)
    BY <1>2, AppendIsConcat
  <2>3. /\ Append(out, f) \in Seq(Frame)
        /\ Leads(i, b \o Append(out, f), cb, e)
        /\ Onward(i, b \o out, ca, e, b \o Append(out, f), cb, e)
    <3>1. e <= e
      OBVIOUS
    <3> QED BY <3>1, SendFits
  <2> QED BY <2>1, <2>2, <2>3
<1> QED BY <1>1, <1>2

(* Upserts, withdrawals and a heartbeat for what has changed: the cache is *)
(* then what was collected, and the line leads to it.                      *)
LEMMA ChangesFit ==
    ASSUME NEW i \in Hub, NEW b \in Seq(Frame), NEW s \in Upstream, NEW now \in SUBSET Cap,
           Leads(i, b \o s.out, s.cache, s.epoch), Pure(i, now \ s.cache), s.sent,
           NEW t, t = Changes(s, now, TRUE) \/ t = Changes(s, now, FALSE)
    PROVE  /\ t \in Upstream /\ t.sent /\ t.cache = now /\ t.epoch = s.epoch
           /\ Leads(i, b \o t.out, t.cache, t.epoch)
           /\ Onward(i, b \o s.out, s.cache, s.epoch, b \o t.out, t.cache, t.epoch)
<1>e. PICK e : e = s.epoch
  OBVIOUS
<1>out. PICK out : out = s.out
  OBVIOUS
<1>ca. PICK ca : ca = s.cache
  OBVIOUS
<1>1. e \in Nat /\ out \in Seq(Frame) /\ ca \in SUBSET Cap
  BY <1>e, <1>out, <1>ca DEF Upstream
<1>ups. PICK ups : ups = now \ ca
  OBVIOUS
<1>wds. PICK wds : wds = ca \ now
  OBVIOUS
<1>2. ups \in SUBSET Cap /\ wds \in SUBSET Cap /\ {} \in SUBSET Cap
  BY <1>1, <1>ups, <1>wds
<1>f1. PICK f1 : f1 = NewFrame("upsert", e, ups)
  OBVIOUS
<1>f2. PICK f2 : f2 = NewFrame("withdraw", e, wds)
  OBVIOUS
<1>f3. PICK f3 : f3 = NewFrame("heartbeat", e, {})
  OBVIOUS
<1>3. /\ f1 \in Frame /\ f1.kind = "upsert" /\ f1.epoch = e /\ f1.caps = ups /\ ~f1.late
      /\ f2 \in Frame /\ f2.kind = "withdraw" /\ f2.epoch = e /\ f2.caps = wds /\ ~f2.late
      /\ f3 \in Frame /\ f3.kind = "heartbeat" /\ f3.epoch = e /\ f3.caps = {} /\ ~f3.late
  BY <1>1, <1>2, <1>f1, <1>f2, <1>f3, NewFrameType
<1>x1. PICK x1 : x1 = IF ups = {} THEN <<>> ELSE <<f1>>
  OBVIOUS
<1>x2. PICK x2 : x2 = IF wds = {} THEN <<>> ELSE <<f2>>
  OBVIOUS
<1>4. PICK x3 : /\ x3 = <<>> \/ x3 = <<f3>>
                /\ t = IF x1 \o x2 \o x3 = <<>> THEN s
                       ELSE [s EXCEPT !.cache = now, !.due = FALSE, !.out = @ \o (x1 \o x2 \o x3)]
  <2>1. CASE t = Changes(s, now, TRUE)
    BY <2>1, <1>e, <1>ca, <1>ups, <1>wds, <1>f1, <1>f2, <1>f3,
         <1>x1, <1>x2 DEF Changes, Upserts, Withdraws
  <2>2. CASE t = Changes(s, now, FALSE)
    BY <2>2, <1>e, <1>ca, <1>ups, <1>wds, <1>f1, <1>f2, <1>f3,
         <1>x1, <1>x2 DEF Changes, Upserts, Withdraws
  <2> QED BY <2>1, <2>2
<1>cb. PICK cb : cb = ca \cup ups
  OBVIOUS
<1>out1. PICK out1 : out1 = out \o x1
  OBVIOUS
<1>out2. PICK out2 : out2 = out1 \o x2
  OBVIOUS
<1>out3. PICK out3 : out3 = out2 \o x3
  OBVIOUS
<1>5. /\ out1 \in Seq(Frame) /\ x1 \in Seq(Frame) /\ cb \in SUBSET Cap
      /\ Leads(i, b \o out1, cb, e)
      /\ Onward(i, b \o out, ca, e, b \o out1, cb, e)
  <2>1. Carries(i, f1, ca, cb)
    BY <1>3, <1>cb DEF Carries, Sets, Says
  <2>3. (x1 = <<>> /\ ca = cb) \/ x1 = <<f1>>
    BY <1>x1, <1>cb
  <2>4. (f1.kind = "upsert" => Pure(i, f1.caps)) /\ Leads(i, b \o out, ca, e) /\ cb \in SUBSET Cap
    BY <1>1, <1>2, <1>3, <1>cb, <1>e, <1>out, <1>ca, <1>ups
  <2>5. f1 \in Frame /\ f1.epoch = e /\ ~f1.late
    BY <1>3
  <2>6. /\ out \o x1 \in Seq(Frame) /\ x1 \in Seq(Frame)
        /\ Leads(i, b \o (out \o x1), cb, e)
        /\ Onward(i, b \o out, ca, e, b \o (out \o x1), cb, e)
    BY <1>1, <2>1, <2>3, <2>4, <2>5, ChangeFits, ZenonT(30)
  <2> QED BY <2>4, <2>6, <1>out1
<1>6. /\ out2 \in Seq(Frame) /\ x2 \in Seq(Frame)
      /\ Leads(i, b \o out2, now, e)
      /\ Onward(i, b \o out1, cb, e, b \o out2, now, e)
  <2>1. Carries(i, f2, cb, now)
    BY <1>3, <1>wds, <1>ups, <1>cb DEF Carries, Sets, Says
  <2>3. (x2 = <<>> /\ cb = now) \/ x2 = <<f2>>
    BY <1>x2, <1>wds, <1>ups, <1>cb
  <2>4. (f2.kind = "upsert" => Pure(i, f2.caps)) /\ f2 \in Frame /\ f2.epoch = e /\ ~f2.late
    BY <1>3
  <2>5. out1 \in Seq(Frame) /\ cb \in SUBSET Cap /\ Leads(i, b \o out1, cb, e)
    BY <1>5
  <2>6. /\ out1 \o x2 \in Seq(Frame) /\ x2 \in Seq(Frame)
        /\ Leads(i, b \o (out1 \o x2), now, e)
        /\ Onward(i, b \o out1, cb, e, b \o (out1 \o x2), now, e)
    BY <1>1, <2>1, <2>3, <2>4, <2>5, ChangeFits, ZenonT(30)
  <2> QED BY <2>6, <1>out2
<1>7. /\ out3 \in Seq(Frame) /\ x3 \in Seq(Frame)
      /\ Leads(i, b \o out3, now, e)
      /\ Onward(i, b \o out2, now, e, b \o out3, now, e)
  <2>1. Carries(i, f3, now, now)
    BY <1>3 DEF Carries, Sets, Says
  <2>3. (x3 = <<>> /\ now = now) \/ x3 = <<f3>>
    BY <1>4
  <2>4. (f3.kind = "upsert" => Pure(i, f3.caps)) /\ f3 \in Frame /\ f3.epoch = e /\ ~f3.late
    BY <1>3
  <2>5. out2 \in Seq(Frame) /\ Leads(i, b \o out2, now, e)
    BY <1>6
  <2>6. /\ out2 \o x3 \in Seq(Frame) /\ x3 \in Seq(Frame)
        /\ Leads(i, b \o (out2 \o x3), now, e)
        /\ Onward(i, b \o out2, now, e, b \o (out2 \o x3), now, e)
    BY <1>1, <2>1, <2>3, <2>4, <2>5, ChangeFits, ZenonT(30)
  <2> QED BY <2>6, <1>out3
<1>8. out3 = out \o (x1 \o x2 \o x3) /\ x1 \o x2 \in Seq(Frame)
  <2>0. out \in Seq(Frame) /\ x1 \in Seq(Frame) /\ x2 \in Seq(Frame) /\ x3 \in Seq(Frame)
    BY <1>1, <1>5, <1>6, <1>7
  <2>1. x1 \o x2 \in Seq(Frame)
    BY <2>0, ConcatProperties
  <2>2. (out \o x1) \o x2 = out \o (x1 \o x2)
    BY <2>0, ConcatAssociative, SMTT(30)
  <2>3. PICK y : y = x1 \o x2
    OBVIOUS
  <2>4. out \in Seq(Frame) /\ y \in Seq(Frame) /\ x3 \in Seq(Frame)
    BY <1>1, <2>0, <2>1, <2>3
  <2>5. (out \o y) \o x3 = out \o (y \o x3)
    BY <2>4, ConcatAssociative, SMTT(30)
  <2> QED BY <2>1, <2>2, <2>3, <2>5, <1>out1, <1>out2, <1>out3
<1>9. Onward(i, b \o out, ca, e, b \o out3, now, e)
  BY <1>5, <1>6, <1>7 DEF Onward
<1>10. CASE x1 \o x2 \o x3 = <<>>
  <2>0. x1 \in Seq(Frame) /\ x2 \in Seq(Frame) /\ x3 \in Seq(Frame) /\ x1 \o x2 \in Seq(Frame)
    BY <1>5, <1>6, <1>7, <1>8
  <2>1. x1 \o x2 = <<>>
    BY <1>10, <2>0, ConcatEqualIffEmpty
  <2>4. x1 = <<>> /\ x2 = <<>>
    BY <2>0, <2>1, ConcatEqualIffEmpty
  <2>5. ups = {} /\ wds = {}
    BY <2>4, <1>x1, <1>x2
  <2>2. ca = now
    BY <2>5, <1>ups, <1>wds
  <2>3. t = s
    BY <1>4, <1>10
  <2> QED BY <2>2, <2>3, <1>ca DEF Onward
<1>11. CASE x1 \o x2 \o x3 # <<>>
  <2>1. t = [s EXCEPT !.cache = now, !.due = FALSE, !.out = @ \o (x1 \o x2 \o x3)]
    BY <1>4, <1>11
  <2>2. t \in Upstream /\ t.sent /\ t.cache = now /\ t.epoch = e /\ t.out = out3
    BY <2>1, <1>7, <1>8, <1>e, <1>out DEF Upstream
  <2> QED BY <2>2, <1>7, <1>9, <1>e, <1>out, <1>ca
<1> QED BY <1>10, <1>11

(* Withdrawing everything: the hub has found that it has no parent.        *)
LEMMA ResetFits ==
    ASSUME NEW s \in Upstream
    PROVE  /\ Reset(s) \in Upstream /\ Reset(s).out = s.out /\ Reset(s).epoch = s.epoch
           /\ ~Reset(s).sent
BY DEF Reset, Upstream

(* What has been collected is a set of capabilities.                       *)
LEMMA AggregateType ==
    ASSUME NEW i \in Hub, own[i] \in SUBSET Cap, NEW r \in Record \cup {None}
    PROVE  Aggregate(i, r) \in SUBSET Cap /\ Held(r) \in SUBSET Cap
BY DEF Aggregate, Held, Live, Record

(* maybeSyncSnapshotUpstream: a connected hub has then told its parent     *)
(* what it has collected, and the line and the parent's record lead there. *)
LEMMA SyncFits ==
    ASSUME NEW i \in Hub, NEW b \in Seq(Frame), NEW s \in Upstream, NEW r \in Record \cup {None},
           own[i] \in SUBSET Cap, Fits(i, b, s),
           s.sent => Pure(i, Aggregate(i, r) \ s.cache),
           NEW t, t = MaybeSync(i, s, r, TRUE) \/ t = MaybeSync(i, s, r, FALSE)
    PROVE  Synced(i, b, s, r, t)
<1>now. PICK now : now = Aggregate(i, r)
  OBVIOUS
<1>1. now \in SUBSET Cap
  BY <1>now, AggregateType
<1>2. CASE i \notin linked
  <2>1. t = Reset(s)
    BY <1>2 DEF MaybeSync
  <2>2. b \o s.out = <<>>
    BY <1>2 DEF Fits
  <2>3. t \in Upstream /\ t.out = s.out /\ ~t.sent
    BY <2>1, ResetFits
  <2> QED BY <1>2, <2>2, <2>3, EmptyLine DEF Fits, Synced
<1>3. CASE i \in linked /\ ~s.sent
  <2>1. t = Snapshot(s, now)
    BY <1>3, <1>now DEF MaybeSync
  <2>2. Leads(i, b \o s.out, now, s.epoch)
    BY <1>3, EmptyLine DEF Fits
  <2>3. /\ t \in Upstream /\ t.sent /\ t.cache = now
        /\ Leads(i, b \o t.out, t.cache, t.epoch)
        /\ Onward(i, b \o s.out, now, s.epoch, b \o t.out, t.cache, t.epoch)
    BY <1>1, <2>1, <2>2, RepeatFits
  <2> QED BY <1>3, <1>now, <2>3 DEF Fits, Suits, Synced
<1>4. CASE i \in linked /\ s.sent
  <2>1. t = Changes(s, now, TRUE) \/ t = Changes(s, now, FALSE)
    BY <1>4, <1>now DEF MaybeSync
  <2>2. Leads(i, b \o s.out, s.cache, s.epoch) /\ Pure(i, now \ s.cache)
    BY <1>4, <1>now DEF Fits
  <2>3. /\ t \in Upstream /\ t.sent /\ t.cache = now /\ t.epoch = s.epoch
        /\ Leads(i, b \o t.out, t.cache, t.epoch)
        /\ Onward(i, b \o s.out, s.cache, s.epoch, b \o t.out, t.cache, t.epoch)
    <3>1. b \in Seq(Frame) /\ s \in Upstream /\ now \in SUBSET Cap /\ s.sent
      BY <1>1, <1>4
    <3> QED BY <2>1, <2>2, <3>1, ChangesFit, ZenonT(30)
  <2> QED BY <1>4, <1>now, <2>3 DEF Fits, Suits, Onward, Synced
<1> QED BY <1>2, <1>3, <1>4

(* A hub may learn of a higher epoch, or hear that it is not yet due.      *)
LEMMA RaiseFits ==
    ASSUME NEW i \in Hub, NEW b \in Seq(Frame), NEW s \in Upstream, NEW t \in Upstream,
           Fits(i, b, s), t.sent = s.sent, t.cache = s.cache, t.out = s.out,
           s.epoch <= t.epoch
    PROVE  /\ Fits(i, b, t)
           /\ \A q \in Record : Suits(i, b, s, q) => Suits(i, b, t, q)
<1>1. /\ s.epoch \in Nat /\ t.epoch \in Nat /\ s.out \in Seq(Frame) /\ s.cache \in SUBSET Cap
  BY DEF Upstream
<1>2. PICK l : l = b \o s.out
  OBVIOUS
<1>3. l \in Seq(Frame) /\ Leads(i, l, s.cache, s.epoch)
  BY <1>1, <1>2, ConcatProperties DEF Fits
<1>4. Leads(i, l, s.cache, t.epoch) /\ Onward(i, l, s.cache, s.epoch, l, s.cache, t.epoch)
  BY <1>1, <1>3, RaiseEpoch
<1> QED BY <1>2, <1>4 DEF Fits, Suits, Onward

(* A resync: the hub forgets that it has told its parent and tells it      *)
(* again.  Its own part of what it says is the same.                       *)
LEMMA ResyncFits ==
    ASSUME NEW i \in Hub, NEW b \in Seq(Frame), NEW s \in Upstream, NEW r \in Record \cup {None},
           own[i] \in SUBSET Cap, Fits(i, b, s),
           i \in linked => s.sent /\ s.cache = Aggregate(i, r),
           NEW t, t = MaybeSync(i, Reset(s), r, TRUE)
    PROVE  Synced(i, b, s, r, t)
<1>now. PICK now : now = Aggregate(i, r)
  OBVIOUS
<1>z. PICK z : z = Reset(s)
  OBVIOUS
<1>1. now \in SUBSET Cap
  BY <1>now, AggregateType
<1>2. z \in Upstream /\ z.out = s.out /\ z.epoch = s.epoch /\ ~z.sent
  BY <1>z, ResetFits
<1>3. CASE i \notin linked
  <2>1. t = Reset(z)
    BY <1>3, <1>z DEF MaybeSync
  <2>2. t \in Upstream /\ t.out = z.out /\ ~t.sent
    BY <2>1, <1>2, ResetFits
  <2>3. b \o t.out = <<>>
    BY <1>2, <1>3, <2>2 DEF Fits
  <2> QED BY <1>2, <1>3, <2>2, <2>3, EmptyLine DEF Fits, Synced
<1>4. CASE i \in linked
  <2>0. z \in Upstream
    BY <1>2
  <2>1. t = Snapshot(z, now)
    BY <1>2, <1>4, <1>now, <1>z DEF MaybeSync
  <2>2. s.sent /\ s.cache = now
    BY <1>4, <1>now
  <2>3. Leads(i, b \o z.out, now, z.epoch)
    BY <1>2, <2>2 DEF Fits
  <2>4. /\ t \in Upstream /\ t.sent /\ t.cache = now
        /\ Leads(i, b \o t.out, t.cache, t.epoch)
        /\ Onward(i, b \o z.out, now, z.epoch, b \o t.out, t.cache, t.epoch)
    BY <1>1, <2>0, <2>1, <2>3, RepeatFits
  <2> QED BY <1>2, <1>4, <1>now, <2>2, <2>4 DEF Fits, Suits, Onward, Synced
<1> QED BY <1>3, <1>4

-----------------------------------------------------------------------------
(* What the parent does with a frame.                                      *)

(* The cases of the four handlers.                                         *)
LEMMA HandleCases ==
    ASSUME NEW i \in Hub, NEW r \in Record \cup {None}, NEW f \in Frame,
           NEW h, h = HandleAction(i, r, f)
    PROVE  \/ /\ h.rec = r /\ h.answer \in Answer /\ h.answer.code # 1
              /\ \/ r = None
                 \/ f.epoch < r.epoch
                 \/ f.kind \in {"snapshot", "upsert"} /\ ~Sane(i, f.caps)
           \/ \E caps : /\ h = Accepted(f.epoch, caps)
                        /\ \/ f.kind = "snapshot" /\ Sane(i, f.caps) /\ caps = f.caps
                           \/ /\ f.kind = "upsert" /\ Sane(i, f.caps)
                              /\ (r = None \/ f.epoch > r.epoch) /\ caps = f.caps
                           \/ /\ f.kind = "upsert" /\ Sane(i, f.caps)
                              /\ r # None /\ f.epoch = r.epoch /\ caps = f.caps \cup r.caps
                           \/ f.kind = "withdraw" /\ r # None /\ f.epoch > r.epoch /\ caps = {}
                           \/ /\ f.kind = "withdraw" /\ r # None /\ f.epoch = r.epoch
                              /\ caps = r.caps \ f.caps
                           \/ /\ f.kind = "heartbeat" /\ r # None /\ f.epoch >= r.epoch
                              /\ caps = r.caps
<1>1. /\ f.epoch \in Nat /\ (r # None => r.epoch \in Nat)
      /\ f.kind \in {"snapshot", "upsert", "withdraw", "heartbeat"}
  BY DEF Frame, Record
<1>2. ASSUME NEW code \in {400, 404, 409}, NEW e \in Nat
      PROVE  /\ Refused(r, code, e).rec = r /\ Refused(r, code, e).answer \in Answer
             /\ Refused(r, code, e).answer.code # 1
  BY <1>2 DEF Refused, Answer
<1>3. CASE f.kind = "snapshot"
  <2>1. h = HandleCapSnapshot(i, r, f)
    BY <1>3 DEF HandleAction
  <2> QED BY <1>1, <1>2, <1>3, <2>1 DEF HandleCapSnapshot
<1>4. CASE f.kind = "upsert"
  <2>1. h = HandleCapUpsert(i, r, f)
    BY <1>4 DEF HandleAction
  <2>2. CASE ~Sane(i, f.caps) \/ (r # None /\ f.epoch < r.epoch)
    BY <1>1, <1>2, <1>4, <2>1, <2>2 DEF HandleCapUpsert
  <2>3. CASE Sane(i, f.caps) /\ r = None
    BY <1>4, <2>1, <2>3 DEF HandleCapUpsert
  <2>4. CASE Sane(i, f.caps) /\ r # None /\ f.epoch > r.epoch
    <3>1. h = Accepted(f.epoch, f.caps \cup {})
      BY <1>1, <2>1, <2>4 DEF HandleCapUpsert
    <3>2. f.caps \cup {} = f.caps
      OBVIOUS
    <3> QED BY <1>4, <2>4, <3>1, <3>2
  <2>5. CASE Sane(i, f.caps) /\ r # None /\ f.epoch = r.epoch
    <3>1. h = Accepted(f.epoch, f.caps \cup r.caps)
      BY <1>1, <2>1, <2>5 DEF HandleCapUpsert
    <3> QED BY <1>4, <2>5, <3>1
  <2> QED BY <1>1, <2>2, <2>3, <2>4, <2>5
<1>5. CASE f.kind = "withdraw"
  <2>1. h = HandleCapWithdraw(i, r, f)
    BY <1>5 DEF HandleAction
  <2>2. CASE r = None \/ f.epoch < r.epoch
    BY <1>1, <1>2, <1>5, <2>1, <2>2 DEF HandleCapWithdraw
  <2>3. CASE r # None /\ f.epoch > r.epoch
    <3>1. h = Accepted(f.epoch, {})
      BY <1>1, <2>1, <2>3 DEF HandleCapWithdraw
    <3> QED BY <1>5, <2>3, <3>1
  <2>4. CASE r # None /\ f.epoch = r.epoch
    <3>1. h = Accepted(f.epoch, r.caps \ f.caps)
      BY <1>1, <2>1, <2>4 DEF HandleCapWithdraw
    <3> QED BY <1>5, <2>4, <3>1
  <2> QED BY <1>1, <2>2, <2>3, <2>4
<1>6. CASE f.kind = "heartbeat"
  <2>1. h = HandleCapHeartbeat(i, r, f)
    BY <1>6 DEF HandleAction
  <2>2. CASE r = None \/ f.epoch < r.epoch
    BY <1>1, <1>2, <1>6, <2>1, <2>2 DEF HandleCapHeartbeat
  <2>3. CASE r # None /\ f.epoch >= r.epoch
    <3>1. h = Accepted(f.epoch, r.caps)
      BY <1>1, <2>1, <2>3 DEF HandleCapHeartbeat
    <3> QED BY <1>6, <2>3, <3>1
  <2> QED BY <1>1, <2>2, <2>3
<1> QED BY <1>1, <1>3, <1>4, <1>5, <1>6

(* A refused frame changes nothing, and a heartbeat begins no record. *)
LEMMA RefusedKeeps ==
    ASSUME NEW i \in Hub, NEW r \in Record \cup {None}, NEW f \in Frame,
           NEW h, h = HandleAction(i, r, f)
    PROVE  /\ h.answer.code # 1 => h.rec = r
           /\ h.answer.code = 1 => f.kind \in {"snapshot", "upsert"} \/ r # None
<1>1. \A caps : Accepted(f.epoch, caps).answer.code = 1
  BY DEF Accepted
<1>2. CASE h.rec = r /\ h.answer.code # 1
  BY <1>2
<1>3. ASSUME NEW caps, h = Accepted(f.epoch, caps),
             f.kind \in {"snapshot", "upsert"} \/ r # None
      PROVE  /\ h.answer.code = 1
             /\ f.kind \in {"snapshot", "upsert"} \/ r # None
  BY <1>1, <1>3
<1>4. \/ h.rec = r /\ h.answer.code # 1
      \/ \E caps : /\ h = Accepted(f.epoch, caps)
                   /\ f.kind \in {"snapshot", "upsert"} \/ r # None
  BY HandleCases
<1> QED BY <1>2, <1>3, <1>4

(* A record stays a record of what the hub offers.                         *)
LEMMA HandleType ==
    ASSUME NEW i \in Hub, NEW r \in Record \cup {None}, NEW f \in Frame,
           r # None => r.caps \subseteq Offered(i), NEW h, h = HandleAction(i, r, f)
    PROVE  /\ h.rec \in Record \cup {None} /\ h.answer \in Answer
           /\ h.rec # None => h.rec.caps \subseteq Offered(i)
<1>1. CASE h.rec = r /\ h.answer \in Answer
  BY <1>1
<1>2. ASSUME NEW caps, h = Accepted(f.epoch, caps), caps \subseteq Offered(i)
      PROVE  h.rec \in Record /\ h.answer \in Answer /\ h.rec.caps \subseteq Offered(i)
  BY <1>2 DEF Accepted, Record, Answer, Frame, Offered
<1>3. Sane(i, f.caps) => f.caps \subseteq Offered(i)
  BY DEF Sane, Offered, Frame
<1>4. ASSUME NEW caps, h = Accepted(f.epoch, caps),
             \/ Sane(i, f.caps) /\ caps = f.caps
             \/ Sane(i, f.caps) /\ r # None /\ caps = f.caps \cup r.caps
             \/ caps = {}
             \/ r # None /\ (caps = r.caps \ f.caps \/ caps = r.caps)
      PROVE  h.rec \in Record /\ h.answer \in Answer /\ h.rec.caps \subseteq Offered(i)
  <2>1. caps \subseteq Offered(i)
    BY <1>3, <1>4
  <2> QED BY <1>2, <1>4, <2>1
<1>5. \/ h.rec = r /\ h.answer \in Answer
      \/ \E caps : /\ h = Accepted(f.epoch, caps)
                   /\ \/ Sane(i, f.caps) /\ caps = f.caps
                      \/ Sane(i, f.caps) /\ r # None /\ caps = f.caps \cup r.caps
                      \/ caps = {}
                      \/ r # None /\ (caps = r.caps \ f.caps \/ caps = r.caps)
  BY HandleCases
<1> QED BY <1>1, <1>4, <1>5

(* The first frame f of a line that leads to ca is handled: a record that  *)
(* agreed with the line agrees with the rest of it, and so does one that   *)
(* the frame begins, if it is a snapshot.                                  *)
LEMMA HandleAgrees ==
    ASSUME NEW i \in Hub, NEW l \in Seq(Frame), l # <<>>, NEW ca \in SUBSET Cap, NEW e \in Nat,
           Leads(i, l, ca, e), NEW r \in Record \cup {None}, NEW f \in Frame, f = l[1],
           NEW h, h = HandleAction(i, r, f), h.rec # None,
           \/ h.answer.code = 1 /\ f.kind = "snapshot"
           \/ r # None /\ Agrees(i, l, r, ca, e) /\ (h.answer.code = 1 => ~Begins(r, f))
    PROVE  Agrees(i, Tail(l), h.rec, ca, e)
<1>t. PICK t : t = Tail(l)
  OBVIOUS
<1>1. /\ Len(l) \in Nat \ {0} /\ Len(t) = Len(l) - 1 /\ Len(t) \in Nat
      /\ \A k \in 1..Len(t) : t[k] = l[k + 1] /\ k + 1 \in 1..Len(l)
  BY <1>t, EmptySeq, HeadTailProperties
<1>2. \A k \in 1..Len(l) : k = 1 \/ (k - 1 \in 1..Len(t) /\ l[k] = t[k - 1])
  BY <1>1
<1>3. /\ f.epoch \in Nat /\ f.epoch <= e /\ (\A k \in 1..Len(t) : f.epoch <= t[k].epoch)
      /\ (f.kind = "upsert" => Pure(i, f.caps))
  <2>1. 1 \in 1..Len(l)
    BY <1>1
  <2>2. \A k \in 1..Len(t) : k + 1 \in 1..Len(l)
    BY <1>1
  <2> QED BY <2>1, <2>2, <1>1 DEF Leads, InOrder, Unmixed, Frame
(* A capability that the rest of the line does not mention.                *)
<1>4. ASSUME NEW c \in Offered(i), \A k \in 1..Len(t) : ~Sets(i, t[k], c)
      PROVE  /\ Sets(i, f, c) => (Says(f, c) <=> c \in ca)
             /\ ~Sets(i, f, c) => \A k \in 1..Len(l) : ~Sets(i, l[k], c)
  <2>1. ASSUME NEW m \in 1..Len(l), m > 1 PROVE ~Sets(i, l[m], c)
    <3>1. m - 1 \in 1..Len(t) /\ l[m] = t[m - 1]
      BY <1>2, <2>1
    <3> QED BY <1>4, <3>1
  <2>2. 1 \in 1..Len(l)
    BY <1>1
  <2> QED BY <2>1, <2>2, <1>1 DEF Leads, LastWord
<1>5. ASSUME h.rec.epoch = f.epoch,
             \A c \in Offered(i) : Sets(i, f, c) => (c \in h.rec.caps <=> Says(f, c)),
             \/ \A c \in Offered(i) : Sets(i, f, c)
             \/ /\ r # None /\ Agrees(i, l, r, ca, e)
                /\ \A c \in Offered(i) : ~Sets(i, f, c) => (c \in h.rec.caps <=> c \in r.caps)
      PROVE  Agrees(i, t, h.rec, ca, e)
  <2>1. h.rec.epoch <= e /\ \A k \in 1..Len(t) : h.rec.epoch <= t[k].epoch
    BY <1>3, <1>5
  <2>2. ASSUME NEW c \in Offered(i), \A k \in 1..Len(t) : ~Sets(i, t[k], c)
        PROVE  c \in h.rec.caps <=> c \in ca
    <3>1. CASE Sets(i, f, c)
      BY <3>1, <2>2, <1>4, <1>5
    <3>2. CASE ~Sets(i, f, c)
      BY <3>2, <2>2, <1>4, <1>5 DEF Agrees
    <3> QED BY <3>1, <3>2
  <2> QED BY <2>1, <2>2 DEF Agrees
<1>6. ASSUME NEW caps, h = Accepted(f.epoch, caps)
      PROVE  h.rec.epoch = f.epoch /\ h.rec.caps = caps /\ h.answer.code = 1
  BY <1>6 DEF Accepted
<1>7. ASSUME NEW caps, h = Accepted(f.epoch, caps), f.kind = "snapshot", Sane(i, f.caps),
             caps = f.caps
      PROVE  Agrees(i, t, h.rec, ca, e)
  BY <1>5, <1>6, <1>7 DEF Sets, Says
<1>8. ASSUME f.kind # "snapshot" \/ h.answer.code # 1
      PROVE  r # None /\ Agrees(i, l, r, ca, e) /\ (h.answer.code = 1 => ~Begins(r, f))
  BY <1>8
<1>9. ASSUME NEW caps, h = Accepted(f.epoch, caps), f.kind = "upsert", Sane(i, f.caps),
             r # None, f.epoch = r.epoch, caps = f.caps \cup r.caps
      PROVE  Agrees(i, t, h.rec, ca, e)
  <2>1. h.rec.epoch = f.epoch /\ h.rec.caps = f.caps \cup r.caps /\ Agrees(i, l, r, ca, e)
    BY <1>6, <1>8, <1>9
  <2>2. \A c \in Offered(i) : Sets(i, f, c) => (c \in h.rec.caps <=> Says(f, c))
    BY <1>9, <2>1 DEF Sets, Says
  <2>3. \A c \in Offered(i) : ~Sets(i, f, c) => (c \in h.rec.caps <=> c \in r.caps)
    BY <1>9, <2>1 DEF Sets
  <2> QED BY <1>5, <1>9, <2>1, <2>2, <2>3
<1>10. ASSUME NEW caps, h = Accepted(f.epoch, caps), f.kind \in {"upsert", "withdraw"},
              r = None \/ f.epoch > r.epoch
       PROVE  FALSE
  BY <1>6, <1>8, <1>10 DEF Begins
<1>11. ASSUME NEW caps, h = Accepted(f.epoch, caps), f.kind = "withdraw", r # None,
              caps = r.caps \ f.caps
       PROVE  Agrees(i, t, h.rec, ca, e)
  <2>1. h.rec.epoch = f.epoch /\ h.rec.caps = r.caps \ f.caps /\ Agrees(i, l, r, ca, e)
    BY <1>6, <1>8, <1>11
  <2>2. \A c \in Offered(i) : Sets(i, f, c) => (c \in h.rec.caps <=> Says(f, c))
    BY <1>11, <2>1 DEF Sets, Says
  <2>3. \A c \in Offered(i) : ~Sets(i, f, c) => (c \in h.rec.caps <=> c \in r.caps)
    BY <1>11, <2>1 DEF Sets
  <2> QED BY <1>5, <1>11, <2>1, <2>2, <2>3
<1>12. ASSUME NEW caps, h = Accepted(f.epoch, caps), f.kind = "heartbeat", r # None,
              caps = r.caps
       PROVE  Agrees(i, t, h.rec, ca, e)
  BY <1>5, <1>6, <1>8, <1>12 DEF Sets, Says
<1>13. ASSUME h.rec = r, h.answer.code # 1,
              \/ r = None
              \/ f.epoch < r.epoch
              \/ f.kind \in {"snapshot", "upsert"} /\ ~Sane(i, f.caps)
       PROVE  Agrees(i, t, h.rec, ca, e)
  <2>1. r # None /\ Agrees(i, l, r, ca, e) /\ r \in Record /\ r.epoch \in Nat
    BY <1>8, <1>13 DEF Record
  <2>2. r.epoch <= f.epoch
    <3>1. 1 \in 1..Len(l)
      BY <1>1
    <3> QED BY <3>1, <2>1 DEF Agrees
  <2>3. f.kind \in {"snapshot", "upsert"} /\ ~Sane(i, f.caps)
    BY <1>3, <1>13, <2>1, <2>2
  <2>4. \A c \in Offered(i) : ~Sets(i, f, c)
    BY <1>3, <2>3 DEF Sets, Pure
  <2>5. h.rec.epoch <= e /\ \A k \in 1..Len(t) : h.rec.epoch <= t[k].epoch
    <3>1. \A k \in 1..Len(t) : k + 1 \in 1..Len(l) /\ t[k] = l[k + 1]
      BY <1>1
    <3> QED BY <3>1, <2>1, <1>13 DEF Agrees
  <2> QED BY <1>4, <1>13, <2>1, <2>4, <2>5 DEF Agrees
<1>14. Agrees(i, t, h.rec, ca, e)
  BY <1>7, <1>9, <1>10, <1>11, <1>12, <1>13, HandleCases
<1> QED BY <1>14, <1>t

-----------------------------------------------------------------------------
(* The invariant of one hub and of its parent's record of it.              *)
HubInv(h) ==
    /\ own[h] \subseteq Offered(h)
    /\ rec[h] # None => rec[h].caps \subseteq Offered(h)
    /\ sent[h] => Held(Child(h)) \subseteq cache[h]
    /\ Leads(h, Line(h), cache[h], epoch[h])
    /\ (~sent[h] \/ h \notin linked) => Line(h) = <<>>
    /\ rec[h] # None /\ h \notin closing \cup astray =>
           h \in linked /\ sent[h] /\ Agrees(h, Line(h), rec[h], cache[h], epoch[h])

SyncInv == TypeOK /\ \A h \in Hub : HubInv(h)

(* A hub's state in the terms of the lemmas above.                         *)
LEMMA StateFits ==
    ASSUME TypeOK, NEW h \in Hub, HubInv(h)
    PROVE  /\ State(h) \in Upstream /\ Before(h) \in Seq(Frame) /\ Fits(h, Before(h), State(h))
           /\ State(h).sent = sent[h] /\ State(h).cache = cache[h] /\ State(h).epoch = epoch[h]
           /\ State(h).out = up[h]
           /\ rec[h] # None /\ h \notin closing \cup astray =>
                  h \in linked /\ Suits(h, Before(h), State(h), rec[h])
<1>1. /\ sent[h] \in BOOLEAN /\ cache[h] \in SUBSET Cap /\ epoch[h] \in Nat /\ due[h] \in BOOLEAN
      /\ up[h] \in Seq(Frame) /\ taken[h] \in Frame \cup {None}
  BY DEF TypeOK
<1>2. State(h) \in Upstream
  BY <1>1 DEF State, Upstream
<1>3. /\ State(h).sent = sent[h] /\ State(h).cache = cache[h] /\ State(h).epoch = epoch[h]
      /\ State(h).out = up[h]
  BY DEF State
<1>4. Before(h) \in Seq(Frame)
  BY <1>1 DEF Before
<1> QED BY <1>2, <1>3, <1>4 DEF HubInv, Fits, Suits, Line

(* A hub and its parent's record after a step that leaves the hub in the   *)
(* upstream state t, with b before the queue.                              *)
LEMMA HubAfter ==
    ASSUME NEW h \in Hub, NEW b, NEW t \in Upstream,
           own'[h] \subseteq Offered(h),
           rec'[h] # None => rec'[h].caps \subseteq Offered(h),
           t.sent => Held(Child(h))' \subseteq t.cache,
           sent'[h] = t.sent, cache'[h] = t.cache, epoch'[h] = t.epoch, up'[h] = t.out,
           Before(h)' = b, Leads(h, b \o t.out, t.cache, t.epoch),
           (~t.sent \/ h \notin linked') => b \o t.out = <<>>,
           rec'[h] # None /\ h \notin (closing \cup astray)' =>
               h \in linked' /\ Suits(h, b, t, rec'[h])
    PROVE  HubInv(h)'
BY DEF HubInv, Line, Suits

(* A hub that the step does not touch, except that its parent's record may *)
(* be dropped, and that a record of its child may expire.                  *)
LEMMA HubKept ==
    ASSUME NEW h \in Hub, HubInv(h),
           own'[h] = own[h], sent'[h] = sent[h], cache'[h] = cache[h], epoch'[h] = epoch[h],
           Line(h)' = Line(h), h \in linked <=> h \in linked',
           Held(Child(h))' \subseteq Held(Child(h)),
           \/ rec'[h] = None
           \/ /\ rec[h] # None /\ rec'[h].caps = rec[h].caps /\ rec'[h].epoch = rec[h].epoch
              /\ h \in closing \cup astray => h \in (closing \cup astray)'
    PROVE  HubInv(h)'
<1>1. CASE rec'[h] = None
  BY <1>1 DEF HubInv
<1>2. CASE /\ rec[h] # None /\ rec'[h].caps = rec[h].caps /\ rec'[h].epoch = rec[h].epoch
           /\ h \in closing \cup astray => h \in (closing \cup astray)'
  <2>1. Agrees(h, Line(h), rec[h], cache[h], epoch[h])
        => Agrees(h, Line(h), rec'[h], cache[h], epoch[h])
    BY <1>2 DEF Agrees
  <2> QED BY <1>2, <2>1 DEF HubInv
<1> QED BY <1>1, <1>2

(* Who a hub's child is.                                                   *)
LEMMA ChildType ==
    ASSUME TypeOK, NEW h \in Hub
    PROVE  /\ Child(h) \in Record \cup {None}
           /\ h # 1 => h - 1 \in Hub /\ Child(h) = rec[h - 1]
           /\ h = 1 => Child(h) = None /\ Held(Child(h)) = {}
<1>1. h # 1 => h - 1 \in Hub
  BY CapSyncAssumption DEF Hub
<1> QED BY <1>1 DEF TypeOK, Child, Held, Live

(* What a hub has to tell its parent is its own or its child's.            *)
LEMMA NewsIsPure ==
    ASSUME TypeOK, NEW h \in Hub, HubInv(h), NEW r \in Record \cup {None}, NEW s,
           Held(r) \subseteq Held(Child(h)), s = State(h)
    PROVE  s.sent => Pure(h, Aggregate(h, r) \ s.cache)
BY DEF State, HubInv, Aggregate, Pure, Sane, Offered

-----------------------------------------------------------------------------
(* The steps.                                                              *)

(* At first no hub has told its parent anything. *)
LEMMA InitSync == Init => SyncInv
<1> SUFFICES ASSUME Init PROVE SyncInv
  OBVIOUS
<1>1. work.top \in Hub /\ linked \subseteq Hub
  BY CapSyncAssumption DEF Init, Hub
<1>2. TypeOK
  BY <1>1, CapSyncAssumption DEF Init, TypeOK
<1>3. ASSUME NEW h \in Hub PROVE HubInv(h)
  <2>1. Line(h) = <<>>
    BY DEF Init, Line, Before
  <2> QED BY <2>1, EmptyLine DEF Init, HubInv
<1> QED BY <1>2, <1>3 DEF SyncInv

(* Collecting drops a record that counts for nothing. *)
LEMMA CollectedType ==
    ASSUME NEW i \in Hub, NEW r \in Record \cup {None}
    PROVE  /\ Collected(i, r) \in Record \cup {None} /\ Held(Collected(i, r)) = Held(r)
           /\ Collected(i, r) = r \/ Collected(i, r) = None
BY DEF Collected, Held, Live

(* A new capability. *)
LEMMA RegisterStep ==
    ASSUME SyncInv, NEW i \in Hub, NEW c \in Cap, Register(i, c)
    PROVE  SyncInv'
<1>1. TypeOK'
  BY DEF SyncInv, TypeOK, Register, upstream, wires, bounds
<1>2. ASSUME NEW h \in Hub PROVE HubInv(h)'
  <2>1. own'[h] \subseteq Offered(h)
    BY DEF SyncInv, TypeOK, HubInv, Register, Offered
  <2>2. /\ UNCHANGED <<sent, cache, epoch, rec, linked, up, taken, closing, astray>>
        /\ Line(h)' = Line(h) /\ Child(h)' = Child(h)
    BY DEF Register, upstream, wires, Line, Before, Child
  <2> QED BY <2>1, <2>2 DEF SyncInv, HubInv
<1> QED BY <1>1, <1>2 DEF SyncInv

(* After one sync or more of hub i, in the upstream state t, when the       *)
(* record of its child has become r.                                       *)
Resynced(i, t, r) ==
    /\ t \in Upstream /\ Fits(i, Before(i), t)
    /\ i \in linked => t.sent /\ Held(Child(i)) \subseteq t.cache
    /\ i \notin linked => ~t.sent
    /\ i \in linked => \A q \in Record : Suits(i, Before(i), State(i), q)
                                         => Suits(i, Before(i), t, q)
    /\ r = Child(i) \/ r = None

(* The steps of the model that consist of syncs.                           *)
LEMMA SyncStep ==
    ASSUME SyncInv, NEW i \in Hub, NEW t, NEW r, Resynced(i, t, r),
           Install(i, t), up' = [up EXCEPT ![i] = t.out], SetChild(i, r),
           down' \in [Hub -> Seq(Answer)],
           UNCHANGED <<own, linked, taken, closing, astray, work, faults>>
    PROVE  SyncInv'
<1>4. /\ sent' = [sent EXCEPT ![i] = t.sent] /\ cache' = [cache EXCEPT ![i] = t.cache]
      /\ epoch' = [epoch EXCEPT ![i] = t.epoch] /\ due' = [due EXCEPT ![i] = t.due]
      /\ up' = [up EXCEPT ![i] = t.out]
      /\ rec' = IF i = 1 THEN rec ELSE [rec EXCEPT ![i - 1] = r]
      /\ UNCHANGED <<own, linked, taken, closing, astray, work, faults>>
  BY DEF Install, SetChild
<1>5. TypeOK /\ HubInv(i) /\ t \in Upstream
  BY DEF SyncInv, Resynced
<1>6. r \in Record \cup {None}
  BY <1>5, ChildType DEF Resynced
<1>b. PICK b : b = Before(i)
  OBVIOUS
<1>7. rec[i] # None /\ i \notin closing \cup astray => i \in linked /\ Suits(i, b, State(i), rec[i])
  BY <1>5, <1>b, StateFits
<1>10. TypeOK'
  <2>1. /\ t.sent \in BOOLEAN /\ t.cache \in SUBSET Cap /\ t.epoch \in Nat /\ t.due \in BOOLEAN
        /\ t.out \in Seq(Frame)
    BY <1>5 DEF Upstream
  <2>2. rec' \in [Hub -> Record \cup {None}]
    BY <1>4, <1>5, <1>6 DEF TypeOK
  <2> QED BY <1>4, <1>5, <2>1, <2>2 DEF TypeOK
<1>11. \A h \in Hub : h # i - 1 => rec'[h] = rec[h]
  BY <1>4, <1>5 DEF TypeOK
<1>12. Child(i)' = r \/ Child(i)' = None
  BY <1>4, <1>5, ChildType DEF Child, TypeOK
<1>13. HubInv(i)'
  <2>1. /\ sent'[i] = t.sent /\ cache'[i] = t.cache /\ epoch'[i] = t.epoch /\ up'[i] = t.out
        /\ own'[i] = own[i] /\ rec'[i] = rec[i]
    BY <1>4, <1>5, <1>11 DEF TypeOK, Hub
  <2>2. t.sent => Held(Child(i))' \subseteq t.cache
    BY <1>12 DEF Resynced, Held, Live
  <2>3. Before(i)' = b
    BY <1>4, <1>b DEF Before
  <2>4. /\ Leads(i, b \o t.out, t.cache, t.epoch)
        /\ (~t.sent \/ i \notin linked') => b \o t.out = <<>>
    BY <1>4, <1>b DEF Fits, Resynced
  <2>5. rec'[i] # None /\ i \notin (closing \cup astray)' =>
            i \in linked' /\ Suits(i, b, t, rec'[i])
    BY <1>4, <1>5, <1>7, <1>b, <2>1 DEF TypeOK, Resynced
  <2>6. own'[i] \subseteq Offered(i) /\ (rec'[i] # None => rec'[i].caps \subseteq Offered(i))
    BY <1>5, <2>1 DEF HubInv
  <2> QED BY <1>5, <2>1, <2>2, <2>3, <2>4, <2>5, <2>6, HubAfter
<1>14. ASSUME NEW h \in Hub, h # i PROVE HubInv(h)'
  <2>1. /\ own'[h] = own[h] /\ sent'[h] = sent[h] /\ cache'[h] = cache[h] /\ epoch'[h] = epoch[h]
        /\ up'[h] = up[h]
    BY <1>4, <1>5, <1>14 DEF TypeOK
  <2>2. Line(h)' = Line(h) /\ (h \in linked <=> h \in linked')
    BY <1>4, <2>1 DEF Line, Before
  <2>3. Child(h)' = Child(h)
    BY <1>5, <1>11, <1>14, ChildType DEF Child, Hub
  <2>4. Held(Child(h))' = Held(Child(h))
    BY <2>3 DEF Held, Live
  <2>5. rec'[h] = rec[h] \/ rec'[h] = None \/ (h = i - 1 /\ i # 1 /\ rec'[h] = r)
    BY <1>4, <1>5, <1>11 DEF TypeOK
  <2>6. rec'[h] = rec[h] \/ rec'[h] = None
    BY <1>5, <2>5, ChildType DEF Resynced
  <2>7. UNCHANGED <<closing, astray>>
    BY <1>4
  <2> QED BY <2>1, <2>2, <2>4, <2>6, <2>7, HubKept DEF SyncInv
<1> QED BY <1>10, <1>13, <1>14 DEF SyncInv

(* What the first sync of every handler of hub i yields.                   *)
LEMMA FirstSync ==
    ASSUME SyncInv, NEW i \in Hub, NEW t, t = MaybeSync(i, State(i), Child(i), FALSE)
    PROVE  Synced(i, Before(i), State(i), Child(i), t)
<1>1. PICK s : s = State(i)
  OBVIOUS
<1>2. PICK c : c = Child(i)
  OBVIOUS
<1>b. PICK b : b = Before(i)
  OBVIOUS
<1>3. TypeOK /\ HubInv(i)
  BY DEF SyncInv
<1>4. c \in Record \cup {None} /\ own[i] \in SUBSET Cap
  BY <1>2, <1>3, ChildType DEF TypeOK
<1>5. s \in Upstream /\ b \in Seq(Frame) /\ Fits(i, b, s)
  BY <1>1, <1>3, <1>b, StateFits
<1>6. s.sent => Pure(i, Aggregate(i, c) \ s.cache)
  BY <1>1, <1>2, <1>3, <1>4, NewsIsPure
<1>7. t = MaybeSync(i, s, c, TRUE) \/ t = MaybeSync(i, s, c, FALSE)
  BY <1>1, <1>2
<1>8. Synced(i, b, s, c, t)
  BY <1>4, <1>5, <1>6, <1>7, SyncFits
<1> QED BY <1>1, <1>2, <1>b, <1>8

(* A hub's sync before a handler: OnReceive and HandleCapQuery.            *)
LEMMA ArrivesStep ==
    ASSUME SyncInv, NEW i \in Hub, NEW r, Arrives(i, r), r = Child(i) \/ r = None
    PROVE  SyncInv'
<1>1. PICK t : t = MaybeSync(i, State(i), Child(i), FALSE)
  OBVIOUS
<1>2. Synced(i, Before(i), State(i), Child(i), t)
  BY <1>1, FirstSync
<1>3. Resynced(i, t, r)
  BY <1>2 DEF Synced, Resynced, Aggregate
<1>4. /\ Install(i, t) /\ up' = [up EXCEPT ![i] = t.out] /\ SetChild(i, r)
      /\ UNCHANGED <<own, linked, taken, down, closing, astray, work, faults>>
  BY <1>1 DEF Arrives, bounds
<1>5. down' \in [Hub -> Seq(Answer)]
  BY <1>4 DEF SyncInv, TypeOK
<1> QED BY <1>3, <1>4, <1>5, SyncStep

(* OnReceive and HandleCapQuery drop a record only if it has expired.      *)
LEMMA QueryStep ==
    ASSUME SyncInv, NEW i \in Hub, OnReceive(i) \/ HandleCapQuery(i)
    PROVE  SyncInv'
BY ArrivesStep DEF OnReceive, HandleCapQuery, Collected

(* The answer of the parent: a higher epoch, or a resync. *)
LEMMA AnswerStep ==
    ASSUME SyncInv, NEW i \in Hub, HandleCapSyncResp(i)
    PROVE  SyncInv'
<1>a. PICK a : a = Head(down[i])
  OBVIOUS
<1>c. PICK c : c = Child(i)
  OBVIOUS
<1>s. PICK s : s = State(i)
  OBVIOUS
<1>b. PICK b : b = Before(i)
  OBVIOUS
<1>s0. PICK s0 : s0 = MaybeSync(i, s, c, FALSE)
  OBVIOUS
<1>r0. PICK r0 : r0 = Collected(i, c)
  OBVIOUS
<1>k. PICK k : k = [s0 EXCEPT !.epoch = IF a.epoch > @ THEN a.epoch ELSE @]
  OBVIOUS
<1>t. PICK t : t = IF a.code = 1 THEN [k EXCEPT !.due = FALSE]
                   ELSE IF MustResync(a.code) THEN MaybeSync(i, Reset(k), r0, TRUE)
                   ELSE k
  OBVIOUS
<1>1. /\ down[i] # <<>> /\ Install(i, t) /\ up' = [up EXCEPT ![i] = t.out] /\ SetChild(i, r0)
      /\ down' = [down EXCEPT ![i] = Tail(@)]
      /\ UNCHANGED <<own, linked, taken, closing, astray, work, faults>>
  BY <1>a, <1>c, <1>s, <1>s0, <1>r0, <1>k, <1>t DEF HandleCapSyncResp, bounds
<1>2. TypeOK /\ own[i] \in SUBSET Cap /\ down[i] \in Seq(Answer)
  BY DEF SyncInv, TypeOK
<1>3. a \in Answer /\ Tail(down[i]) \in Seq(Answer)
  BY <1>1, <1>2, <1>a, HeadTailProperties
<1>4. c \in Record \cup {None} /\ r0 \in Record \cup {None} /\ Held(r0) = Held(c)
      /\ (r0 = c \/ r0 = None)
  BY <1>2, <1>c, <1>r0, ChildType, CollectedType
<1>5. Synced(i, b, s, c, s0) /\ b \in Seq(Frame)
  <2>1. HubInv(i)
    BY DEF SyncInv
  <2> QED BY <1>2, <1>b, <1>s, <1>c, <1>s0, <2>1, FirstSync, StateFits
<1>6. /\ k \in Upstream /\ k.sent = s0.sent /\ k.cache = s0.cache /\ k.out = s0.out
      /\ s0.epoch <= k.epoch
  <2>1. s0 \in Upstream /\ a.epoch \in Nat
    BY <1>3, <1>5 DEF Synced, Answer
  <2>2. PICK e : e = IF a.epoch > s0.epoch THEN a.epoch ELSE s0.epoch
    OBVIOUS
  <2>3. e \in Nat /\ s0.epoch <= e
    BY <2>1, <2>2 DEF Upstream
  <2>4. k = [s0 EXCEPT !.epoch = e]
    BY <1>k, <2>2
  <2> QED BY <2>1, <2>3, <2>4 DEF Upstream
<1>7. Fits(i, b, k) /\ \A q \in Record : Suits(i, b, s0, q) => Suits(i, b, k, q)
  <2>1. s0 \in Upstream /\ Fits(i, b, s0)
    BY <1>5 DEF Synced
  <2> QED BY <1>5, <1>6, <2>1, RaiseFits
<1>8. /\ i \in linked => k.sent /\ k.cache = Aggregate(i, r0)
      /\ i \notin linked => ~k.sent
  BY <1>4, <1>5, <1>6 DEF Synced, Aggregate
<1>9. /\ t \in Upstream /\ Fits(i, b, t)
      /\ i \in linked => t.sent /\ t.cache = Aggregate(i, r0)
      /\ i \notin linked => ~t.sent
      /\ i \in linked => \A q \in Record : Suits(i, b, k, q) => Suits(i, b, t, q)
  <2>1. CASE a.code = 1
    <3>1. /\ t \in Upstream /\ t.sent = k.sent /\ t.cache = k.cache /\ t.out = k.out
          /\ t.epoch = k.epoch /\ k.epoch <= t.epoch
      <4>1. t = [k EXCEPT !.due = FALSE]
        BY <1>t, <2>1
      <4>2. k \in Upstream
        BY <1>6
      <4>3. /\ t = [sent |-> k.sent, cache |-> k.cache, epoch |-> k.epoch, due |-> FALSE,
                     out |-> k.out]
            /\ k.epoch \in Nat
        BY <4>1, <4>2 DEF Upstream
      <4>4. t \in Upstream
        BY <4>2, <4>3 DEF Upstream
      <4> QED BY <4>3, <4>4
    <3>2. Fits(i, b, t) /\ \A q \in Record : Suits(i, b, k, q) => Suits(i, b, t, q)
      <4>1. k \in Upstream /\ Fits(i, b, k) /\ b \in Seq(Frame)
        BY <1>5, <1>6, <1>7
      <4> QED BY <3>1, <4>1, RaiseFits
    <3> QED BY <1>8, <3>1, <3>2
  <2>2. CASE a.code # 1 /\ MustResync(a.code)
    <3>1. t = MaybeSync(i, Reset(k), r0, TRUE)
      BY <1>t, <2>2
    <3>2. Synced(i, b, k, r0, t)
      <4>1. /\ k \in Upstream /\ Fits(i, b, k) /\ b \in Seq(Frame) /\ own[i] \in SUBSET Cap
            /\ r0 \in Record \cup {None} /\ (i \in linked => k.sent /\ k.cache = Aggregate(i, r0))
        BY <1>2, <1>4, <1>5, <1>6, <1>7, <1>8
      <4> QED BY <3>1, <4>1, ResyncFits
    <3> QED BY <3>2 DEF Synced
  <2>3. CASE a.code # 1 /\ ~MustResync(a.code)
    <3>1. t = k
      BY <1>t, <2>3
    <3> QED BY <1>6, <1>7, <1>8, <3>1
  <2> QED BY <2>1, <2>2, <2>3
<1>10. Resynced(i, t, r0)
  BY <1>4, <1>5, <1>7, <1>9, <1>b, <1>s, <1>c DEF Resynced, Synced, Aggregate
<1>11. down' \in [Hub -> Seq(Answer)]
  BY <1>1, <1>2, <1>3 DEF TypeOK
<1> QED BY <1>1, <1>10, <1>11, SyncStep

(* A worker takes the next frame: the line is the same. *)
LEMMA TakeStep ==
    ASSUME SyncInv, NEW i \in Hub, Take(i)
    PROVE  SyncInv'
<1>1. /\ up[i] \in Seq(Frame) /\ up[i] # <<>> /\ taken[i] = None /\ TypeOK
      /\ taken' = [taken EXCEPT ![i] = Head(up[i])] /\ up' = [up EXCEPT ![i] = Tail(up[i])]
      /\ UNCHANGED <<own, sent, cache, epoch, due, rec, linked, down, closing, astray,
                     work, faults>>
  BY DEF SyncInv, TypeOK, Take, upstream, bounds
<1>2. Head(up[i]) \in Frame /\ Tail(up[i]) \in Seq(Frame) /\ Head(up[i]) = up[i][1]
      /\ 1 \in 1..Len(up[i])
  BY <1>1, HeadTailProperties, EmptySeq
<1>3. TypeOK'
  BY <1>1, <1>2 DEF TypeOK
<1>4. Line(i) = up[i]
  BY <1>1, ConcatEmptySeq DEF Line, Before
<1>5. ~Head(up[i]).late
  <2>1. InOrder(up[i], epoch[i])
    BY <1>4 DEF SyncInv, HubInv, Leads
  <2> QED BY <1>2, <2>1 DEF InOrder
<1>6. Head(up[i]) # None
  BY <1>2, CapSyncAssumption
<1>7. Line(i)' = Line(i)
  <2>1. taken'[i] = Head(up[i]) /\ up'[i] = Tail(up[i])
    BY <1>1 DEF TypeOK
  <2>2. Line(i)' = <<Head(up[i])>> \o Tail(up[i])
    BY <2>1, <1>5, <1>6 DEF Line, Before
  <2>3. <<Head(up[i])>> \o Tail(up[i]) = up[i]
    <3>1. PICK q : q = up[i]
      OBVIOUS
    <3>2. q \in Seq(Frame) /\ q # <<>>
      BY <1>1, <3>1
    <3>3. <<Head(q)>> \o Tail(q) = q
      BY <3>2
    <3> QED BY <3>1, <3>3
  <2> QED BY <1>4, <2>2, <2>3
<1>8. ASSUME NEW h \in Hub PROVE Line(h)' = Line(h)
  <2>1. CASE h = i
    BY <2>1, <1>7
  <2>2. CASE h # i
    BY <2>2, <1>1 DEF TypeOK, Line, Before
  <2> QED BY <2>1, <2>2
<1>9. ASSUME NEW h \in Hub PROVE HubInv(h)'
  BY <1>1, <1>8 DEF SyncInv, HubInv, Child
<1> QED BY <1>3, <1>9 DEF SyncInv

(* The parent's side of a frame: its forced sync tells the grandparent     *)
(* what the frame brought, which is nothing of the parent's own.           *)
LEMMA FrameParent ==
    ASSUME SyncInv, NEW i \in Hub, NEW j \in Hub, j = i + 1,
           NEW s0, s0 = MaybeSync(j, State(j), rec[i], FALSE),
           NEW r \in Record \cup {None}, r # None => r.caps \subseteq Offered(i),
           NEW t, \/ t = MaybeSync(j, s0, r, TRUE)
                  \/ t = s0 /\ Held(r) = Held(rec[i])
    PROVE  /\ t \in Upstream /\ Fits(j, Before(j), t)
           /\ j \in linked => t.sent /\ Held(r) \subseteq t.cache
           /\ j \notin linked => ~t.sent
           /\ j \in linked => \A q \in Record : Suits(j, Before(j), State(j), q)
                                                => Suits(j, Before(j), t, q)
<1>b. PICK b : b = Before(j)
  OBVIOUS
<1>s. PICK s : s = State(j)
  OBVIOUS
<1>1. TypeOK /\ HubInv(j) /\ own[j] \in SUBSET Cap /\ own[j] \subseteq Offered(j)
  BY DEF SyncInv, TypeOK, HubInv
<1>2. Child(j) = rec[i]
  BY DEF Child, Hub
<1>3. Synced(j, b, s, rec[i], s0)
  BY <1>2, <1>b, <1>s, FirstSync
<1>4. b \in Seq(Frame)
  BY <1>1, <1>b, StateFits
<1>5. s0 \in Upstream /\ Fits(j, b, s0)
  BY <1>3 DEF Synced
<1>6. s0.sent => Pure(j, Aggregate(j, r) \ s0.cache)
  <2>1. s0.sent => s0.cache = Aggregate(j, rec[i])
    BY <1>3 DEF Synced
  <2>2. \A c \in Held(r) : c \notin Offered(j)
    BY DEF Held, Live, Offered, Hub
  <2> QED BY <2>1, <2>2 DEF Aggregate, Pure
<1>7. CASE t = MaybeSync(j, s0, r, TRUE)
  <2>1. t = MaybeSync(j, s0, r, TRUE) \/ t = MaybeSync(j, s0, r, FALSE)
    BY <1>7
  <2>2. own[j] \in SUBSET Cap
    BY <1>1
  <2>3. Synced(j, b, s0, r, t)
    BY <1>4, <1>5, <1>6, <2>1, <2>2, SyncFits
  <2> QED BY <1>3, <1>b, <1>s, <2>3 DEF Synced, Aggregate
<1>8. CASE t = s0 /\ Held(r) = Held(rec[i])
  BY <1>3, <1>8, <1>b, <1>s DEF Synced, Aggregate
<1> QED BY <1>7, <1>8

(* The child's side of a frame: what is left of the line agrees with what  *)
(* has become of the record.                                               *)
LEMMA FrameChild ==
    ASSUME TypeOK, NEW i \in Hub, HubInv(i), NEW f \in Frame, f = taken[i],
           NEW r, r = rec[i] \/ r = None, NEW h, h = HandleAction(i, r, f),
           own'[i] = own[i], sent'[i] = sent[i], cache'[i] = cache[i], epoch'[i] = epoch[i],
           up'[i] = up[i], taken'[i] = None, rec'[i] = h.rec,
           Held(Child(i))' = Held(Child(i)), UNCHANGED <<linked, closing>>,
           astray' = IF h.answer.code = 1 THEN Strays(i, r, f) ELSE astray
    PROVE  HubInv(i)'
<1>l. PICK l : l = Line(i)
  OBVIOUS
<1>ca. PICK ca : ca = cache[i]
  OBVIOUS
<1>e. PICK e : e = epoch[i]
  OBVIOUS
<1>1. /\ r \in Record \cup {None} /\ up[i] \in Seq(Frame) /\ ca \in SUBSET Cap /\ e \in Nat
      /\ f # None /\ rec[i] \in Record \cup {None}
  BY CapSyncAssumption, <1>ca, <1>e DEF TypeOK
<1>2. r # None => r.caps \subseteq Offered(i)
  BY DEF HubInv
<1>3. h.rec \in Record \cup {None} /\ (h.rec # None => h.rec.caps \subseteq Offered(i))
  BY <1>1, <1>2, HandleType
<1>7. /\ h.answer.code # 1 => h.rec = r
      /\ h.answer.code = 1 => f.kind \in {"snapshot", "upsert"} \/ r # None
  <2>1. r \in Record \cup {None}
    BY <1>1
  <2> QED BY <2>1, RefusedKeeps
<1>4. Line(i)' = up[i]
  <2>1. Line(i)' = <<>> \o up[i]
    BY DEF Line, Before
  <2> QED BY <1>1, <2>1, ConcatEmptySeq
<1>5. CASE f.late
  <2>1. l = up[i]
    <3>1. l = <<>> \o up[i]
      BY <1>5, <1>l, <1>1 DEF Line, Before
    <3> QED BY <1>1, <3>1, ConcatEmptySeq
  <2>2. h.answer.code = 1 => i \in astray'
    BY <1>5 DEF Strays
  <2>3. h.answer.code # 1 => h.rec = r /\ astray' = astray
    BY <1>7
  <2> QED BY <1>3, <1>4, <1>l, <2>1, <2>2, <2>3 DEF HubInv
<1>6. CASE ~f.late
  <2>1. l = <<f>> \o up[i]
    BY <1>1, <1>6, <1>l DEF Line, Before
  <2>2. l \in Seq(Frame) /\ l # <<>> /\ l[1] = f /\ Tail(l) = up[i]
    <3>1. PICK q : q = up[i]
      OBVIOUS
    <3>2. q \in Seq(Frame) /\ l = <<f>> \o q
      BY <1>1, <2>1, <3>1
    <3>3. l \in Seq(Frame) /\ l # <<>> /\ l[1] = f /\ Tail(l) = q
      BY <3>2
    <3> QED BY <3>1, <3>3
  <2>3. sent[i] /\ i \in linked /\ Leads(i, l, ca, e)
    BY <2>2, <1>l, <1>ca, <1>e DEF HubInv
  <2>4. Leads(i, Tail(l), ca, e)
    BY <1>1, <2>2, <2>3, TailLeads
  <2>5. ASSUME h.rec # None, i \notin (closing \cup astray)'
        PROVE  Agrees(i, Tail(l), h.rec, ca, e)
    <3>1. \/ h.answer.code = 1 /\ f.kind = "snapshot"
          \/ i \notin closing \cup astray /\ (h.answer.code = 1 => ~Begins(r, f))
      BY <1>6, <2>5 DEF Strays
    <3>2. ASSUME i \notin closing \cup astray, f.kind # "snapshot" \/ h.answer.code # 1,
                 h.answer.code = 1 => ~Begins(r, f)
          PROVE  r # None
      <4>1. r # None \/ ~(f.kind \in {"upsert", "withdraw"} /\ h.answer.code = 1)
        BY <3>2 DEF Begins
      <4>2. h.answer.code # 1 => h.rec = r
        BY <1>7
      <4>3. h.answer.code = 1 => f.kind \in {"snapshot", "upsert", "withdraw"} \/ r # None
        BY <1>7
      <4> QED BY <2>5, <3>2, <4>1, <4>2, <4>3
    <3>3. r # None /\ i \notin closing \cup astray => Agrees(i, l, r, ca, e)
      BY <1>l, <1>ca, <1>e DEF HubInv
    <3>4. \/ h.answer.code = 1 /\ f.kind = "snapshot"
          \/ r # None /\ Agrees(i, l, r, ca, e) /\ (h.answer.code = 1 => ~Begins(r, f))
      BY <3>1, <3>2, <3>3
    <3> QED BY <1>1, <2>2, <2>3, <2>5, <3>4, HandleAgrees
  <2> QED BY <1>3, <1>4, <1>ca, <1>e, <2>2, <2>3, <2>4, <2>5 DEF HubInv
<1> QED BY <1>5, <1>6

(* The parent handles a frame. *)
LEMMA FrameStep ==
    ASSUME SyncInv, NEW i \in Hub, HandleFrame(i)
    PROVE  SyncInv'
<1>j. PICK j : j = i + 1
  OBVIOUS
<1>f. PICK f : f = taken[i]
  OBVIOUS
<1>s0. PICK s0 : s0 = MaybeSync(j, State(j), rec[i], FALSE)
  OBVIOUS
<1>r0. PICK r0 : r0 = Collected(j, rec[i])
  OBVIOUS
<1>h. PICK h : h = HandleAction(i, r0, f)
  OBVIOUS
<1>t. PICK t : t = IF h.answer.code = 1 THEN MaybeSync(j, s0, h.rec, TRUE) ELSE s0
  OBVIOUS
<1>1. /\ i \in Below /\ f # None /\ Install(j, t)
      /\ up' = [up EXCEPT ![j] = t.out] /\ rec' = [rec EXCEPT ![i] = h.rec]
      /\ astray' = IF h.answer.code = 1 THEN Strays(i, r0, f) ELSE astray
      /\ taken' = [taken EXCEPT ![i] = None]
      /\ down' = IF i \in linked THEN [down EXCEPT ![i] = Append(@, h.answer)] ELSE down
      /\ UNCHANGED <<own, linked, closing, work, faults>>
  BY <1>j, <1>f, <1>s0, <1>r0, <1>h, <1>t DEF HandleFrame, bounds
<1>2. TypeOK /\ HubInv(i)
  BY DEF SyncInv
<1>3. j \in Hub /\ j # i /\ j # 1 /\ j - 1 = i
  <2>1. work.top \in Hub /\ i \in Below
    BY <1>1, <1>2, CapSyncAssumption DEF TypeOK
  <2> QED BY <2>1, <1>j, CapSyncAssumption DEF Below, Hub
<1>4. HubInv(j)
  BY <1>3 DEF SyncInv
<1>5. f \in Frame /\ rec[i] \in Record \cup {None}
  BY <1>1, <1>2, <1>f DEF TypeOK
<1>6. r0 \in Record \cup {None} /\ Held(r0) = Held(rec[i]) /\ (r0 = rec[i] \/ r0 = None)
  BY <1>3, <1>5, <1>r0, CollectedType
<1>7. r0 # None => r0.caps \subseteq Offered(i)
  BY <1>2, <1>6 DEF HubInv
<1>8. /\ h.rec \in Record \cup {None} /\ h.answer \in Answer
      /\ (h.rec # None => h.rec.caps \subseteq Offered(i))
  BY <1>5, <1>6, <1>7, <1>h, HandleType
<1>9. h.answer.code # 1 => h.rec = r0
  <2>1. /\ h.answer.code # 1 => h.rec = r0
        /\ h.answer.code = 1 => f.kind \in {"snapshot", "upsert"} \/ r0 # None
    BY <1>5, <1>6, <1>h, RefusedKeeps
  <2> QED BY <2>1
<1>10. /\ t \in Upstream /\ Fits(j, Before(j), t)
       /\ j \in linked => t.sent /\ Held(h.rec) \subseteq t.cache
       /\ j \notin linked => ~t.sent
       /\ j \in linked => \A q \in Record : Suits(j, Before(j), State(j), q)
                                            => Suits(j, Before(j), t, q)
  <2>1. PICK r : r = h.rec
    OBVIOUS
  <2>2. r \in Record \cup {None} /\ (r # None => r.caps \subseteq Offered(i))
    BY <1>8, <2>1
  <2>3. \/ t = MaybeSync(j, s0, r, TRUE)
        \/ t = s0 /\ Held(r) = Held(rec[i])
    BY <1>6, <1>9, <1>t, <2>1
  <2>4. /\ t \in Upstream /\ Fits(j, Before(j), t)
        /\ j \in linked => t.sent /\ Held(r) \subseteq t.cache
        /\ j \notin linked => ~t.sent
        /\ j \in linked => \A q \in Record : Suits(j, Before(j), State(j), q)
                                             => Suits(j, Before(j), t, q)
    BY <1>3, <1>j, <1>s0, <2>2, <2>3, FrameParent
  <2> QED BY <2>1, <2>4
<1>11. /\ sent' = [sent EXCEPT ![j] = t.sent] /\ cache' = [cache EXCEPT ![j] = t.cache]
       /\ epoch' = [epoch EXCEPT ![j] = t.epoch] /\ due' = [due EXCEPT ![j] = t.due]
  BY <1>1 DEF Install
<1>12. TypeOK'
  <2>1. /\ t.sent \in BOOLEAN /\ t.cache \in SUBSET Cap /\ t.epoch \in Nat /\ t.due \in BOOLEAN
        /\ t.out \in Seq(Frame)
    BY <1>10 DEF Upstream
  <2>2. /\ sent' \in [Hub -> BOOLEAN] /\ cache' \in [Hub -> SUBSET Cap] /\ epoch' \in [Hub -> Nat]
        /\ due' \in [Hub -> BOOLEAN] /\ up' \in [Hub -> Seq(Frame)]
    BY <1>1, <1>2, <1>11, <2>1 DEF TypeOK
  <2>3. rec' \in [Hub -> Record \cup {None}] /\ taken' \in [Hub -> Frame \cup {None}]
    BY <1>1, <1>2, <1>8 DEF TypeOK
  <2>4. down' \in [Hub -> Seq(Answer)]
    BY <1>1, <1>2, <1>8, AppendProperties DEF TypeOK
  <2>5. astray' \subseteq Hub
    BY <1>1, <1>2 DEF TypeOK, Strays
  <2> QED BY <1>1, <1>2, <2>2, <2>3, <2>4, <2>5 DEF TypeOK
<1>13. ASSUME NEW g \in Hub, g # j
       PROVE  /\ own'[g] = own[g] /\ sent'[g] = sent[g] /\ cache'[g] = cache[g]
              /\ epoch'[g] = epoch[g] /\ up'[g] = up[g]
              /\ Held(Child(g))' = Held(Child(g))
  <2>1. Child(g)' = Child(g)
    <3>1. g # 1 => g - 1 # i
      BY <1>3, <1>13, <1>j DEF Hub
    <3> QED BY <1>1, <1>2, <3>1, ChildType DEF Child, TypeOK
  <2>2. Held(Child(g))' = Held(Child(g))
    BY <2>1 DEF Held, Live
  <2> QED BY <1>1, <1>2, <1>11, <1>13, <2>2 DEF TypeOK
<1>14. HubInv(i)'
  <2>1. taken'[i] = None /\ rec'[i] = h.rec /\ UNCHANGED <<linked, closing>>
    BY <1>1, <1>2 DEF TypeOK
  <2>2. astray' = IF h.answer.code = 1 THEN Strays(i, r0, f) ELSE astray
    BY <1>1
  <2>3. /\ own'[i] = own[i] /\ sent'[i] = sent[i] /\ cache'[i] = cache[i]
        /\ epoch'[i] = epoch[i] /\ up'[i] = up[i] /\ Held(Child(i))' = Held(Child(i))
    BY <1>3, <1>13
  <2> QED BY <1>2, <1>5, <1>6, <1>f, <1>h, <2>1, <2>2, <2>3, FrameChild
<1>15. ASSUME NEW g \in Hub, g # i
       PROVE  /\ rec'[g] = rec[g] /\ taken'[g] = taken[g]
              /\ (g \in closing \cup astray <=> g \in (closing \cup astray)')
  BY <1>1, <1>2, <1>15 DEF TypeOK, Strays
<1>16. HubInv(j)'
  <2>b. PICK b : b = Before(j)
    OBVIOUS
  <2>1. /\ own'[j] \subseteq Offered(j) /\ rec'[j] = rec[j] /\ taken'[j] = taken[j]
        /\ (rec'[j] # None => rec'[j].caps \subseteq Offered(j))
        /\ (j \in closing \cup astray <=> j \in (closing \cup astray)')
    BY <1>1, <1>3, <1>4, <1>15 DEF HubInv
  <2>2. Child(j)' = h.rec
    BY <1>1, <1>2, <1>3 DEF Child, TypeOK
  <2>3. t.sent => Held(Child(j))' \subseteq t.cache
    BY <1>10, <2>2 DEF Held, Live
  <2>4. /\ sent'[j] = t.sent /\ cache'[j] = t.cache /\ epoch'[j] = t.epoch /\ up'[j] = t.out
    BY <1>1, <1>2, <1>3, <1>11 DEF TypeOK
  <2>5. Before(j)' = b
    BY <2>1, <2>b DEF Before
  <2>6. /\ Leads(j, b \o t.out, t.cache, t.epoch)
        /\ (~t.sent \/ j \notin linked') => b \o t.out = <<>>
    BY <1>1, <1>10, <2>b DEF Fits
  <2>7. rec[j] # None /\ j \notin closing \cup astray =>
            j \in linked /\ Suits(j, b, State(j), rec[j])
    BY <1>2, <1>3, <1>4, <2>b, StateFits
  <2>8. rec'[j] # None /\ j \notin (closing \cup astray)' =>
            j \in linked' /\ Suits(j, b, t, rec'[j])
    BY <1>1, <1>2, <1>3, <1>10, <2>1, <2>7, <2>b DEF TypeOK
  <2>9. t \in Upstream
    BY <1>10
  <2> QED BY <1>3, <2>1, <2>3, <2>4, <2>5, <2>6, <2>8, <2>9, HubAfter
<1>17. ASSUME NEW g \in Hub, g # i, g # j PROVE HubInv(g)'
  <2>1. Line(g)' = Line(g) /\ (g \in linked <=> g \in linked')
    <3>1. up'[g] = up[g] /\ taken'[g] = taken[g] /\ linked' = linked
      BY <1>1, <1>13, <1>15, <1>17
    <3> QED BY <3>1 DEF Line, Before
  <2>2. HubInv(g)
    BY DEF SyncInv
  <2>3. /\ own'[g] = own[g] /\ sent'[g] = sent[g] /\ cache'[g] = cache[g] /\ epoch'[g] = epoch[g]
        /\ Held(Child(g))' \subseteq Held(Child(g))
    BY <1>13, <1>17
  <2>4. \/ rec'[g] = None
        \/ /\ rec[g] # None /\ rec'[g].caps = rec[g].caps /\ rec'[g].epoch = rec[g].epoch
           /\ g \in closing \cup astray => g \in (closing \cup astray)'
    BY <1>15, <1>17
  <2> QED BY <2>1, <2>2, <2>3, <2>4, HubKept
<1> QED BY <1>12, <1>14, <1>16, <1>17 DEF SyncInv

(* Half a lease passes: the hub owes a heartbeat. *)
LEMMA HalfLeaseStep ==
    ASSUME SyncInv, NEW i \in Hub, HalfLease(i)
    PROVE  SyncInv'
<1>1. /\ due' = [due EXCEPT ![i] = TRUE]
      /\ UNCHANGED <<own, sent, cache, epoch, rec, linked, up, taken, down, closing, astray,
                     work, faults>>
  BY DEF HalfLease, wires, bounds
<1>2. TypeOK'
  BY <1>1 DEF SyncInv, TypeOK
<1>3. ASSUME NEW h \in Hub PROVE HubInv(h)'
  BY <1>1 DEF SyncInv, HubInv, Line, Before, Child
<1> QED BY <1>2, <1>3 DEF SyncInv

(* A lease runs out: the record counts for nothing but is still there.     *)
LEMMA ExpireStep ==
    ASSUME SyncInv, NEW i \in Hub, Expire(i)
    PROVE  SyncInv'
<1>1. /\ rec' = [rec EXCEPT ![i] = [@ EXCEPT !.expired = TRUE]]
      /\ faults' = faults + 1 /\ rec[i] # None
      /\ UNCHANGED <<own, sent, cache, epoch, due, linked, up, taken, down, closing, astray, work>>
  BY DEF Expire, upstream, wires, Live
<1>2. TypeOK
  BY DEF SyncInv
<1>3. PICK r : r = [rec[i] EXCEPT !.expired = TRUE]
  OBVIOUS
<1>4. /\ r \in Record /\ r.caps = rec[i].caps /\ r.epoch = rec[i].epoch /\ r.expired
      /\ rec' = [rec EXCEPT ![i] = r]
  BY <1>1, <1>2, <1>3 DEF TypeOK, Record
<1>5. TypeOK'
  <2>1. rec \in [Hub -> Record \cup {None}] /\ faults \in Nat
    BY <1>2 DEF TypeOK
  <2>2. rec' \in [Hub -> Record \cup {None}]
    BY <1>4, <2>1
  <2>3. faults' \in Nat
    BY <1>1, <2>1
  <2> QED BY <1>1, <1>2, <2>2, <2>3 DEF TypeOK
<1>6. ASSUME NEW h \in Hub PROVE HubInv(h)'
  <2>1. HubInv(h) /\ Line(h)' = Line(h) /\ (h \in linked <=> h \in linked')
    BY <1>1 DEF SyncInv, Line, Before
  <2>2. Child(h)' = Child(h) \/ ~Live(Child(h)')
    <3>1. CASE h = 1
      BY <3>1 DEF Child
    <3>2. CASE h # 1
      <4>1. h - 1 \in Hub /\ Child(h) = rec[h - 1] /\ Child(h)' = rec'[h - 1]
        BY <1>2, <3>2, ChildType DEF Child
      <4>2. rec'[h - 1] = rec[h - 1] \/ rec'[h - 1] = r
        BY <1>2, <1>4, <4>1 DEF TypeOK
      <4> QED BY <1>4, <4>1, <4>2 DEF Live
    <3> QED BY <3>1, <3>2
  <2>3. Held(Child(h))' \subseteq Held(Child(h))
    BY <2>2 DEF Held, Live
  <2>4. \/ rec'[h] = None
        \/ /\ rec[h] # None /\ rec'[h].caps = rec[h].caps /\ rec'[h].epoch = rec[h].epoch
           /\ h \in closing \cup astray => h \in (closing \cup astray)'
    BY <1>1, <1>2, <1>4 DEF TypeOK
  <2>5. UNCHANGED <<own, sent, cache, epoch>>
    BY <1>1
  <2> QED BY <2>1, <2>3, <2>4, <2>5, HubKept
<1> QED BY <1>5, <1>6 DEF SyncInv

(* A hub that lost its parent connects again, with nothing in the queue.   *)
LEMMA ReconnectStep ==
    ASSUME SyncInv, NEW i \in Hub, Reconnect(i)
    PROVE  SyncInv'
<1>1. /\ i \notin linked /\ linked' = linked \cup {i}
      /\ UNCHANGED <<own, sent, cache, epoch, due, rec, up, taken, down, closing, astray,
                     work, faults>>
  BY DEF Reconnect, upstream, bounds
<1>2. TypeOK'
  BY <1>1 DEF SyncInv, TypeOK
<1>3. ASSUME NEW h \in Hub PROVE HubInv(h)'
  BY <1>1 DEF SyncInv, HubInv, Line, Before, Child
<1> QED BY <1>2, <1>3 DEF SyncInv

(* The end of connections leaves no line of them.                          *)
LEMMA DropType ==
    ASSUME TypeOK, NEW gone \in SUBSET Hub, NEW alive \in SUBSET Hub, Drop(gone, alive)
    PROVE  /\ linked' = linked \ gone
           /\ up' \in [Hub -> Seq(Frame)] /\ down' \in [Hub -> Seq(Answer)]
           /\ \A h \in Hub : up'[h] = IF h \in gone THEN <<>> ELSE up[h]
<1>1. PICK last \in [gone \cap alive -> {0, 1}] :
          /\ \A h \in gone \cap alive : last[h] <= Len(down[h])
          /\ down' = [h \in Hub |-> IF h \in gone \cap alive THEN SubSeq(down[h], 1, last[h])
                                    ELSE IF h \in alive THEN down[h] ELSE <<>>]
  BY DEF Drop
<1>2. ASSUME NEW h \in gone \cap alive PROVE SubSeq(down[h], 1, last[h]) \in Seq(Answer)
  <2>1. PICK q : q = down[h]
    OBVIOUS
  <2>2. PICK n : n = last[h]
    OBVIOUS
  <2>3. q \in Seq(Answer) /\ n \in {0, 1} /\ n <= Len(q)
    BY <1>1, <2>1, <2>2 DEF TypeOK
  <2>4. n \in Int /\ \A k \in 1..n : q[k] \in Answer
    <3>1. \A k \in 1..n : k \in 1..Len(q)
      BY <2>3, LenProperties
    <3> QED BY <2>3, <3>1, ElementOfSeq
  <2>5. SubSeq(q, 1, n) \in Seq(Answer)
    BY <2>4, SubSeqProperties
  <2> QED BY <2>1, <2>2, <2>5
<1>3. \A h \in Hub : down[h] \in Seq(Answer) /\ up[h] \in Seq(Frame)
  BY DEF TypeOK
<1>4. down' \in [Hub -> Seq(Answer)]
  BY <1>1, <1>2, <1>3
<1> QED BY <1>3, <1>4 DEF Drop

(* A connection ends: its line is lost, and its record is about to be.     *)
LEMMA DisconnectStep ==
    ASSUME SyncInv, NEW i \in Hub, Disconnect(i)
    PROVE  SyncInv'
<1>1. /\ Drop({i}, Hub) /\ taken' = [taken EXCEPT ![i] = Late(taken[i])]
      /\ closing' = closing \cup {i} /\ faults' = faults + 1
      /\ UNCHANGED <<own, sent, cache, epoch, due, rec, astray, work>>
  BY DEF Disconnect, upstream
<1>2. TypeOK
  BY DEF SyncInv
<1>3. /\ linked' = linked \ {i} /\ up' \in [Hub -> Seq(Frame)] /\ down' \in [Hub -> Seq(Answer)]
      /\ \A h \in Hub : up'[h] = IF h \in {i} THEN <<>> ELSE up[h]
  <2>1. PICK gone \in SUBSET Hub : gone = {i}
    OBVIOUS
  <2>2. Drop(gone, Hub)
    BY <1>1, <2>1
  <2> QED BY <1>2, <2>1, <2>2, DropType
<1>4. /\ Late(taken[i]) \in Frame \cup {None}
      /\ Late(taken[i]) # None => Late(taken[i]).late
  BY <1>2 DEF TypeOK, Late, Frame
<1>5. TypeOK'
  BY <1>1, <1>2, <1>3, <1>4 DEF TypeOK
<1>6. Line(i)' = <<>>
  BY <1>1, <1>2, <1>3, <1>4 DEF Line, Before, TypeOK
<1>7. \A h \in Hub : h # i => Line(h)' = Line(h)
  BY <1>1, <1>2, <1>3 DEF Line, Before, TypeOK
<1>8. ASSUME NEW h \in Hub PROVE HubInv(h)'
  <2>1. CASE h = i
    BY <1>1, <1>6, <2>1, EmptyLine DEF SyncInv, HubInv, Child
  <2>2. CASE h # i
    BY <1>1, <1>3, <1>7, <2>2 DEF SyncInv, HubInv, Child
  <2> QED BY <2>1, <2>2
<1> QED BY <1>5, <1>8 DEF SyncInv

(* A hub restarts: it has told its parent nothing and holds nothing, and   *)
(* no frame of its connections is left but one the parent has taken.       *)
LEMMA RestartStep ==
    ASSUME SyncInv, NEW i \in Hub, Restart(i)
    PROVE  SyncInv'
<1>g. PICK gone : gone = {i, i - 1} \cap linked
  OBVIOUS
<1>1. /\ i \notin closing /\ own' = [own EXCEPT ![i] = {}]
      /\ sent' = [sent EXCEPT ![i] = FALSE] /\ cache' = [cache EXCEPT ![i] = {}]
      /\ epoch' = [epoch EXCEPT ![i] = 0] /\ due' = [due EXCEPT ![i] = FALSE]
      /\ rec' = IF i = 1 THEN rec ELSE [rec EXCEPT ![i - 1] = None]
      /\ Drop(gone, Hub \ {i})
      /\ taken' = [h \in Hub |-> IF h = i THEN Late(taken[h])
                                 ELSE IF h = i - 1 THEN None ELSE taken[h]]
      /\ closing' = (closing \ {i - 1}) \cup (gone \cap {i}) /\ astray' = astray \ {i - 1}
      /\ faults' = faults + 1 /\ work' = work
  BY <1>g DEF Restart, Install, SetChild
<1>2. TypeOK /\ gone \in SUBSET Hub /\ Hub \ {i} \in SUBSET Hub
  BY <1>g DEF SyncInv, TypeOK
<1>3. /\ linked' = linked \ gone /\ up' \in [Hub -> Seq(Frame)] /\ down' \in [Hub -> Seq(Answer)]
      /\ \A h \in Hub : up'[h] = IF h \in gone THEN <<>> ELSE up[h]
  BY <1>1, <1>2, DropType
<1>4. /\ Late(taken[i]) \in Frame \cup {None}
      /\ Late(taken[i]) # None => Late(taken[i]).late
  BY <1>2 DEF TypeOK, Late, Frame
<1>5. TypeOK'
  <2>1. rec' \in [Hub -> Record \cup {None}]
    BY <1>1, <1>2 DEF TypeOK
  <2>2. taken' \in [Hub -> Frame \cup {None}]
    BY <1>1, <1>2, <1>4 DEF TypeOK
  <2>3. own' \in [Hub -> SUBSET Cap] /\ sent' \in [Hub -> BOOLEAN] /\ cache' \in [Hub -> SUBSET Cap]
        /\ epoch' \in [Hub -> Nat] /\ due' \in [Hub -> BOOLEAN]
    BY <1>1, <1>2 DEF TypeOK
  <2>4. linked' \subseteq Hub /\ closing' \subseteq Hub /\ astray' \subseteq Hub /\ faults' \in Nat
        /\ work' \in Workload
    BY <1>1, <1>2, <1>3 DEF TypeOK
  <2> QED BY <1>3, <2>1, <2>2, <2>3, <2>4 DEF TypeOK
(* The hub itself: its queue was empty if it had no connection.            *)
<1>6. HubInv(i)'
  <2>1. HubInv(i)
    BY DEF SyncInv
  <2>2. up[i] = <<>> \/ i \in linked
    BY <1>2, <2>1, ConcatEqualIffEmpty DEF HubInv, Line, Before, TypeOK
  <2>3. up'[i] = <<>>
    BY <1>3, <1>g, <2>2
  <2>4. Line(i)' = <<>>
    BY <1>1, <1>4, <2>3 DEF Line, Before
  <2>5. /\ own'[i] = {} /\ ~sent'[i] /\ rec'[i] = rec[i]
        /\ i \in astray => i \in astray'
    BY <1>1, <1>2 DEF TypeOK, Hub
  <2>6. rec[i] # None /\ i \notin (closing \cup astray)' => FALSE
    BY <1>1, <1>g, <2>1, <2>5 DEF HubInv
  <2> QED BY <2>1, <2>4, <2>5, <2>6, EmptyLine DEF HubInv
(* Its child: the record is gone, and so is the line.                      *)
<1>7. ASSUME NEW h \in Hub, h # i PROVE HubInv(h)'
  <2>1. HubInv(h)
    BY DEF SyncInv
  <2>2. /\ own'[h] = own[h] /\ sent'[h] = sent[h] /\ cache'[h] = cache[h] /\ epoch'[h] = epoch[h]
    BY <1>1, <1>2, <1>7 DEF TypeOK
  <2>3. Child(h)' = Child(h)
    BY <1>1, <1>2, <1>7, ChildType DEF Child, TypeOK, Hub
  <2>4. Held(Child(h))' = Held(Child(h))
    BY <2>3 DEF Held, Live
  <2>5. CASE h = i - 1
    <3>1. rec'[h] = None /\ taken'[h] = None
      BY <1>1, <1>2, <1>7, <2>5 DEF TypeOK, Hub
    <3>2. up[h] = <<>> \/ h \in linked
      BY <1>2, <2>1, ConcatEqualIffEmpty DEF HubInv, Line, Before, TypeOK
    <3>3. up'[h] = <<>> /\ h \notin linked'
      BY <1>3, <1>g, <2>5, <3>2
    <3>4. Line(h)' = <<>>
      BY <3>1, <3>3 DEF Line, Before
    <3> QED BY <2>1, <2>2, <2>4, <3>1, <3>4, EmptyLine DEF HubInv
  <2>6. CASE h # i - 1
    <3>1. rec'[h] = rec[h] /\ taken'[h] = taken[h] /\ up'[h] = up[h]
      BY <1>1, <1>2, <1>3, <1>g, <1>7, <2>6 DEF TypeOK
    <3>2. Line(h)' = Line(h) /\ (h \in linked <=> h \in linked')
      BY <1>3, <1>g, <1>7, <2>6, <3>1 DEF Line, Before
    <3>3. h \in closing \cup astray => h \in (closing \cup astray)'
      BY <1>1, <2>6
    <3> QED BY <2>1, <2>2, <2>4, <3>1, <3>2, <3>3, HubKept
  <2> QED BY <2>5, <2>6
<1> QED BY <1>5, <1>6, <1>7 DEF SyncInv

(* conn.closed at the parent: the record is dropped, and a forced sync     *)
(* tells the grandparent.                                                  *)
LEMMA ClosedStep ==
    ASSUME SyncInv, NEW i \in Hub, i + 1 \in Hub, ConnClosed(i)
    PROVE  SyncInv'
<1>j. PICK j : j = i + 1
  OBVIOUS
<1>b. PICK b : b = Before(j)
  OBVIOUS
<1>s. PICK s : s = State(j)
  OBVIOUS
<1>t. PICK t : t = IF rec[i] = None THEN s ELSE MaybeSync(j, s, None, TRUE)
  OBVIOUS
<1>1. /\ closing' = closing \ {i} /\ rec' = [rec EXCEPT ![i] = None] /\ astray' = astray \ {i}
      /\ Install(j, t) /\ up' = [up EXCEPT ![j] = t.out]
      /\ UNCHANGED <<own, linked, taken, down, work, faults>>
  BY <1>j, <1>s, <1>t DEF ConnClosed, bounds
<1>2. TypeOK
  BY DEF SyncInv
<1>3. j \in Hub /\ j # i /\ j # 1 /\ j - 1 = i /\ HubInv(j)
  BY <1>j DEF SyncInv, Hub
<1>4. /\ s \in Upstream /\ b \in Seq(Frame) /\ Fits(j, b, s) /\ s.sent = sent[j]
      /\ rec[j] # None /\ j \notin closing \cup astray => j \in linked /\ Suits(j, b, s, rec[j])
  BY <1>2, <1>3, <1>b, <1>s, StateFits
<1>5. /\ t \in Upstream /\ Fits(j, b, t)
      /\ j \in linked => \A q \in Record : Suits(j, b, s, q) => Suits(j, b, t, q)
  <2>1. CASE rec[i] = None
    BY <1>4, <1>t, <2>1
  <2>2. CASE rec[i] # None
    <3>r. PICK r : r = None
      OBVIOUS
    <3>1. r \in Record \cup {None} /\ Held(r) \subseteq Held(Child(j))
      BY <3>r DEF Held, Live
    <3>2. s.sent => Pure(j, Aggregate(j, r) \ s.cache)
      BY <1>2, <1>3, <1>s, <3>1, NewsIsPure
    <3>3. t = MaybeSync(j, s, r, TRUE) \/ t = MaybeSync(j, s, r, FALSE)
      BY <1>t, <2>2, <3>r
    <3>4. own[j] \in SUBSET Cap /\ s \in Upstream /\ b \in Seq(Frame) /\ Fits(j, b, s)
      BY <1>2, <1>3, <1>4 DEF TypeOK
    <3>5. Synced(j, b, s, r, t)
      BY <1>3, <3>1, <3>2, <3>3, <3>4, SyncFits
    <3> QED BY <3>5 DEF Synced
  <2> QED BY <2>1, <2>2
<1>6. /\ sent' = [sent EXCEPT ![j] = t.sent] /\ cache' = [cache EXCEPT ![j] = t.cache]
      /\ epoch' = [epoch EXCEPT ![j] = t.epoch] /\ due' = [due EXCEPT ![j] = t.due]
  BY <1>1 DEF Install
<1>7. TypeOK'
  <2>1. /\ t.sent \in BOOLEAN /\ t.cache \in SUBSET Cap /\ t.epoch \in Nat /\ t.due \in BOOLEAN
        /\ t.out \in Seq(Frame)
    BY <1>5 DEF Upstream
  <2>2. /\ sent' \in [Hub -> BOOLEAN] /\ cache' \in [Hub -> SUBSET Cap] /\ epoch' \in [Hub -> Nat]
        /\ due' \in [Hub -> BOOLEAN] /\ up' \in [Hub -> Seq(Frame)]
    BY <1>1, <1>2, <1>6, <2>1 DEF TypeOK
  <2> QED BY <1>1, <1>2, <2>2 DEF TypeOK
<1>8. HubInv(j)'
  <2>1. /\ own'[j] \subseteq Offered(j) /\ rec'[j] = rec[j] /\ taken'[j] = taken[j]
        /\ (rec'[j] # None => rec'[j].caps \subseteq Offered(j))
        /\ (j \in closing \cup astray <=> j \in (closing \cup astray)')
    BY <1>1, <1>2, <1>3 DEF HubInv, TypeOK
  <2>2. Child(j)' = None
    BY <1>1, <1>2, <1>3 DEF Child, TypeOK
  <2>3. t.sent => Held(Child(j))' \subseteq t.cache
    BY <2>2 DEF Held, Live
  <2>4. /\ sent'[j] = t.sent /\ cache'[j] = t.cache /\ epoch'[j] = t.epoch /\ up'[j] = t.out
    BY <1>1, <1>2, <1>3, <1>6 DEF TypeOK
  <2>5. Before(j)' = b
    BY <2>1, <1>b DEF Before
  <2>6. /\ Leads(j, b \o t.out, t.cache, t.epoch)
        /\ (~t.sent \/ j \notin linked') => b \o t.out = <<>>
    BY <1>1, <1>5 DEF Fits
  <2>7. rec'[j] # None /\ j \notin (closing \cup astray)' =>
            j \in linked' /\ Suits(j, b, t, rec'[j])
    BY <1>1, <1>2, <1>3, <1>4, <1>5, <2>1 DEF TypeOK
  <2>8. t \in Upstream
    BY <1>5
  <2> QED BY <1>3, <2>1, <2>3, <2>4, <2>5, <2>6, <2>7, <2>8, HubAfter
<1>9. ASSUME NEW g \in Hub, g # j PROVE HubInv(g)'
  <2>1. HubInv(g)
    BY DEF SyncInv
  <2>2. /\ own'[g] = own[g] /\ sent'[g] = sent[g] /\ cache'[g] = cache[g] /\ epoch'[g] = epoch[g]
        /\ up'[g] = up[g] /\ taken'[g] = taken[g] /\ linked' = linked
    BY <1>1, <1>2, <1>6, <1>9 DEF TypeOK
  <2>3. Child(g)' = Child(g)
    <3>1. g # 1 => g - 1 # i
      BY <1>3, <1>9, <1>j DEF Hub
    <3> QED BY <1>1, <1>2, <3>1, ChildType DEF Child, TypeOK
  <2>4. Held(Child(g))' = Held(Child(g))
    BY <2>3 DEF Held, Live
  <2>5. Line(g)' = Line(g)
    BY <2>2 DEF Line, Before
  <2>6. \/ rec'[g] = None
        \/ /\ rec[g] # None /\ rec'[g].caps = rec[g].caps /\ rec'[g].epoch = rec[g].epoch
           /\ g \in closing \cup astray => g \in (closing \cup astray)'
    BY <1>1, <1>2 DEF TypeOK
  <2> QED BY <2>1, <2>2, <2>4, <2>5, <2>6, HubKept
<1> QED BY <1>7, <1>8, <1>9 DEF SyncInv

(* Only hubs with a parent have a connection to it, or one that has ended. *)
Bounded == linked \subseteq Below /\ closing \subseteq Below

LEMMA BoundedStep ==
    ASSUME Bounded, [Next]_vars
    PROVE  Bounded'
<1>1. ASSUME work' = work, linked' \subseteq linked, closing' \subseteq closing \cup linked
      PROVE  Bounded'
  BY <1>1 DEF Bounded, Below
<1>2. CASE UNCHANGED vars
  BY <1>1, <1>2 DEF vars
<1>3. ASSUME NEW i \in Hub, NEW c \in Cap, Register(i, c) PROVE Bounded'
  BY <1>1, <1>3 DEF Register, wires, bounds
<1>4. ASSUME NEW i \in Hub, OnReceive(i) \/ HandleCapQuery(i) PROVE Bounded'
  BY <1>1, <1>4 DEF OnReceive, HandleCapQuery, Arrives, bounds
<1>5. ASSUME NEW i \in Hub, Take(i) PROVE Bounded'
  BY <1>1, <1>5 DEF Take, bounds
<1>6. ASSUME NEW i \in Hub, HandleFrame(i) PROVE Bounded'
  BY <1>1, <1>6 DEF HandleFrame, bounds
<1>7. ASSUME NEW i \in Hub, HandleCapSyncResp(i) PROVE Bounded'
  BY <1>1, <1>7 DEF HandleCapSyncResp, bounds
<1>8. ASSUME NEW i \in Hub, HalfLease(i) \/ Expire(i) PROVE Bounded'
  BY <1>1, <1>8 DEF HalfLease, Expire, wires, bounds
<1>9. ASSUME NEW i \in Hub, Disconnect(i) PROVE Bounded'
  BY <1>1, <1>9 DEF Disconnect, Drop
<1>10. ASSUME NEW i \in Hub, ConnClosed(i) PROVE Bounded'
  BY <1>1, <1>10 DEF ConnClosed, bounds
<1>11. ASSUME NEW i \in Hub, Reconnect(i) PROVE Bounded'
  BY <1>11 DEF Reconnect, bounds, Bounded, Below
<1>12. ASSUME NEW i \in Hub, Restart(i) PROVE Bounded'
  BY <1>1, <1>12 DEF Restart, Drop
<1> QED BY <1>2, <1>3, <1>4, <1>5, <1>6, <1>7, <1>8, <1>9, <1>10, <1>11, <1>12 DEF Next

(* Every step keeps the invariant.                                         *)
LEMMA StepSync ==
    ASSUME SyncInv, Bounded, [Next]_vars
    PROVE  SyncInv'
<1>1. CASE UNCHANGED vars
  <2>1. UNCHANGED <<work, own, sent, cache, epoch, due, rec, linked, up, taken, down, closing,
                    astray, faults>>
    BY <1>1 DEF vars
  <2>2. TypeOK'
    BY <2>1 DEF SyncInv, TypeOK
  <2>3. ASSUME NEW h \in Hub PROVE HubInv(h)'
    BY <2>1 DEF SyncInv, HubInv, Line, Before, Child
  <2> QED BY <2>2, <2>3 DEF SyncInv
<1>2. ASSUME NEW i \in Hub, NEW c \in Cap, Register(i, c) PROVE SyncInv'
  BY <1>2, RegisterStep
<1>3. ASSUME NEW i \in Hub, OnReceive(i) \/ HandleCapQuery(i) PROVE SyncInv'
  BY <1>3, QueryStep
<1>4. ASSUME NEW i \in Hub, Take(i) PROVE SyncInv'
  BY <1>4, TakeStep
<1>5. ASSUME NEW i \in Hub, HandleFrame(i) PROVE SyncInv'
  BY <1>5, FrameStep
<1>6. ASSUME NEW i \in Hub, HandleCapSyncResp(i) PROVE SyncInv'
  BY <1>6, AnswerStep
<1>7. ASSUME NEW i \in Hub, HalfLease(i) PROVE SyncInv'
  BY <1>7, HalfLeaseStep
<1>8. ASSUME NEW i \in Hub, Expire(i) PROVE SyncInv'
  BY <1>8, ExpireStep
<1>9. ASSUME NEW i \in Hub, Disconnect(i) PROVE SyncInv'
  BY <1>9, DisconnectStep
<1>10. ASSUME NEW i \in Hub, ConnClosed(i) PROVE SyncInv'
  <2>1. i \in Below /\ work.top \in Hub
    BY <1>10, CapSyncAssumption DEF ConnClosed, Bounded, SyncInv, TypeOK
  <2>2. i + 1 \in Hub
    BY <2>1, CapSyncAssumption DEF Below, Hub
  <2> QED BY <1>10, <2>2, ClosedStep
<1>11. ASSUME NEW i \in Hub, Reconnect(i) PROVE SyncInv'
  BY <1>11, ReconnectStep
<1>12. ASSUME NEW i \in Hub, Restart(i) PROVE SyncInv'
  BY <1>12, RestartStep
<1> QED
  BY <1>1, <1>2, <1>3, <1>4, <1>5, <1>6, <1>7, <1>8, <1>9, <1>10, <1>11, <1>12 DEF Next

(* With nothing under way, the record agrees with the cache.               *)
LEMMA QuietAgrees == SyncInv => BelievedIsHeld
<1> SUFFICES ASSUME SyncInv, NEW i \in Below \ (closing \cup astray), Quiet(i), rec[i] # None
             PROVE  rec[i].caps = {c \in cache[i] : Provider[c] = i}
  BY DEF BelievedIsHeld
<1>1. TypeOK /\ work.top \in Hub
  BY CapSyncAssumption DEF SyncInv, TypeOK
<1>2. i \in Hub
  BY <1>1, CapSyncAssumption DEF Below, Hub
<1>3. HubInv(i) /\ cache[i] \subseteq Cap
  BY <1>1, <1>2 DEF SyncInv, TypeOK
<1>4. Line(i) = <<>>
  BY <1>1, <1>2 DEF Quiet, Idle, Line, Before
<1>5. Len(Line(i)) = 0
  BY <1>4
<1>6. rec[i].caps \subseteq Offered(i) /\ Agrees(i, Line(i), rec[i], cache[i], epoch[i])
  BY <1>3 DEF HubInv
<1>7. \A c \in Offered(i) : c \in rec[i].caps <=> c \in cache[i]
  BY <1>5, <1>6 DEF Agrees
<1> QED BY <1>3, <1>6, <1>7 DEF Offered

(* Types are kept (exec/handler.go, the maps of the capability sync).      *)
THEOREM SyncTypes == Spec => []TypeOK
<1>1. Init => SyncInv /\ Bounded
  BY InitSync DEF Init, Bounded, Below
<1>2. SyncInv /\ Bounded /\ [Next]_vars => (SyncInv /\ Bounded)'
  BY StepSync, BoundedStep
<1>3. SyncInv => TypeOK
  BY DEF SyncInv
<1> QED BY <1>1, <1>2, <1>3, PTL DEF Spec

(* What a hub believes to have told its parent (capUpstreamCache) is what  *)
(* the parent holds of the hub's own capabilities whenever nothing is      *)
(* under way between them, whatever epochs and frames have been refused    *)
(* and whatever connections, hubs and leases have failed.                  *)
THEOREM BeliefIsHeld == Spec => []BelievedIsHeld
<1>1. Init => SyncInv /\ Bounded
  BY InitSync DEF Init, Bounded, Below
<1>2. SyncInv /\ Bounded /\ [Next]_vars => (SyncInv /\ Bounded)'
  BY StepSync, BoundedStep
<1>3. SyncInv => BelievedIsHeld
  BY QuietAgrees
<1> QED BY <1>1, <1>2, <1>3, PTL DEF Spec

=============================================================================
