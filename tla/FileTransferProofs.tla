------------------------- MODULE FileTransferProofs -------------------------
(***************************************************************************)
(* Proofs about FileTransfer, for all contents, sizes, numbers of          *)
(* transfers, sessions and disturbances: as long as clients take the care  *)
(* the code needs, the transfers implement FileCopy, and those that        *)
(* nothing disturbs leave the source under the final name.                 *)
(***************************************************************************)
EXTENDS FileTransfer, TLAPS, FiniteSetTheorems, WellFoundedInduction

(* Which clients' work is safe: the source stays as it is, and a pull is   *)
(* made only when no other transfer is open and no .part file expires; or  *)
(* everything is offered, with its sum, one transfer after the other.      *)
FixedSource(w) ==
    /\ "rewrite" \notin w.kinds
    /\ w.pulls = 0 \/ (~w.overlap /\ "expire" \notin w.kinds)

OffersInTurn(w) == w.pulls = 0 /\ ~w.overlap

Careful == \A w \in Workload : FixedSource(w) \/ OffersInTurn(w)

-----------------------------------------------------------------------------
(* The invariant.                                                          *)

(* No more is asked for than there are transfers.                          *)
Counts ==
    /\ asked \in Nat /\ pulls <= work.pulls
    /\ pulls <= asked /\ asked <= pulls + work.offers

(* One transfer at a time: the frame that will open the session, then the  *)
(* session, then its end.                                                  *)
Opening == {"read", "write", "read_resp"}
Prompt == Opening \cup {"write_resp"}

Turns ==
    ~work.overlap =>
        /\ \A f, g \in net : f.kind \in Opening /\ g.kind \in Opening => f = g
        /\ \A f \in net : f.kind \in Opening => Open = {} /\ finish = None
        /\ \A t, u \in Open : t = u
        /\ finish # None => Open \subseteq {finish.sid}

(* Without pulls, every transfer has a sum.                                *)
Sums ==
    work.pulls = 0 =>
        /\ \A f \in net : f.kind \notin {"read", "read_resp"}
        /\ \A t \in Open : recv[t].sha # None
        /\ finish # None => finish.sha # None

(* The sums are those of versions that were announced.                     *)
Named ==
    /\ \A f \in net : f.kind \in {"write", "read_resp"} => announced # {}
    /\ \A f \in net : f.kind = "write" => f.sha \in announced
    /\ \A t \in Open : announced # {} /\ recv[t].sha \in announced \cup {None}
    /\ finish # None => announced # {} /\ finish.sha \in announced \cup {None}

(* Nobody writes what is under the final name.                             *)
Apart ==
    /\ part # None => part # final
    /\ ~work.overlap => \A t \in Open : recv[t].file # None => recv[t].file # final

(* Between its verification and its renaming a .part file may only vanish. *)
Ready ==
    finish # None /\ finish.at \in {"remove", "rename"} /\ part # None =>
        VerifyPart(part, finish.size, finish.sha)

Prefix(c, b) == Len(c) <= Len(b) /\ \A i \in 1..Len(c) : c[i] = b[i]

Right(off, block) == off < Len(Content[src]) /\ block = Content[src][off + 1]

(* Nothing has disturbed the source file or a transfer that relies on it.  *)
Calm == FixedSource(work) \/ (OffersInTurn(work) /\ ~hurt)

(* While the source stays as it is, what is sent, kept or written is part  *)
(* of it, no file has a hole, and where a session or a pull continues, the *)
(* file has come that far.                                                 *)
SteadyFrame(f) ==
    /\ f.kind = "data" => Right(f.off, f.block)
    /\ f.kind \in {"write", "read_resp"} => f.size = Len(Content[src])
    /\ f.kind \in {"read", "read_resp"} =>
          f.from = 0 \/ (part # None /\ f.from <= Len(disk[part]))

SteadySession(t) ==
    /\ \A c \in recv[t].pending : Right(c[1], c[2])
    /\ recv[t].size = Len(Content[src])
    /\ recv[t].file # None => recv[t].expected <= Len(disk[recv[t].file])

Steady ==
    Calm =>
        /\ announced \subseteq {src}
        /\ \A i \in Inode : Prefix(disk[i], Content[src])
        /\ \A f \in net : SteadyFrame(f)
        /\ \A t \in Open : SteadySession(t)
        /\ finish # None => finish.size = Len(Content[src])

(* What is under the final name has been announced, whole.                 *)
Whole == final # None => \E v \in announced : disk[final] = Content[v]

(* Each transfer has one frame that opens its session, and none of its     *)
(* answers comes before.                                                   *)
Once ==
    /\ \A f \in net : f.kind \in Prompt => f.sid <= asked
    /\ \A f, g \in net : f.kind \in Opening /\ f.sid = g.sid =>
          (g.kind \in Opening => f = g) /\ g.kind # "write_resp"
    /\ finish # None /\ finish.answer =>
          finish.sid <= asked /\ \A f \in net : f.kind \in Opening => f.sid # finish.sid

(* What the provider sends is the file as it is, and nobody else sends.    *)
Senders ==
    /\ \A t \in Transfer :
          /\ send[t] # None <=> sending[t] # None
          /\ send[t] # None => send[t].size = Len(Content[src])
    /\ \A f \in net :
          /\ f.kind = "data" => (f.fin <=> f.off + 1 = Len(Content[src]))
          /\ f.kind = "write_resp" => f.size = Len(Content[src])

(* The chunk of a transfer that is on its way or will be sent.             *)
Due(t, off) ==
    \/ \E f \in net : f.kind = "data" /\ f.sid = t /\ f.off = off
    \/ \E f \in net : f.kind = "write_resp" /\ f.sid = t /\ f.from <= off
    \/ /\ sending[t] # None
       /\ \/ sending[t].at = "open" /\ send[t].from <= off
          \/ sending[t].at = "read" /\ sending[t].off <= off

(* A session has what it has kept, and gets what it lacks.                 *)
Arrives(t) ==
    LET s == recv[t]
    IN  /\ s.expected < s.size
        /\ \A off \in Offsets(s) : off > s.expected
        /\ s.size - 1 \in Offsets(s) => s.fin
        /\ \A off \in Chunk : off >= s.expected /\ off < s.size =>
              off \in Offsets(s) \/ Due(t, off)
        /\ \A f \in net : f.kind = "write_resp" /\ f.sid = t => f.from <= s.expected

Arriving ==
    /\ \A t \in Open : recv[t].file # None => Arrives(t)
    /\ \A f \in net : f.kind = "read_resp" /\ f.from # f.size =>
          \A off \in Chunk : off >= f.from /\ off < f.size => Due(f.sid, off)

(* A session without a file is about to be renamed.                        *)
Closing ==
    /\ expired = {}
    /\ \A t \in Open : recv[t].file = None => finish # None /\ finish.sid = t
    /\ finish # None /\ finish.at \in {"remove", "rename"} => part # None

(* Something has come, and will come to an end.                            *)
Going == (\E f \in net : f.kind \in Opening) \/ Open # {} \/ finish # None

(* No transfer has ended yet, and all build the .part file.                *)
Early ==
    /\ asked > 0 => Going
    /\ \A t \in Open : recv[t].file \in {None, part}
    /\ finish # None => part # None /\ Len(disk[part]) = Len(Content[src])

Heading == final # None \/ (finish # None /\ finish.at = "rename") \/ Early

(* Transfers that nothing has disturbed.                                   *)
Undisturbed == ~hurt => Senders /\ Arriving /\ Closing /\ Heading

TypeInv == TypeOK /\ Counts

FileInv ==
    /\ TypeInv /\ Turns /\ Sums /\ Named
    /\ Apart /\ Ready /\ Steady /\ Whole

-----------------------------------------------------------------------------
(* Minima, maxima and sequences.                                           *)

(* A set of numbers that is not empty has a least one. *)
LEMMA MinIsLeast ==
    ASSUME NEW S \in SUBSET Nat, S # {}
    PROVE  Min(S) \in S /\ \A y \in S : Min(S) <= y
<1>1. PICK x \in S : \A y \in S : ~(<<y, x>> \in OpToRel(<, Nat))
  BY NatLessThanWellFounded, WFMin
<1>2. ASSUME NEW y \in S PROVE x <= y
  <2>1. <<y, x>> \in Nat \X Nat /\ (y < x => <<y, x>>[1] < <<y, x>>[2])
    OBVIOUS
  <2>2. y < x => <<y, x>> \in OpToRel(<, Nat)
    BY <2>1 DEF OpToRel
  <2>3. ~(y < x)
    BY <1>1, <2>2
  <2> QED BY <2>3
<1> QED BY <1>2 DEF Min

(* A set of numbers up to n that is not empty has a greatest one. *)
LEMMA MaxIsGreatest ==
    ASSUME NEW S \in SUBSET Nat, S # {}, NEW n \in Nat, \A s \in S : s <= n
    PROVE  Max(S) \in S /\ \A y \in S : y <= Max(S)
<1> DEFINE D == {n - s : s \in S}
<1>0. \A s \in S : n - s \in Nat
  OBVIOUS
<1>1. D \in SUBSET Nat /\ D # {}
  BY <1>0
<1>2. Min(D) \in D /\ \A y \in D : Min(D) <= y
  BY <1>1, MinIsLeast
<1>3. PICK x \in S : Min(D) = n - x
  BY <1>2
<1>4. \A y \in S : n - x <= n - y
  BY <1>2, <1>3
<1>5. \A y \in S : x >= y
  BY <1>4
<1> QED BY <1>5 DEF Max

(* Of two numbers one is the greater. *)
LEMMA GreaterOfTwo ==
    ASSUME NEW a \in Nat, NEW b \in Nat
    PROVE  Max({a, b}) \in {a, b}
<1>1. \E n \in Nat : \A s \in {a, b} : s <= n
  <2>1. CASE a <= b
    BY <2>1
  <2>2. CASE b <= a
    BY <2>2
  <2> QED BY <2>1, <2>2
<1> QED BY <1>1, MaxIsGreatest

(* There is an inode that no name and no open session refers to. *)
LEMMA FreeInode ==
    ASSUME TypeInv
    PROVE  /\ Free \in Inode /\ Free # part /\ Free # final /\ Free # None
           /\ \A t \in Open : recv[t].file # Free
<1> DEFINE used == {part, final} \cup {recv[t].file : t \in Open}
           slot == [i \in Inode |->
                      IF i = part THEN MaxTransfers + 1
                      ELSE IF i = final THEN MaxTransfers + 2
                      ELSE CHOOSE t \in Open : recv[t].file = i]
<1>1. Inode \ used # {}
  <2> SUFFICES ASSUME \A i \in Inode : i \in used PROVE FALSE
    OBVIOUS
  <2>1. \A i \in Inode : i # part /\ i # final =>
           slot[i] \in Open /\ recv[slot[i]].file = i
    OBVIOUS
  <2>2. Open \subseteq Transfer
    BY DEF Open
  <2> HIDE DEF used
  <2>3. MaxTransfers \in Nat
    BY FileAssumption
  <2>4. slot \in [Inode -> 1..MaxTransfers + 2]
    <3>1. \A i \in Inode : slot[i] \in 1..MaxTransfers + 2
      <4>1. TAKE i \in Inode
      <4>2. CASE i = part
        BY <2>3, <4>2
      <4>3. CASE i # part /\ i = final
        BY <2>3, <4>3
      <4>4. CASE i # part /\ i # final
        <5>1. slot[i] \in Transfer
          BY <2>1, <2>2, <4>4
        <5> HIDE DEF slot
        <5> QED BY <2>3, <5>1 DEF Transfer
      <4> QED BY <4>2, <4>3, <4>4
    <3> QED BY <3>1
  <2>5. /\ IsFiniteSet(Inode) /\ Cardinality(Inode) = MaxTransfers + 3
        /\ IsFiniteSet(1..MaxTransfers + 2)
        /\ Cardinality(1..MaxTransfers + 2) = MaxTransfers + 2
    BY <2>3, FS_Interval DEF Inode
  <2>6. PICK i \in Inode, j \in Inode : i # j /\ slot[i] = slot[j]
    <3> HIDE DEF slot
    <3> QED BY <2>3, <2>4, <2>5, FS_PigeonHole
  <2>7. \A k \in Inode : /\ k = part => slot[k] = MaxTransfers + 1
                         /\ k # part /\ k = final => slot[k] = MaxTransfers + 2
                         /\ k # part /\ k # final => slot[k] \in 1..MaxTransfers
    BY <2>1, <2>2 DEF Transfer
  <2> HIDE DEF slot
  <2> QED BY <2>1, <2>3, <2>6, <2>7
<1>2. Free \in Inode \ used
  <2>1. Inode \ used \in SUBSET Nat
    BY FileAssumption DEF Inode
  <2>2. Free = Min(Inode \ used)
    BY DEF Free
  <2> HIDE DEF used
  <2> QED BY <1>1, <2>1, <2>2, MinIsLeast
<1>3. None \notin Inode
  BY FileAssumption DEF Inode
<1> QED BY <1>2, <1>3

(* Truncate. *)
LEMMA TruncatedFile ==
    ASSUME NEW c \in Seq(Block), NEW n \in Nat
    PROVE  /\ Truncated(c, n) \in Seq(Block) /\ Len(Truncated(c, n)) = n
           /\ \A i \in 1..n : i <= Len(c) => Truncated(c, n)[i] = c[i]
<1>1. Zero \in Block
  BY FileAssumption
<1>2. Truncated(c, n) \in [1..n -> Block]
  BY <1>1 DEF Truncated
<1> QED BY <1>2 DEF Truncated

(* What a file holds after some blocks were written. *)
LEMMA WrittenFile ==
    ASSUME NEW c \in Seq(Block), NEW blocks \in SUBSET (Chunk \X Block),
           NEW w, w = Written(c, blocks)
    PROVE  /\ w \in Seq(Block) /\ Len(c) <= Len(w)
           /\ \A b \in blocks : b[1] + 1 <= Len(w)
           /\ Len(w) = Len(c) \/ \E b \in blocks : b[1] + 1 = Len(w)
           /\ \A i \in 1..Len(w) :
                 \/ \E b \in blocks : b[1] + 1 = i /\ w[i] = b[2]
                 \/ i <= Len(c) /\ w[i] = c[i]
                 \/ i > Len(c) /\ \A b \in blocks : b[1] + 1 # i
<1> DEFINE at == {b[1] + 1 : b \in blocks}
           ends == at \cup {Len(c)}
<1>0. Zero \in Block /\ MaxSize \in Nat
  BY FileAssumption
<1>1. at \in SUBSET (1..MaxSize) /\ Len(c) \in Nat
  BY <1>0 DEF Chunk
<1>n. PICK n \in Nat : n = Len(c)
  BY <1>1
<1> HIDE DEF at
<1>2. ends \in SUBSET Nat /\ ends # {}
  <2>1. 1..MaxSize \subseteq Nat
    BY <1>0
  <2>2. at \subseteq Nat
    BY <1>1, <2>1
  <2> QED BY <1>1, <2>2
<1>3. \A s \in ends : s <= MaxSize + n
  <2> SUFFICES ASSUME NEW s \in ends PROVE s <= MaxSize + n
    OBVIOUS
  <2>1. s \in 1..MaxSize \/ s = n
    BY <1>1, <1>n
  <2> QED BY <1>0, <2>1
<1>4. Max(ends) \in ends /\ \A y \in ends : y <= Max(ends)
  <2>1. MaxSize + n \in Nat
    BY <1>0
  <2> HIDE DEF ends
  <2> QED BY <1>2, <1>3, <2>1, MaxIsGreatest
<1> USE DEF at
<1>m. PICK m : m = Max(ends)
  OBVIOUS
<1>5. /\ m \in Nat /\ Len(c) <= m /\ m \in ends
      /\ \A b \in blocks : b[1] + 1 <= m
  BY <1>2, <1>4, <1>m
<1>6. w = [i \in 1..m |-> IF i \in at THEN (CHOOSE b \in blocks : b[1] + 1 = i)[2]
                          ELSE IF i <= Len(c) THEN c[i] ELSE Zero]
  BY <1>m DEF Written
<1>7. \A i \in at : (CHOOSE b \in blocks : b[1] + 1 = i) \in {b \in blocks : b[1] + 1 = i}
  OBVIOUS
<1>8. w \in [1..m -> Block]
  BY <1>0, <1>5, <1>6, <1>7
<1>9. w \in Seq(Block) /\ Len(w) = m
  BY <1>5, <1>8
<1>10. \A i \in 1..m :
         \/ \E b \in blocks : b[1] + 1 = i /\ w[i] = b[2]
         \/ i <= Len(c) /\ w[i] = c[i]
         \/ i > Len(c) /\ \A b \in blocks : b[1] + 1 # i
  BY <1>1, <1>5, <1>6, <1>7
<1> QED BY <1>5, <1>9, <1>10

-----------------------------------------------------------------------------
(* Frames and chunks.                                                      *)

(* The fields of a frame. *)
LEMMA FrameFields ==
    ASSUME NEW f \in Frame
    PROVE  /\ f.sid \in Transfer
           /\ f.kind \in {"read", "write", "read_resp", "write_resp", "data", "ack"}
           /\ f.kind \in {"write", "read_resp", "write_resp"} => f.size \in Offset
           /\ f.kind = "write" => f.sha \in Version /\ f.over \in BOOLEAN
           /\ f.kind \in {"read", "read_resp", "write_resp"} => f.from \in Offset
           /\ f.kind = "data" => f.off \in Chunk /\ f.block \in Block /\ f.fin \in BOOLEAN
           /\ f.kind = "ack" => f.off \in Offset
  BY DEF Frame

(* Each version is a file that fits. *)
LEMMA VersionFile ==
    ASSUME NEW v \in Version
    PROVE  /\ Content[v] \in Seq(Block) /\ Len(Content[v]) \in Nat
           /\ 1 <= Len(Content[v]) /\ Len(Content[v]) <= MaxSize /\ MaxSize \in Nat
           /\ Len(Content[v]) \in Offset /\ 0 \in Offset
           /\ \A i \in 1..Len(Content[v]) : Content[v][i] \in Block
<1>1. MaxSize \in Nat /\ Content[v] \in Seq(Block) /\ Len(Content[v]) \in 1..MaxSize
  BY FileAssumption
<1> QED BY <1>1 DEF Offset

(* The first missing offset is found. *)
LEMMA ReachedOffset ==
    ASSUME NEW s \in Session, NEW off \in Chunk, NEW n, n = Reached(s, off)
    PROVE  /\ n \in off + 1..MaxSize
           /\ \A i \in off + 1..n - 1 : i \in Offsets(s)
           /\ n \notin Offsets(s)
<1>1. MaxSize \in Nat /\ off \in Nat /\ off + 1 <= MaxSize
  BY FileAssumption DEF Chunk
<1>2. MaxSize \notin Offsets(s)
  BY <1>1 DEF Offsets, Session, Chunk
<1> PICK have : have = Offsets(s)
  OBVIOUS
<1> DEFINE missing == (off + 1..MaxSize) \ have
<1>3. missing \in SUBSET Nat /\ missing # {}
  BY <1>1, <1>2
<1>4. PICK m \in missing : \A y \in missing : m <= y
  <2> HIDE DEF missing
  <2> QED BY <1>3, MinIsLeast
<1>5. m \in off + 1..MaxSize + 1 /\ m \notin have /\ \A i \in off + 1..m - 1 : i \in have
  BY <1>1, <1>4
<1>6. n \in off + 1..MaxSize + 1 /\ n \notin have /\ \A i \in off + 1..n - 1 : i \in have
  BY <1>5 DEF Reached
<1>7. n <= MaxSize
  BY <1>1, <1>2, <1>6
<1> QED BY <1>1, <1>6, <1>7

(* applyRecvChunk. *)
LEMMA AppliedChunk ==
    ASSUME NEW s \in Session, NEW f \in Frame, f.kind = "data",
           NEW r, r = ApplyRecvChunk(s, f)
    PROVE  /\ r \in Session /\ r.size = s.size /\ r.sha = s.sha /\ r.over = s.over
           /\ r.file = s.file
           /\ r.pending \subseteq s.pending \cup {<<f.off, f.block>>}
           /\ f.off = s.expected => r.expected = Reached(s, f.off)
           /\ f.off # s.expected => r.expected = s.expected
<1>1. f.off \in Chunk /\ f.block \in Block /\ f.fin \in BOOLEAN
  BY FrameFields
<1>3. PICK end : end = Reached(s, f.off)
  OBVIOUS
<1>2. Reached(s, f.off) \in Offset
  <2>1. end \in f.off + 1..MaxSize
    BY <1>1, <1>3, ReachedOffset
  <2>2. f.off \in Nat /\ MaxSize \in Nat
    BY <1>1, FileAssumption DEF Chunk
  <2>3. end \in 0..MaxSize
    BY <2>1, <2>2
  <2> QED BY <1>3, <2>3 DEF Offset
<1>4. PICK flag \in BOOLEAN : flag = (s.fin \/ f.fin)
  BY <1>1 DEF Session
<1>5. PICK chunk \in Chunk \X Block : chunk = <<f.off, f.block>>
  BY <1>1
<1>6. CASE f.off = s.expected
  <2>1. r = [s EXCEPT !.fin = flag, !.expected = end,
                      !.pending = {c \in s.pending : c[1] > end}]
    BY <1>3, <1>4, <1>6 DEF ApplyRecvChunk, Session
  <2>2. PICK rest : rest = {c \in s.pending : c[1] > end}
    OBVIOUS
  <2>3. rest \subseteq s.pending /\ rest \in SUBSET (Chunk \X Block)
    BY <2>2 DEF Session
  <2>4. r = [s EXCEPT !.fin = flag, !.expected = end, !.pending = rest]
    BY <2>1, <2>2
  <2>5. end \in Offset /\ end = Reached(s, f.off)
    BY <1>2, <1>3
  <2>6. /\ r \in Session /\ r.size = s.size /\ r.sha = s.sha /\ r.over = s.over
        /\ r.file = s.file /\ r.pending = rest /\ r.expected = end
    BY <2>3, <2>4, <2>5 DEF Session
  <2> QED BY <1>6, <2>3, <2>5, <2>6
<1>7. CASE f.off # s.expected /\ Keeps(s, f.off)
  <2>1. r = [s EXCEPT !.fin = flag, !.pending = s.pending \cup {chunk}]
    BY <1>3, <1>4, <1>5, <1>7 DEF ApplyRecvChunk, Session
  <2>2. PICK more : more = s.pending \cup {chunk}
    OBVIOUS
  <2>3. more \in SUBSET (Chunk \X Block)
    BY <2>2 DEF Session
  <2>4. r = [s EXCEPT !.fin = flag, !.pending = more]
    BY <2>1, <2>2
  <2> QED BY <1>5, <1>7, <2>2, <2>3, <2>4 DEF Session
<1>8. CASE f.off # s.expected /\ ~Keeps(s, f.off)
  <2>1. r = [s EXCEPT !.fin = flag]
    BY <1>4, <1>8 DEF ApplyRecvChunk, Session
  <2> QED BY <1>8, <2>1 DEF Session
<1> QED BY <1>6, <1>7, <1>8

(* The blocks that are written lie in a row, from the one that came. *)
LEMMA FlushedBlocks ==
    ASSUME NEW s \in Session, NEW f \in Frame, f.kind = "data",
           NEW n, n = Reached(s, f.off), NEW blocks, blocks = Flushed(s, f)
    PROVE  /\ blocks \in SUBSET (Chunk \X Block)
           /\ blocks \subseteq s.pending \cup {<<f.off, f.block>>}
           /\ \A b \in blocks : b[1] + 1 <= n \/ b[1] = f.off
           /\ \A i \in f.off + 1..n : \E b \in blocks : b[1] + 1 = i
<1>1. f.off \in Chunk /\ f.block \in Block /\ MaxSize \in Nat
  BY FrameFields, FileAssumption
<1>2. n \in f.off + 1..MaxSize /\ \A i \in f.off + 1..n - 1 : i \in Offsets(s)
  BY <1>1, ReachedOffset
<1>3. s.pending \in SUBSET (Chunk \X Block)
  BY DEF Session
<1>4. blocks = {<<f.off, f.block>>} \cup {c \in s.pending : c[1] < n}
  BY DEF Flushed
<1>5. ASSUME NEW b \in blocks PROVE b[1] + 1 <= n \/ b[1] = f.off
  <2>1. CASE b = <<f.off, f.block>>
    BY <2>1
  <2>2. CASE b \in s.pending /\ b[1] < n
    <3>1. b[1] \in Nat /\ n \in Nat
      BY <1>1, <1>2, <1>3, <2>2 DEF Chunk
    <3> QED BY <2>2, <3>1
  <2> QED BY <1>4, <2>1, <2>2
<1>6. ASSUME NEW i \in f.off + 1..n PROVE \E b \in blocks : b[1] + 1 = i
  <2>1. f.off \in Nat /\ n \in Nat /\ i \in Nat
    BY <1>1, <1>2 DEF Chunk
  <2>2. CASE i = f.off + 1
    <3>1. <<f.off, f.block>> \in blocks /\ <<f.off, f.block>>[1] + 1 = i
      BY <1>4, <2>2
    <3> QED BY <3>1
  <2>3. CASE i # f.off + 1
    <3>1. i - 1 \in f.off + 1..n - 1
      BY <2>1, <2>3
    <3>2. PICK c \in s.pending : c[1] = i - 1
      BY <1>2, <3>1 DEF Offsets
    <3>3. c \in blocks /\ c[1] + 1 = i
      BY <1>4, <2>1, <3>1, <3>2
    <3> QED BY <3>3
  <2> QED BY <2>2, <2>3
<1> QED BY <1>1, <1>3, <1>4, <1>5, <1>6

-----------------------------------------------------------------------------
(* Types.                                                                  *)

USE DEF provider, files, consumer, history

(* The initial state has the types. *)
LEMMA InitTypes ==
    ASSUME Init
    PROVE  TypeInv
<1>1. MaxSize \in Nat /\ 0 \in Transfer \cup {0} /\ work \in Workload /\ src \in Version
  BY FileAssumption DEF Init
<1>3. disk \in [Inode -> Seq(Block)] /\ \A i \in Inode : Len(disk[i]) <= MaxSize
  <2>1. <<>> \in Seq(Block) /\ Len(<<>>) = 0
    OBVIOUS
  <2> QED BY <1>1, <2>1 DEF Init
<1>4. /\ send \in [Transfer -> Outgoing \cup {None}]
      /\ sending \in [Transfer -> Sender \cup {None}]
      /\ recv \in [Transfer -> Session \cup {None}]
  BY DEF Init
<1>5. TypeOK
  BY <1>1, <1>3, <1>4 DEF Init, TypeOK
<1>2. Counts
  BY FileAssumption DEF Init, Counts, TypeOK
<1> QED BY <1>2, <1>5 DEF TypeInv

(* What is asked for is a transfer. *)
LEMMA NextTransfer ==
    ASSUME TypeInv, pulls < work.pulls \/ asked - pulls < work.offers
    PROVE  asked + 1 \in Transfer
<1>1. /\ asked \in Nat /\ pulls \in Nat /\ work.pulls \in Nat /\ work.offers \in Nat
      /\ work.pulls + work.offers <= MaxTransfers /\ MaxTransfers \in Nat
      /\ pulls <= work.pulls /\ asked <= pulls + work.offers
  BY FileAssumption DEF TypeInv, TypeOK, Counts
<1>2. asked + 1 <= MaxTransfers
  BY <1>1
<1> QED BY <1>1, <1>2 DEF Transfer

(* A client's request for a pull keeps the types. *)
LEMMA AskPullTypes ==
    ASSUME TypeInv, UNCHANGED work, NEW from \in Offset, AskPull(from)
    PROVE  TypeInv'
<1>1. asked + 1 \in Transfer
  BY NextTransfer DEF AskPull
<1>2. net' \subseteq Frame
  <2>1. PICK g : g = [kind |-> "read", sid |-> asked + 1, from |-> from]
    OBVIOUS
  <2>2. g \in Frame
    BY <1>1, <2>1 DEF Frame
  <2>3. net' = net \cup {g}
    BY <2>1 DEF AskPull
  <2> QED BY <2>2, <2>3 DEF TypeInv, TypeOK
<1>3. Counts'
  <2>1. asked \in Nat /\ pulls \in Nat /\ work.pulls \in Nat /\ work.offers \in Nat
    BY FileAssumption DEF TypeInv, TypeOK, Counts
  <2>2. pulls <= asked /\ asked <= pulls + work.offers
    BY DEF TypeInv, Counts
  <2>3. asked' = asked + 1 /\ pulls' = pulls + 1 /\ pulls < work.pulls
    BY DEF AskPull
  <2> QED BY <2>1, <2>2, <2>3 DEF Counts
<1> QED BY <1>1, <1>2, <1>3 DEF AskPull, TypeInv, TypeOK

(* A client's offer keeps the types. *)
LEMMA AskOfferTypes ==
    ASSUME TypeInv, UNCHANGED work, NEW over \in BOOLEAN, AskOffer(over)
    PROVE  TypeInv'
<1>1. asked + 1 \in Transfer
  BY NextTransfer DEF AskOffer
<1>2. Len(Content[src]) \in Offset /\ src \in Version
  BY VersionFile DEF TypeInv, TypeOK
<1>3. net' \subseteq Frame
  <2>1. PICK g : g = [kind |-> "write", sid |-> asked + 1, over |-> over,
                      size |-> Len(Content[src]), sha |-> src]
    OBVIOUS
  <2>2. g \in Frame
    BY <1>1, <1>2, <2>1 DEF Frame
  <2>3. net' = net \cup {g}
    BY <2>1 DEF AskOffer
  <2> QED BY <2>2, <2>3 DEF TypeInv, TypeOK
<1>4. Counts'
  BY FileAssumption DEF AskOffer, TypeInv, TypeOK, Counts
<1> QED BY <1>1, <1>2, <1>3, <1>4 DEF AskOffer, TypeInv, TypeOK

(* A disturbance is noted once. *)
LEMMA DisturbTypes ==
    ASSUME TypeInv, UNCHANGED work, NEW kind, Disturb(kind)
    PROVE  faults' \subseteq work'.kinds /\ hurt' \in BOOLEAN
  BY DEF Disturb, TypeInv, TypeOK

(* A new send session. *)
LEMMA StartTypes ==
    ASSUME TypeInv, NEW t \in Transfer, NEW size \in Offset, NEW from \in Offset,
           StartSending(t, size, from)
    PROVE  /\ send' \in [Transfer -> Outgoing \cup {None}]
           /\ sending' \in [Transfer -> Sender \cup {None}]
<1>1. 0 \in Offset
  BY FileAssumption DEF Offset
<1>2. [size |-> size, from |-> from, acked |-> 0] \in Outgoing
  BY <1>1 DEF Outgoing
<1>3. [at |-> "open", off |-> 0] \in Sender
  BY <1>1 DEF Sender
<1>4. /\ send \in [Transfer -> Outgoing \cup {None}]
      /\ sending \in [Transfer -> Sender \cup {None}]
  BY DEF TypeInv, TypeOK
<1> QED BY <1>2, <1>3, <1>4 DEF StartSending

(* What happens at the provider, and to the source, keeps the types. *)
LEMMA ProviderTypes ==
    ASSUME TypeInv, UNCHANGED work, NEW f \in net,
           HandlePullAsProvider(f) \/ HandleWriteRespLocal(f) \/ HandleAck(f)
    PROVE  TypeInv'
<1>1. f \in Frame /\ src \in Version
  BY DEF TypeInv, TypeOK
<1>2. Counts'
  BY DEF HandlePullAsProvider, HandleWriteRespLocal, HandleAck, TypeInv, TypeOK, Counts
<1>3. CASE HandlePullAsProvider(f)
  <2>1. PICK size \in Offset : size = Len(Content[src])
    BY <1>1, VersionFile
  <2>2. PICK from \in Offset : from = (IF f.from > size THEN 0 ELSE f.from)
    BY <1>1, <1>3, FrameFields, VersionFile DEF HandlePullAsProvider
  <2>3. [kind |-> "read_resp", sid |-> f.sid, size |-> size, from |-> from] \in Frame
    BY <1>1, FrameFields DEF Frame
  <2>4. net' \subseteq Frame
    BY <1>3, <2>1, <2>2, <2>3 DEF HandlePullAsProvider, TypeInv, TypeOK
  <2>5. \/ send' = send /\ sending' = sending
        \/ StartSending(f.sid, size, from)
    BY <1>3, <2>1, <2>2 DEF HandlePullAsProvider
  <2>6. announced' \subseteq Version /\ hurt' \in BOOLEAN
    BY <1>1, <1>3 DEF HandlePullAsProvider, TypeInv, TypeOK
  <2>7. /\ send' \in [Transfer -> Outgoing \cup {None}]
        /\ sending' \in [Transfer -> Sender \cup {None}]
    BY <1>1, <2>5, FrameFields, StartTypes DEF TypeInv, TypeOK
  <2> QED BY <1>2, <1>3, <2>4, <2>6, <2>7 DEF HandlePullAsProvider, TypeInv, TypeOK
<1>4. CASE HandleWriteRespLocal(f)
  <2>1. f.sid \in Transfer /\ f.size \in Offset /\ f.from \in Offset /\ 0 \in Offset
    BY <1>1, <1>4, FrameFields, VersionFile DEF HandleWriteRespLocal
  <2>2. \/ send' = send /\ sending' = sending
        \/ StartSending(f.sid, f.size, f.from)
    BY <1>4 DEF HandleWriteRespLocal
  <2>3. /\ send' \in [Transfer -> Outgoing \cup {None}]
        /\ sending' \in [Transfer -> Sender \cup {None}]
    BY <2>1, <2>2, StartTypes DEF TypeInv, TypeOK
  <2>4. net' \subseteq Frame /\ hurt' \in BOOLEAN
    BY <1>4 DEF HandleWriteRespLocal, TypeInv, TypeOK
  <2> QED BY <1>2, <1>4, <2>3, <2>4 DEF HandleWriteRespLocal, TypeInv, TypeOK
<1>5. CASE HandleAck(f)
  <2>1. f.sid \in Transfer /\ f.off \in Offset
    BY <1>1, <1>5, FrameFields DEF HandleAck
  <2>2. send' \in [Transfer -> Outgoing \cup {None}]
    <3>1. CASE send[f.sid] = None
      BY <1>5, <3>1 DEF HandleAck, TypeInv, TypeOK
    <3>2. CASE send[f.sid] # None
      <4>1. send[f.sid] \in Outgoing
        BY <2>1, <3>2 DEF TypeInv, TypeOK
      <4>2. Max({send[f.sid].acked, f.off}) \in Offset
        <5>1. PICK a \in Offset, b \in Offset : a = send[f.sid].acked /\ b = f.off
          BY <2>1, <4>1 DEF Outgoing
        <5>2. a \in Nat /\ b \in Nat
          BY FileAssumption DEF Offset
        <5> QED BY <5>1, <5>2, GreaterOfTwo
      <4>3. PICK acked \in Offset : send' = [send EXCEPT ![f.sid].acked = acked]
        BY <1>5, <3>2, <4>2 DEF HandleAck
      <4>4. [send[f.sid] EXCEPT !.acked = acked] \in Outgoing
        BY <4>1 DEF Outgoing
      <4> QED BY <4>3, <4>4 DEF TypeInv, TypeOK
    <3> QED BY <3>1, <3>2
  <2> QED BY <1>2, <1>5, <2>2 DEF HandleAck, TypeInv, TypeOK
<1> QED BY <1>3, <1>4, <1>5

(* sendFileData keeps the types. *)
LEMMA SendTypes ==
    ASSUME TypeInv, UNCHANGED work, NEW t \in Transfer, SendOpen(t) \/ SendChunk(t)
    PROVE  TypeInv'
<1>1. Counts'
  BY DEF SendOpen, SendChunk, TypeInv, TypeOK, Counts
<1>2. /\ sending \in [Transfer -> Sender \cup {None}]
      /\ send \in [Transfer -> Outgoing \cup {None}] /\ src \in Version
  BY DEF TypeInv, TypeOK
<1>3. sending[t] \in Sender
  BY <1>2 DEF SendOpen, SendChunk
<1>4. CASE SendOpen(t)
  <2>1. 0 \in Offset
    BY FileAssumption DEF Offset
  <2>2. CASE sending' = [sending EXCEPT ![t] = None]
    BY <1>1, <1>2, <1>4, <2>2 DEF SendOpen, TypeInv, TypeOK
  <2>3. CASE send[t] # None /\ \E off \in {0, send[t].from} :
               sending' = [sending EXCEPT ![t] = [at |-> "read", off |-> off]]
    <3>1. PICK off \in Offset : sending' = [sending EXCEPT ![t] = [at |-> "read", off |-> off]]
      BY <1>2, <2>1, <2>3 DEF Outgoing
    <3>2. [at |-> "read", off |-> off] \in Sender
      BY DEF Sender
    <3>3. sending' \in [Transfer -> Sender \cup {None}]
      BY <1>2, <3>1, <3>2
    <3> QED BY <1>1, <1>4, <3>3 DEF SendOpen, TypeInv, TypeOK
  <2> QED BY <1>4, <2>2, <2>3 DEF SendOpen
<1>5. CASE SendChunk(t)
  <2>1. PICK off \in Offset : off = sending[t].off
    BY <1>3 DEF Sender
  <2>2. PICK size \in Offset : size = Len(Content[src]) /\ size \in Nat /\ size <= MaxSize
    BY <1>2, VersionFile
  <2>3. MaxSize \in Nat /\ off \in Nat
    BY FileAssumption DEF Offset
  <2>4. ASSUME off < size
        PROVE  /\ \A fin \in BOOLEAN :
                    [kind |-> "data", sid |-> t, off |-> off,
                     block |-> Content[src][off + 1], fin |-> fin] \in Frame
               /\ off + 1 \in Offset
    <3>1. off + 1 \in 1..Len(Content[src]) /\ off \in Chunk /\ off + 1 \in Offset
      BY <2>2, <2>3, <2>4 DEF Chunk, Offset
    <3>2. Content[src][off + 1] \in Block
      BY <1>2, <3>1, VersionFile
    <3> QED BY <3>1, <3>2 DEF Frame
  <2>5. net' \subseteq Frame
    <3>1. CASE off >= size
      BY <1>5, <2>1, <2>2, <3>1 DEF SendChunk, TypeInv, TypeOK
    <3>2. CASE off < size
      <4>1. PICK fin \in BOOLEAN : fin = (off + 1 = send[t].size)
        OBVIOUS
      <4>2. net' \subseteq net \cup {[kind |-> "data", sid |-> t, off |-> off,
                                     block |-> Content[src][off + 1], fin |-> fin]}
        BY <1>5, <2>1, <4>1 DEF SendChunk
      <4> QED BY <2>4, <3>2, <4>2 DEF TypeInv, TypeOK
    <3> QED BY <2>2, <2>3, <3>1, <3>2
  <2>6. sending' \in [Transfer -> Sender \cup {None}]
    <3> DEFINE over == off >= size \/ off + 1 = send[t].size
    <3>1. sending' = [sending EXCEPT ![t] = IF over THEN None ELSE [@ EXCEPT !.off = off + 1]]
      BY <1>5, <2>1, <2>2 DEF SendChunk
    <3>2. CASE over
      <4> HIDE DEF over
      <4> QED BY <1>2, <3>1, <3>2
    <3>3. CASE ~over
      <4>1. [sending[t] EXCEPT !.off = off + 1] \in Sender
        BY <1>3, <2>2, <2>3, <2>4, <3>3 DEF Sender
      <4> HIDE DEF over
      <4> QED BY <1>2, <3>1, <3>3, <4>1
    <3> QED BY <3>2, <3>3
  <2>7. send' \in [Transfer -> Outgoing \cup {None}]
    <3>1. send' = send \/ send' = [send EXCEPT ![t] = None]
      BY <1>5 DEF SendChunk
    <3> QED BY <1>2, <3>1
  <2> QED BY <1>1, <1>5, <2>5, <2>6, <2>7 DEF SendChunk, TypeInv, TypeOK
<1> QED BY <1>4, <1>5

(* Disturbances and the janitor keep the types. *)
LEMMA DisturbanceTypes ==
    ASSUME TypeInv, UNCHANGED work,
           \/ \E v \in Version : Rewrite(v)
           \/ \E f \in net : Lose(f)
           \/ RestartConsumer \/ RestartProvider
           \/ \E ts \in SUBSET Open : CleanupClose(ts)
           \/ CleanupDelete \/ CleanupExpiredParts
    PROVE  TypeInv'
<1>1. CASE \E v \in Version : Rewrite(v)
  <2>1. faults' \subseteq work'.kinds /\ hurt' \in BOOLEAN
    BY <1>1, DisturbTypes DEF Rewrite
  <2> QED BY <1>1, <2>1 DEF Rewrite, TypeInv, TypeOK, Counts
<1>2. CASE \E f \in net : Lose(f)
  <2>1. faults' \subseteq work'.kinds /\ hurt' \in BOOLEAN
    BY <1>2, DisturbTypes DEF Lose
  <2> QED BY <1>2, <2>1 DEF Lose, TypeInv, TypeOK, Counts
<1>3. CASE RestartConsumer
  <2>1. faults' \subseteq work'.kinds /\ hurt' \in BOOLEAN
    BY <1>3, DisturbTypes DEF RestartConsumer
  <2>2. recv' \in [Transfer -> Session \cup {None}]
    BY <1>3 DEF RestartConsumer
  <2> QED BY <1>3, <2>1, <2>2 DEF RestartConsumer, TypeInv, TypeOK, Counts
<1>4. CASE RestartProvider
  <2>1. faults' \subseteq work'.kinds /\ hurt' \in BOOLEAN
    BY <1>4, DisturbTypes DEF RestartProvider
  <2>2. /\ send' \in [Transfer -> Outgoing \cup {None}]
        /\ sending' \in [Transfer -> Sender \cup {None}]
    BY <1>4 DEF RestartProvider
  <2> QED BY <1>4, <2>1, <2>2 DEF RestartProvider, TypeInv, TypeOK, Counts
<1>5. ASSUME NEW ts \in SUBSET Open, CleanupClose(ts) PROVE TypeInv'
  <2>1. faults' \subseteq work'.kinds /\ hurt' \in BOOLEAN
    BY <1>5, DisturbTypes DEF CleanupClose, MaybeJanitor
  <2>2. recv \in [Transfer -> Session \cup {None}]
    BY DEF TypeInv, TypeOK
  <2>3. \A t \in ts : [recv[t] EXCEPT !.file = None] \in Session
    <3>1. \A t \in ts : recv[t] \in Session
      BY <2>2 DEF Open
    <3> QED BY <3>1 DEF Session
  <2>4. recv' \in [Transfer -> Session \cup {None}]
    BY <1>5, <2>2, <2>3 DEF CleanupClose
  <2>5. expired' \subseteq Transfer
    BY <1>5 DEF CleanupClose, Open
  <2> QED BY <1>5, <2>1, <2>4, <2>5 DEF CleanupClose, TypeInv, TypeOK, Counts
<1>6. CASE CleanupDelete
  <2>1. recv' \in [Transfer -> Session \cup {None}]
    BY <1>6 DEF CleanupDelete, TypeInv, TypeOK
  <2> QED BY <1>6, <2>1 DEF CleanupDelete, TypeInv, TypeOK, Counts
<1>7. CASE CleanupExpiredParts
  <2>1. faults' \subseteq work'.kinds /\ hurt' \in BOOLEAN
    BY <1>7, DisturbTypes DEF CleanupExpiredParts, MaybeJanitor
  <2> QED BY <1>7, <2>1 DEF CleanupExpiredParts, TypeInv, TypeOK, Counts
<1> QED BY <1>1, <1>2, <1>3, <1>4, <1>5, <1>6, <1>7

(* A new receive session. *)
LEMMA OpenTypes ==
    ASSUME TypeInv, NEW t \in Transfer, NEW p \in Inode \cup {None}, NEW size \in Offset,
           NEW sha \in Version \cup {None}, NEW over \in BOOLEAN, NEW from \in Offset,
           OpenSession(t, p, size, sha, over, from)
    PROVE  /\ part' \in Inode /\ recv' \in [Transfer -> Session \cup {None}]
           /\ disk' \in [Inode -> Seq(Block)] /\ \A j \in Inode : Len(disk'[j]) <= MaxSize
<1>0. PICK i : i = IF p = None THEN Free ELSE p
  OBVIOUS
<1>1. i \in Inode
  BY <1>0, FreeInode
<1>2. /\ disk \in [Inode -> Seq(Block)] /\ recv \in [Transfer -> Session \cup {None}]
      /\ \A j \in Inode : Len(disk[j]) <= MaxSize
  BY DEF TypeInv, TypeOK
<1>3. from \in Nat /\ from <= MaxSize
  BY FileAssumption DEF Offset
<1>4. NewSession(size, sha, over, i, from) \in Session
  BY <1>1 DEF NewSession, Session
<1>5. PICK c \in Seq(Block) : c = IF p = None THEN <<>> ELSE disk[i]
  <2>1. disk[i] \in Seq(Block) /\ <<>> \in Seq(Block)
    BY <1>1, <1>2
  <2> QED BY <2>1
<1>6. PICK d : d = Truncated(c, from)
  OBVIOUS
<1>7. d \in Seq(Block) /\ Len(d) = from
  BY <1>3, <1>6, TruncatedFile
<1>8. disk' = [disk EXCEPT ![i] = d]
  BY <1>0, <1>5, <1>6 DEF OpenSession
<1>9. part' = i /\ recv' = [recv EXCEPT ![t] = NewSession(size, sha, over, i, from)]
  BY <1>0 DEF OpenSession
<1>10. disk' \in [Inode -> Seq(Block)]
  BY <1>1, <1>2, <1>7, <1>8
<1>11. recv' \in [Transfer -> Session \cup {None}]
  BY <1>2, <1>4, <1>9
<1>12. \A j \in Inode : Len(disk'[j]) <= MaxSize
  BY <1>1, <1>2, <1>3, <1>7, <1>8
<1> QED BY <1>1, <1>9, <1>10, <1>11, <1>12

(* The verified file and its transfer. *)
LEMMA PromoteType ==
    ASSUME NEW t \in Transfer, NEW size \in Offset, NEW sha \in Version \cup {None},
           NEW over \in BOOLEAN, NEW answer \in BOOLEAN
    PROVE  Promote(t, size, sha, over, answer) \in Finish
  BY DEF Promote, Finish

(* handleReadRespLocal keeps the types. *)
LEMMA ReadRespTypes ==
    ASSUME TypeInv, UNCHANGED work, NEW f \in net, HandleReadRespLocal(f)
    PROVE  TypeInv'
<1>1. f \in Frame /\ part \in Inode \cup {None}
  BY DEF TypeInv, TypeOK
<1>2. f.kind = "read_resp" /\ f.sid \in Transfer /\ f.size \in Offset /\ f.from \in Offset
  BY <1>1, FrameFields DEF HandleReadRespLocal
<1>3. Counts' /\ hurt' \in BOOLEAN /\ net' \subseteq Frame
  BY DEF HandleReadRespLocal, TypeInv, TypeOK, Counts
<1>4. CASE UNCHANGED <<recv, finish, files>>
  BY <1>3, <1>4 DEF HandleReadRespLocal, TypeInv, TypeOK
<1>5. CASE /\ finish' = Promote(f.sid, f.size, None, TRUE, FALSE)
           /\ UNCHANGED <<part, disk, recv, final>>
  <2>1. finish' \in Finish
    BY <1>2, <1>5, PromoteType
  <2> QED BY <1>3, <1>5, <2>1 DEF HandleReadRespLocal, TypeInv, TypeOK
<1>6. CASE /\ part' = IF part = None THEN Free ELSE part
           /\ disk' = IF part = None THEN [disk EXCEPT ![Free] = <<>>] ELSE disk
           /\ UNCHANGED <<finish, recv, final>>
  <2>1. part' \in Inode
    BY <1>1, <1>6, FreeInode
  <2>2. <<>> \in Seq(Block) /\ Len(<<>>) <= MaxSize
    BY FileAssumption
  <2>3. disk' \in [Inode -> Seq(Block)] /\ \A j \in Inode : Len(disk'[j]) <= MaxSize
    <3>1. PICK i : i = Free
      OBVIOUS
    <3>2. disk' = disk \/ disk' = [disk EXCEPT ![i] = <<>>]
      BY <1>6, <3>1
    <3> QED BY <2>2, <3>2 DEF TypeInv, TypeOK
  <2> QED BY <1>3, <1>6, <2>1, <2>3 DEF HandleReadRespLocal, TypeInv, TypeOK
<1>7. CASE /\ OpenSession(f.sid, part, f.size, None, TRUE, f.from)
           /\ UNCHANGED <<finish, final>>
  <2>0. None \in Version \cup {None} /\ TRUE \in BOOLEAN
    OBVIOUS
  <2>2. /\ part' \in Inode /\ recv' \in [Transfer -> Session \cup {None}]
        /\ disk' \in [Inode -> Seq(Block)] /\ \A j \in Inode : Len(disk'[j]) <= MaxSize
    BY <1>1, <1>2, <1>7, <2>0, OpenTypes
  <2> QED BY <1>3, <1>7, <2>2 DEF HandleReadRespLocal, TypeInv, TypeOK
<1> QED BY <1>4, <1>5, <1>6, <1>7 DEF HandleReadRespLocal

(* handleOfferAsConsumer keeps the types. *)
LEMMA OfferTypes ==
    ASSUME TypeInv, UNCHANGED work, NEW f \in net, HandleOfferAsConsumer(f)
    PROVE  TypeInv'
<1>1. f \in Frame /\ part \in Inode \cup {None}
  BY DEF TypeInv, TypeOK
<1>2. /\ f.kind = "write" /\ f.sid \in Transfer /\ f.size \in Offset
      /\ f.sha \in Version \cup {None} /\ f.over \in BOOLEAN
  BY <1>1, FrameFields DEF HandleOfferAsConsumer
<1>3. PICK p \in Inode \cup {None} : p = UsablePart(f)
  BY <1>1 DEF UsablePart
<1>4. PICK from \in Offset : from = IF p = None THEN 0 ELSE Len(disk[p])
  BY FileAssumption DEF TypeInv, TypeOK, Offset
<1>5. WriteResp(f, from) \in Frame
  BY <1>2 DEF WriteResp, Frame
<1>6. Counts' /\ hurt' \in BOOLEAN
  BY DEF HandleOfferAsConsumer, TypeInv, TypeOK, Counts
<1>7. net' \subseteq Frame
  <2>1. net' \subseteq net \cup {WriteResp(f, from)}
    BY <1>3, <1>4 DEF HandleOfferAsConsumer
  <2> QED BY <1>5, <2>1 DEF TypeInv, TypeOK
<1>8. CASE UNCHANGED <<recv, finish, files>>
  BY <1>6, <1>7, <1>8 DEF HandleOfferAsConsumer, TypeInv, TypeOK
<1>9. CASE /\ finish' = Promote(f.sid, f.size, f.sha, f.over, TRUE)
           /\ UNCHANGED <<part, disk, recv, final>>
  <2>1. finish' \in Finish
    BY <1>2, <1>9, PromoteType
  <2> QED BY <1>6, <1>7, <1>9, <2>1 DEF HandleOfferAsConsumer, TypeInv, TypeOK
<1>10. CASE part' = None /\ UNCHANGED <<finish, recv, final, disk>>
  BY <1>6, <1>7, <1>10 DEF HandleOfferAsConsumer, TypeInv, TypeOK
<1>11. CASE /\ OpenSession(f.sid, p, f.size, f.sha, f.over, from)
            /\ UNCHANGED <<finish, final>>
  <2>2. /\ part' \in Inode /\ recv' \in [Transfer -> Session \cup {None}]
        /\ disk' \in [Inode -> Seq(Block)] /\ \A j \in Inode : Len(disk'[j]) <= MaxSize
    BY <1>2, <1>11, OpenTypes
  <2> QED BY <1>6, <1>7, <1>11, <2>2 DEF HandleOfferAsConsumer, TypeInv, TypeOK
<1> QED BY <1>3, <1>4, <1>8, <1>9, <1>10, <1>11 DEF HandleOfferAsConsumer

(* What a data frame does to the sessions. *)
LEMMA DataSession ==
    ASSUME TypeInv, NEW f \in net, NEW again \in BOOLEAN, NEW ack \in BOOLEAN,
           HandleData(f, again, ack)
    PROVE  /\ f \in Frame /\ f.kind = "data" /\ f.sid \in Transfer /\ finish = None
           /\ recv[f.sid] \in Session /\ recv[f.sid].file \in Inode
           /\ recv' \in [Transfer -> Session \cup {None}] /\ recv'[f.sid] \in Session
           /\ \A t \in Transfer \ {f.sid} : recv'[t] = recv[t]
           /\ recv'[f.sid].size = recv[f.sid].size /\ recv'[f.sid].sha = recv[f.sid].sha
           /\ recv'[f.sid].file \in {recv[f.sid].file, None}
           /\ recv'[f.sid].pending \subseteq recv[f.sid].pending \cup {<<f.off, f.block>>}
           /\ f.off = recv[f.sid].expected =>
                recv'[f.sid].expected = Reached(recv[f.sid], f.off)
           /\ f.off # recv[f.sid].expected =>
                recv'[f.sid].expected = recv[f.sid].expected
           /\ finish' # None =>
                /\ finish' \in Finish /\ finish'.sid = f.sid /\ finish'.at = "verify"
                /\ finish'.size = recv[f.sid].size /\ finish'.sha = recv[f.sid].sha
<1>1. f \in Frame /\ f.kind = "data" /\ f.sid \in Transfer /\ finish = None
  BY FrameFields DEF HandleData, Receiving, TypeInv, TypeOK
<1>2. recv \in [Transfer -> Session \cup {None}]
  BY DEF TypeInv, TypeOK
<1>3. recv[f.sid] \in Session /\ recv[f.sid].file # None
  BY <1>1, <1>2 DEF HandleData, Listening
<1>4. PICK s \in Session : s = recv[f.sid]
  BY <1>3
<1>5. s.file \in Inode
  BY <1>3, <1>4 DEF Session
<1>6. PICK r : r = ApplyRecvChunk(s, f)
  OBVIOUS
<1>7. /\ r \in Session /\ r.size = s.size /\ r.sha = s.sha /\ r.over = s.over
      /\ r.file = s.file
      /\ r.pending \subseteq s.pending \cup {<<f.off, f.block>>}
      /\ f.off = s.expected => r.expected = Reached(s, f.off)
      /\ f.off # s.expected => r.expected = s.expected
  BY <1>1, <1>6, AppliedChunk
<1>8. PICK q : q = [r EXCEPT !.file = None]
  OBVIOUS
<1>9. /\ q \in Session /\ q.size = r.size /\ q.sha = r.sha /\ q.file = None
      /\ q.pending = r.pending /\ q.expected = r.expected
  BY <1>7, <1>8 DEF Session
<1>10. \/ recv' = [recv EXCEPT ![f.sid] = r] /\ finish' = None
       \/ /\ recv' = [recv EXCEPT ![f.sid] = q]
          /\ finish' = [sid |-> f.sid, at |-> "verify", size |-> s.size, sha |-> s.sha,
                        over |-> s.over, answer |-> FALSE]
  BY <1>4, <1>6, <1>8 DEF HandleData
<1>11. [sid |-> f.sid, at |-> "verify", size |-> s.size, sha |-> s.sha,
        over |-> s.over, answer |-> FALSE] \in Finish
  BY <1>1 DEF Session, Finish
<1>12. CASE recv' = [recv EXCEPT ![f.sid] = r] /\ finish' = None
  <2>1. recv'[f.sid] = r /\ \A t \in Transfer \ {f.sid} : recv'[t] = recv[t]
    BY <1>1, <1>2, <1>12
  <2>2. recv' \in [Transfer -> Session \cup {None}]
    BY <1>2, <1>7, <1>12
  <2> QED BY <1>1, <1>3, <1>4, <1>5, <1>7, <1>12, <2>1, <2>2
<1>13. CASE /\ recv' = [recv EXCEPT ![f.sid] = q]
            /\ finish' = [sid |-> f.sid, at |-> "verify", size |-> s.size, sha |-> s.sha,
                          over |-> s.over, answer |-> FALSE]
  <2>1. recv'[f.sid] = q /\ \A t \in Transfer \ {f.sid} : recv'[t] = recv[t]
    BY <1>1, <1>2, <1>13
  <2>2. recv' \in [Transfer -> Session \cup {None}]
    BY <1>2, <1>9, <1>13
  <2>3. /\ finish' \in Finish /\ finish'.sid = f.sid /\ finish'.at = "verify"
        /\ finish'.size = s.size /\ finish'.sha = s.sha
    BY <1>11, <1>13
  <2> QED BY <1>1, <1>3, <1>4, <1>5, <1>7, <1>9, <2>1, <2>2, <2>3
<1> QED BY <1>10, <1>12, <1>13

(* What a data frame does to the file: it grows in a row, if at all. *)
LEMMA DataFile ==
    ASSUME TypeInv, NEW f \in net, NEW again \in BOOLEAN, NEW ack \in BOOLEAN,
           HandleData(f, again, ack), f.off = recv[f.sid].expected
    PROVE  \E w \in Seq(Block), blocks \in SUBSET (Chunk \X Block) :
              /\ disk' = [disk EXCEPT ![recv[f.sid].file] = w]
              /\ blocks = Flushed(recv[f.sid], f)
              /\ w = Written(disk[recv[f.sid].file], blocks)
              /\ Len(w) <= MaxSize
<1>1. /\ f \in Frame /\ f.kind = "data" /\ recv[f.sid] \in Session
      /\ recv[f.sid].file \in Inode
  BY DataSession
<1>2. /\ disk \in [Inode -> Seq(Block)] /\ \A i \in Inode : Len(disk[i]) <= MaxSize
  BY DEF TypeInv, TypeOK
<1>3. PICK c \in Seq(Block) : c = disk[recv[f.sid].file] /\ Len(c) <= MaxSize
  BY <1>1, <1>2
<1>4. PICK blocks : blocks = Flushed(recv[f.sid], f)
  OBVIOUS
<1>5. blocks \in SUBSET (Chunk \X Block)
  BY <1>1, <1>4, FlushedBlocks
<1>6. PICK w : w = Written(c, blocks)
  OBVIOUS
<1>7. w \in Seq(Block) /\ (Len(w) = Len(c) \/ \E b \in blocks : b[1] + 1 = Len(w))
  BY <1>5, <1>6, WrittenFile
<1>8. Len(w) <= MaxSize
  <2>1. \A b \in blocks : b[1] + 1 <= MaxSize
    BY <1>5, FileAssumption DEF Chunk
  <2> QED BY <1>3, <1>7, <2>1
<1>9. disk' = [disk EXCEPT ![recv[f.sid].file] = w]
  BY <1>3, <1>4, <1>6 DEF HandleData
<1> QED BY <1>3, <1>4, <1>5, <1>6, <1>7, <1>8, <1>9

(* handleData keeps the types. *)
LEMMA DataTypes ==
    ASSUME TypeInv, UNCHANGED work, NEW f \in net, NEW again \in BOOLEAN, NEW ack \in BOOLEAN,
           HandleData(f, again, ack)
    PROVE  TypeInv'
<1>1. /\ f \in Frame /\ f.kind = "data" /\ f.sid \in Transfer
      /\ recv' \in [Transfer -> Session \cup {None}] /\ recv'[f.sid] \in Session
      /\ finish' \in Finish \cup {None}
  BY DataSession
<1>2. recv'[f.sid].expected \in Offset /\ recv[f.sid] \in Session
  BY <1>1, DataSession DEF Session
<1>3. faults' \subseteq work'.kinds /\ hurt' \in BOOLEAN
  <2>1. CASE again
    BY <2>1, DisturbTypes DEF HandleData
  <2>2. CASE ~again
    BY <2>2 DEF HandleData, TypeInv, TypeOK
  <2> QED BY <2>1, <2>2
<1>4. net' \subseteq Frame
  <2>1. PICK r : r = ApplyRecvChunk(recv[f.sid], f)
    OBVIOUS
  <2>2. r \in Session
    BY <1>1, <1>2, <2>1, AppliedChunk
  <2>3. net' \subseteq net \cup {[kind |-> "ack", sid |-> f.sid, off |-> r.expected]}
    BY <2>1 DEF HandleData
  <2>4. [kind |-> "ack", sid |-> f.sid, off |-> r.expected] \in Frame
    BY <1>1, <2>2 DEF Session, Frame
  <2> QED BY <2>3, <2>4 DEF TypeInv, TypeOK
<1>5. disk' \in [Inode -> Seq(Block)] /\ \A i \in Inode : Len(disk'[i]) <= MaxSize
  <2>1. CASE f.off = recv[f.sid].expected
    <3>1. PICK w \in Seq(Block) : /\ disk' = [disk EXCEPT ![recv[f.sid].file] = w]
                                  /\ Len(w) <= MaxSize
      BY <2>1, DataFile
    <3>2. PICK k : k = recv[f.sid].file
      OBVIOUS
    <3>3. disk' = [disk EXCEPT ![k] = w]
      BY <3>1, <3>2
    <3> QED BY <3>1, <3>3 DEF TypeInv, TypeOK
  <2>2. CASE f.off # recv[f.sid].expected
    BY <2>2 DEF HandleData, TypeInv, TypeOK
  <2> QED BY <2>1, <2>2
<1>6. Counts'
  BY DEF HandleData, TypeInv, TypeOK, Counts
<1> QED BY <1>1, <1>3, <1>4, <1>5, <1>6 DEF HandleData, TypeInv, TypeOK

(* A frame without a session, and the end of a transfer, keep the types. *)
LEMMA FinishTypes ==
    ASSUME TypeInv, UNCHANGED work,
           \/ \E f \in net : DropData(f)
           \/ FinishVerify \/ FinishRemove \/ FinishRename
    PROVE  TypeInv'
<1>1. CASE \E f \in net : DropData(f)
  BY <1>1 DEF DropData, TypeInv, TypeOK, Counts
<1>2. finish = None \/ finish \in Finish
  BY DEF TypeInv, TypeOK
<1>3. CASE FinishVerify
  <2>1. finish \in Finish
    BY <1>2, <1>3 DEF FinishVerify
  <2>2. Promote(finish.sid, finish.size, finish.sha, finish.over, FALSE) \in Finish
    BY <2>1 DEF Promote, Finish
  <2>3. finish' \in Finish \cup {None}
    BY <1>3, <2>2 DEF FinishVerify
  <2>4. recv' \in [Transfer -> Session \cup {None}]
    <3>1. recv' = recv \/ recv' = [recv EXCEPT ![finish.sid] = None]
      BY <1>3 DEF FinishVerify
    <3> QED BY <3>1 DEF TypeInv, TypeOK
  <2> QED BY <1>3, <2>3, <2>4 DEF FinishVerify, TypeInv, TypeOK, Counts
<1>4. CASE FinishRemove
  <2>1. finish \in Finish
    BY <1>2, <1>4 DEF FinishRemove
  <2>2. finish' \in Finish
    BY <1>4, <2>1 DEF FinishRemove, Finish
  <2> QED BY <1>4, <2>2 DEF FinishRemove, TypeInv, TypeOK, Counts
<1>5. CASE FinishRename
  <2>1. finish \in Finish
    BY <1>2, <1>5 DEF FinishRename
  <2>2. WriteResp(finish, finish.size) \in Frame
    BY <2>1 DEF WriteResp, Finish, Frame
  <2>3. net' \subseteq Frame
    BY <1>5, <2>2 DEF FinishRename, TypeInv, TypeOK
  <2>4. recv' \in [Transfer -> Session \cup {None}]
    BY <1>5 DEF FinishRename, TypeInv, TypeOK
  <2>5. part' = None /\ final' \in Inode \cup {None}
    BY <1>5 DEF FinishRename, TypeInv, TypeOK
  <2> QED BY <1>5, <2>3, <2>4, <2>5 DEF FinishRename, TypeInv, TypeOK, Counts
<1> QED BY <1>1, <1>3, <1>4, <1>5

(* Every step keeps the types. *)
LEMMA StepTypes ==
    ASSUME TypeInv, [Next]_vars
    PROVE  TypeInv'
<1>1. CASE UNCHANGED vars
  BY <1>1 DEF vars, TypeInv, TypeOK, Counts
<1>2. CASE Next
  <2>0. UNCHANGED work
    BY <1>2 DEF Next
  <2>1. CASE AskPull(0) \/ (part # None /\ AskPull(Len(disk[part])))
    <3>1. 0 \in Offset /\ (part # None => Len(disk[part]) \in Offset)
      BY FileAssumption DEF TypeInv, TypeOK, Offset
    <3> QED BY <2>0, <2>1, <3>1, AskPullTypes
  <2>2. CASE \E over \in BOOLEAN : AskOffer(over)
    BY <2>0, <2>2, AskOfferTypes
  <2>3. ASSUME NEW f \in net, Handle(f) PROVE TypeInv'
    <3>1. CASE HandlePullAsProvider(f) \/ HandleWriteRespLocal(f) \/ HandleAck(f)
      BY <2>0, <3>1, ProviderTypes
    <3>2. CASE HandleReadRespLocal(f)
      BY <2>0, <3>2, ReadRespTypes
    <3>3. CASE HandleOfferAsConsumer(f)
      BY <2>0, <3>3, OfferTypes
    <3>4. CASE DropData(f)
      BY <2>0, <3>4, FinishTypes
    <3>5. CASE \E again, ack \in BOOLEAN : HandleData(f, again, ack)
      BY <2>0, <3>5, DataTypes
    <3> QED BY <2>3, <3>1, <3>2, <3>3, <3>4, <3>5 DEF Handle
  <2>4. CASE \E t \in Transfer : SendOpen(t) \/ SendChunk(t)
    BY <2>0, <2>4, SendTypes
  <2>5. CASE FinishVerify \/ FinishRemove \/ FinishRename
    BY <2>0, <2>5, FinishTypes
  <2>6. CASE \/ \E v \in Version : Rewrite(v)
             \/ \E f \in net : Lose(f)
             \/ RestartConsumer \/ RestartProvider
             \/ \E ts \in SUBSET Open : CleanupClose(ts)
             \/ CleanupDelete \/ CleanupExpiredParts
    BY <2>0, <2>6, DisturbanceTypes
  <2> QED BY <1>2, <2>1, <2>2, <2>3, <2>4, <2>5, <2>6 DEF Next
<1> QED BY <1>1, <1>2

-----------------------------------------------------------------------------
(* One transfer at a time.                                                 *)

(* Steps in which transfers go on or end, and none begins: no frame that   *)
(* opens a session comes and no session opens; what ends is a session that *)
(* was open, or was ending.                                                *)
GoOn ==
    /\ UNCHANGED <<work, announced>>
    /\ \A g \in net' : g.kind \in Opening => g \in net
    /\ \A t \in Open' : t \in Open /\ recv'[t].sha = recv[t].sha
    /\ finish' # None =>
          \/ finish # None /\ finish'.sid = finish.sid /\ finish'.sha = finish.sha
          \/ finish'.sid \in Open /\ finish'.sha = recv[finish'.sid].sha

(* handleData goes on with a transfer. *)
LEMMA DataGoesOn ==
    ASSUME TypeInv, UNCHANGED work, NEW f \in net, NEW again \in BOOLEAN,
           NEW ack \in BOOLEAN, HandleData(f, again, ack)
    PROVE  GoOn
<1>1. Open' = Open /\ f.sid \in Open
  <2>1. recv[f.sid] # None /\ recv'[f.sid] # None /\ f.sid \in Transfer
    BY DataSession, FileAssumption
  <2>2. \A t \in Transfer \ {f.sid} : recv'[t] = recv[t]
    BY DataSession
  <2> QED BY <2>1, <2>2 DEF Open
<1>2. \A t \in Open' : t \in Open /\ recv'[t].sha = recv[t].sha
  <2>1. recv'[f.sid].sha = recv[f.sid].sha /\ \A t \in Transfer \ {f.sid} : recv'[t] = recv[t]
    BY DataSession
  <2> QED BY <1>1, <2>1 DEF Open
<1>3. finish' # None => finish'.sid \in Open /\ finish'.sha = recv[finish'.sid].sha
  BY <1>1, DataSession
<1>4. \A g \in net' : g.kind \in Opening => g \in net
  BY DEF HandleData, Opening
<1>5. UNCHANGED announced
  BY DEF HandleData
<1> QED BY <1>1, <1>2, <1>3, <1>4, <1>5 DEF GoOn

(* Every step goes on, but for those that ask and those that answer. *)
LEMMA GoesOn ==
    ASSUME TypeInv, Next
    PROVE  \/ GoOn
           \/ AskPull(0) \/ (\E over \in BOOLEAN : AskOffer(over))
           \/ part # None /\ AskPull(Len(disk[part]))
           \/ \E f \in net :
                 \/ HandlePullAsProvider(f) \/ HandleReadRespLocal(f)
                 \/ HandleOfferAsConsumer(f)
<1>1. UNCHANGED work
  BY DEF Next
<1>2. recv \in [Transfer -> Session \cup {None}] /\ finish \in Finish \cup {None}
  BY DEF TypeInv, TypeOK
<1>3. CASE \E f \in net : HandleWriteRespLocal(f) \/ HandleAck(f) \/ DropData(f) \/ Lose(f)
  BY <1>1, <1>3 DEF HandleWriteRespLocal, HandleAck, DropData, Lose, Open, GoOn
<1>4. CASE \E t \in Transfer : SendOpen(t) \/ SendChunk(t)
  <2>1. \A g \in net' : g.kind \in Opening => g \in net
    BY <1>4 DEF SendOpen, SendChunk, Opening
  <2>2. Open' = Open /\ UNCHANGED <<recv, finish, announced>>
    BY <1>4 DEF SendOpen, SendChunk, Open
  <2> QED BY <1>1, <2>1, <2>2 DEF GoOn
<1>5. CASE FinishVerify \/ FinishRemove \/ FinishRename
  <2>1. \A g \in net' : g.kind \in Opening => g \in net
    <3>1. net' \subseteq net \cup {WriteResp(finish, finish.size)}
      BY <1>5 DEF FinishVerify, FinishRemove, FinishRename
    <3>2. WriteResp(finish, finish.size).kind \notin Opening
      BY DEF WriteResp, Opening
    <3> QED BY <3>1, <3>2
  <2>2. \A t \in Open' : t \in Open /\ recv'[t].sha = recv[t].sha
    BY <1>2, <1>5 DEF FinishVerify, FinishRemove, FinishRename, Open
  <2>3. finish' # None =>
           finish # None /\ finish'.sid = finish.sid /\ finish'.sha = finish.sha
    BY <1>2, <1>5 DEF FinishVerify, FinishRemove, FinishRename, Promote, Finish
  <2>4. UNCHANGED announced
    BY <1>5 DEF FinishVerify, FinishRemove, FinishRename
  <2> QED BY <1>1, <2>1, <2>2, <2>3, <2>4 DEF GoOn
<1>6. CASE \/ \E v \in Version : Rewrite(v)
           \/ RestartConsumer \/ RestartProvider
           \/ CleanupDelete \/ CleanupExpiredParts
  <2>1. net' = net /\ (finish' # None => finish' = finish) /\ UNCHANGED announced
    BY <1>6 DEF Rewrite, RestartConsumer, RestartProvider, CleanupDelete,
                CleanupExpiredParts
  <2>2. \A t \in Transfer : recv'[t] = None \/ recv'[t] = recv[t]
    BY <1>6 DEF Rewrite, RestartConsumer, RestartProvider, CleanupDelete,
                CleanupExpiredParts
  <2>3. \A t \in Open' : t \in Open /\ recv'[t].sha = recv[t].sha
    BY <2>2 DEF Open
  <2> QED BY <1>1, <2>1, <2>3 DEF GoOn
<1>7. ASSUME NEW ts \in SUBSET Open, CleanupClose(ts) PROVE GoOn
  <2>1. \A t \in ts : recv[t] \in Session
    BY <1>2 DEF Open
  <2>2. \A t \in Transfer :
           \/ recv'[t] = recv[t]
           \/ t \in ts /\ recv'[t] = [recv[t] EXCEPT !.file = None]
    BY <1>7 DEF CleanupClose
  <2>3. \A t \in Open' : t \in Open /\ recv'[t].sha = recv[t].sha
    BY <2>1, <2>2 DEF Open, Session
  <2> QED BY <1>1, <1>7, <2>3 DEF CleanupClose, GoOn
<1> QED BY <1>1, <1>3, <1>4, <1>5, <1>6, <1>7, DataGoesOn DEF Next, Handle

(* Turns last while transfers go on. *)
LEMMA GoOnTurns ==
    ASSUME Turns, GoOn
    PROVE  Turns'
<1> SUFFICES ASSUME ~work.overlap
             PROVE  /\ \A f, g \in net' : f.kind \in Opening /\ g.kind \in Opening => f = g
                    /\ \A f \in net' : f.kind \in Opening => Open' = {} /\ finish' = None
                    /\ \A t, u \in Open' : t = u
                    /\ finish' # None => Open' \subseteq {finish'.sid}
  BY DEF Turns, GoOn, Opening
<1>1. /\ \A f, g \in net : f.kind \in Opening /\ g.kind \in Opening => f = g
      /\ \A f \in net : f.kind \in Opening => Open = {} /\ finish = None
      /\ \A t, u \in Open : t = u
      /\ finish # None => Open \subseteq {finish.sid}
  BY DEF Turns
<1>2. /\ \A g \in net' : g.kind \in Opening => g \in net
      /\ Open' \subseteq Open
      /\ finish' # None => \/ finish # None /\ finish'.sid = finish.sid
                           \/ finish'.sid \in Open
  BY DEF GoOn
<1> QED BY <1>1, <1>2

(* Which frames a client's request and the provider's answer leave. *)
LEMMA AskTurns ==
    ASSUME Turns, UNCHANGED work, AskPull(0) \/ (\E over \in BOOLEAN : AskOffer(over))
                                  \/ (part # None /\ AskPull(Len(disk[part])))
    PROVE  Turns'
<1> SUFFICES ASSUME ~work.overlap PROVE Turns'
  BY DEF Turns
<1>1. net = {} /\ Open = {} /\ finish = None
  BY DEF AskPull, AskOffer, Idle
<1>2. \E g : net' = net \cup {g}
  BY DEF AskPull, AskOffer
<1>3. Open' = {} /\ finish' = None
  BY <1>1 DEF AskPull, AskOffer, Open
<1> QED BY <1>1, <1>2, <1>3 DEF Turns

(* Frames that are answered. *)
LEMMA AnswerTurns ==
    ASSUME TypeInv, Turns, UNCHANGED work, NEW f \in net,
           \/ HandlePullAsProvider(f) \/ HandleReadRespLocal(f) \/ HandleOfferAsConsumer(f)
    PROVE  Turns'
<1> SUFFICES ASSUME ~work.overlap PROVE Turns'
  BY DEF Turns
<1>1. f.kind \in Opening
  BY DEF HandlePullAsProvider, HandleReadRespLocal, HandleOfferAsConsumer, Opening
<1>2. /\ \A g \in net : g.kind \in Opening => g = f
      /\ Open = {} /\ finish = None
  BY <1>1 DEF Turns
<1>3. CASE HandlePullAsProvider(f)
  <2>1. \E g : net' \subseteq (net \ {f}) \cup {g}
    BY <1>3 DEF HandlePullAsProvider
  <2>2. Open' = {} /\ finish' = None
    BY <1>2, <1>3 DEF HandlePullAsProvider, Open
  <2> QED BY <1>2, <2>1, <2>2 DEF Turns
<1>4. \A t \in Transfer : recv[t] = None
  BY <1>2 DEF Open
<1>5. CASE HandleReadRespLocal(f)
  <2>1. net' = net \ {f}
    BY <1>5 DEF HandleReadRespLocal
  <2>2. \A t \in Transfer \ {f.sid} : recv'[t] = None
    BY <1>4, <1>5 DEF HandleReadRespLocal, OpenSession, TypeInv, TypeOK
  <2>3. finish' # None => recv' = recv
    BY <1>2, <1>5 DEF HandleReadRespLocal
  <2>4. Open' \subseteq {f.sid} /\ (finish' # None => Open' = {})
    BY <1>4, <2>2, <2>3 DEF Open
  <2>5. \A g \in net' : g.kind \notin Opening
    BY <1>2, <2>1
  <2> QED BY <2>4, <2>5 DEF Turns, Opening
<1>6. CASE HandleOfferAsConsumer(f)
  <2>1. \E from : net' \subseteq (net \ {f}) \cup {WriteResp(f, from)}
    BY <1>6 DEF HandleOfferAsConsumer
  <2>2. \A t \in Transfer \ {f.sid} : recv'[t] = None
    BY <1>4, <1>6 DEF HandleOfferAsConsumer, OpenSession, TypeInv, TypeOK
  <2>3. finish' # None => recv' = recv
    BY <1>2, <1>6 DEF HandleOfferAsConsumer
  <2>4. Open' \subseteq {f.sid} /\ (finish' # None => Open' = {})
    BY <1>4, <2>2, <2>3 DEF Open
  <2>5. \A g \in net' : g.kind \notin Opening
    <3>1. \A from : WriteResp(f, from).kind \notin Opening
      BY DEF WriteResp, Opening
    <3> QED BY <1>2, <2>1, <3>1
  <2> QED BY <2>4, <2>5 DEF Turns, Opening
<1> QED BY <1>3, <1>5, <1>6

(* Every step takes turns. *)
LEMMA StepTurns ==
    ASSUME TypeInv, Turns, [Next]_vars
    PROVE  Turns'
<1>1. CASE UNCHANGED vars
  BY <1>1 DEF vars, Turns, Open
<1>2. CASE Next
  <2>1. UNCHANGED work
    BY <1>2 DEF Next
  <2> QED BY <1>2, <2>1, GoesOn, GoOnTurns, AskTurns, AnswerTurns
<1> QED BY <1>1, <1>2

-----------------------------------------------------------------------------
(* Sums.                                                                   *)

(* A session is opened with its sum, and leaves the others as they are. *)
LEMMA OpenedSha ==
    ASSUME recv \in [Transfer -> Session \cup {None}], NEW t, NEW p, NEW size, NEW sha,
           NEW over, NEW from, OpenSession(t, p, size, sha, over, from)
    PROVE  \A u \in Transfer : recv'[u] = recv[u] \/ recv'[u].sha = sha
<1>1. PICK s : s.sha = sha /\ recv' = [recv EXCEPT ![t] = s]
  <2>1. PICK i : recv' = [recv EXCEPT ![t] = NewSession(size, sha, over, i, from)]
    BY DEF OpenSession
  <2>2. NewSession(size, sha, over, i, from).sha = sha
    BY DEF NewSession
  <2> QED BY <2>1, <2>2
<1> QED BY <1>1

(* Without pulls every transfer has a sum, and it is that of a version that *)
(* was announced, at every step.                                            *)
LEMMA StepSums ==
    ASSUME TypeInv, Sums, Named, [Next]_vars
    PROVE  Sums' /\ Named'
<1>1. CASE UNCHANGED vars
  BY <1>1 DEF vars, Sums, Named, Open
<1> SUFFICES ASSUME Next PROVE Sums' /\ Named'
  BY <1>1
<1>2. UNCHANGED work
  BY DEF Next
<1>3. net \subseteq Frame /\ recv \in [Transfer -> Session \cup {None}] /\ src \in Version
  BY DEF TypeInv, TypeOK
<1>4. ASSUME GoOn PROVE Sums' /\ Named'
  <2>1. \A f \in net' : f.kind \in {"read", "write", "read_resp"} => f \in net
    BY <1>4 DEF GoOn, Opening
  <2>2. Sums'
    BY <1>4, <2>1 DEF Sums, GoOn
  <2>3. Named'
    BY <1>4, <2>1 DEF Named, GoOn
  <2> QED BY <2>2, <2>3
<1>5. ASSUME NEW from, AskPull(from) PROVE Sums' /\ Named'
  <2>0. PICK g : g = [kind |-> "read", sid |-> asked + 1, from |-> from]
    OBVIOUS
  <2>1. net' = net \cup {g} /\ g.kind = "read"
    BY <1>5, <2>0 DEF AskPull
  <2>2. UNCHANGED <<recv, finish, announced>> /\ Open' = Open /\ pulls < work.pulls
    BY <1>5 DEF AskPull, Open
  <2>3. Sums'
    BY <1>2, <2>2, FileAssumption DEF Sums, TypeInv, TypeOK
  <2>4. Named'
    BY <2>1, <2>2 DEF Named
  <2> QED BY <2>3, <2>4
<1>6. ASSUME NEW over \in BOOLEAN, AskOffer(over) PROVE Sums' /\ Named'
  <2>0. PICK g : g = [kind |-> "write", sid |-> asked + 1, over |-> over,
                      size |-> Len(Content[src]), sha |-> src]
    OBVIOUS
  <2>1. net' = net \cup {g} /\ g.kind = "write" /\ g.sha = src
    BY <1>6, <2>0 DEF AskOffer
  <2>2. UNCHANGED <<recv, finish>> /\ Open' = Open /\ announced' = announced \cup {src}
    BY <1>6 DEF AskOffer, Open
  <2>3. Sums'
    BY <1>2, <2>1, <2>2 DEF Sums
  <2>4. Named'
    BY <2>1, <2>2 DEF Named
  <2> QED BY <2>3, <2>4
<1>7. ASSUME NEW f \in net, HandlePullAsProvider(f) PROVE Sums' /\ Named'
  <2>1. f.kind = "read" /\ UNCHANGED <<recv, finish>> /\ Open' = Open
    BY <1>7 DEF HandlePullAsProvider, Open
  <2>2. CASE UNCHANGED announced /\ net' = net \ {f}
    BY <1>2, <2>1, <2>2 DEF Sums, Named
  <2>3. CASE announced' = announced \cup {src} /\ \E g : /\ net' = (net \ {f}) \cup {g}
                                                         /\ g.kind = "read_resp"
    <3>1. PICK g : /\ net' = (net \ {f}) \cup {g} /\ g.kind = "read_resp"
      BY <2>3
    <3>2. Sums'
      BY <1>2, <2>1 DEF Sums
    <3>3. Named'
      BY <2>1, <2>3, <3>1 DEF Named
    <3> QED BY <3>2, <3>3
  <2>4. \/ UNCHANGED announced /\ net' = net \ {f}
        \/ /\ announced' = announced \cup {src}
           /\ \E size, from :
                 net' = (net \ {f}) \cup {[kind |-> "read_resp", sid |-> f.sid,
                                          size |-> size, from |-> from]}
    BY <1>7 DEF HandlePullAsProvider
  <2>5. CASE /\ announced' = announced \cup {src}
             /\ \E size, from :
                   net' = (net \ {f}) \cup {[kind |-> "read_resp", sid |-> f.sid,
                                            size |-> size, from |-> from]}
    <3>1. PICK size, from :
             net' = (net \ {f}) \cup {[kind |-> "read_resp", sid |-> f.sid,
                                      size |-> size, from |-> from]}
      BY <2>5
    <3>2. PICK g : g = [kind |-> "read_resp", sid |-> f.sid, size |-> size, from |-> from]
      OBVIOUS
    <3>3. net' = (net \ {f}) \cup {g} /\ g.kind = "read_resp"
      BY <3>1, <3>2
    <3> QED BY <2>3, <2>5, <3>3
  <2> QED BY <2>2, <2>4, <2>5
<1>8. ASSUME NEW f \in net, HandleReadRespLocal(f) PROVE Sums' /\ Named'
  <2>1. f.kind = "read_resp" /\ net' = net \ {f} /\ announced' = announced
    BY <1>8 DEF HandleReadRespLocal
  <2>2. \A t \in Open' : (t \in Open /\ recv'[t] = recv[t]) \/ recv'[t].sha = None
    <3>1. CASE recv' = recv
      BY <3>1 DEF Open
    <3>2. CASE OpenSession(f.sid, part, f.size, None, TRUE, f.from)
      <4>1. PICK over : OpenSession(f.sid, part, f.size, None, over, f.from)
        BY <3>2
      <4>2. \A u \in Transfer : recv'[u] = recv[u] \/ recv'[u].sha = None
        BY <1>3, <4>1, OpenedSha
      <4> QED BY <4>2 DEF Open
    <3> QED BY <1>8, <3>1, <3>2 DEF HandleReadRespLocal
  <2>3. finish' # None => finish' = finish \/ finish'.sha = None
    <3>1. \/ finish' = finish
          \/ finish' = Promote(f.sid, f.size, None, TRUE, FALSE)
      BY <1>8 DEF HandleReadRespLocal
    <3> QED BY <3>1 DEF Promote
  <2>4. Sums'
    BY <1>2, <2>1 DEF Sums
  <2>5. Named'
    BY <2>1, <2>2, <2>3 DEF Named
  <2> QED BY <2>4, <2>5
<1>9. ASSUME NEW f \in net, HandleOfferAsConsumer(f) PROVE Sums' /\ Named'
  <2>1. f.kind = "write" /\ announced' = announced /\ f.sha # None
    BY <1>3, <1>9, FrameFields, FileAssumption DEF HandleOfferAsConsumer
  <2>2. \A t \in Open' : (t \in Open /\ recv'[t] = recv[t]) \/ recv'[t].sha = f.sha
    <3>1. CASE recv' = recv
      BY <3>1 DEF Open
    <3>2. ASSUME NEW p, NEW from, OpenSession(f.sid, p, f.size, f.sha, f.over, from)
          PROVE  \A t \in Open' : (t \in Open /\ recv'[t] = recv[t]) \/ recv'[t].sha = f.sha
      <4>1. \A u \in Transfer : recv'[u] = recv[u] \/ recv'[u].sha = f.sha
        BY <1>3, <3>2, OpenedSha
      <4> QED BY <4>1 DEF Open
    <3> QED BY <1>9, <3>1, <3>2 DEF HandleOfferAsConsumer
  <2>3. finish' # None => finish' = finish \/ finish'.sha = f.sha
    <3>1. \/ finish' = finish
          \/ finish' = Promote(f.sid, f.size, f.sha, f.over, TRUE)
      BY <1>9 DEF HandleOfferAsConsumer
    <3> QED BY <3>1 DEF Promote
  <2>4. \A g \in net' : g \in net \/ g.kind = "write_resp"
    <3>1. \E from : net' \subseteq (net \ {f}) \cup {WriteResp(f, from)}
      BY <1>9 DEF HandleOfferAsConsumer
    <3>2. \A from : WriteResp(f, from).kind = "write_resp"
      BY DEF WriteResp
    <3> QED BY <3>1, <3>2
  <2>5. Sums'
    BY <1>2, <2>1, <2>2, <2>3, <2>4 DEF Sums
  <2>6. Named'
    BY <2>1, <2>2, <2>3, <2>4 DEF Named
  <2> QED BY <2>5, <2>6
<1> QED BY <1>4, <1>5, <1>6, <1>7, <1>8, <1>9, GoesOn

-----------------------------------------------------------------------------
(* Which file is written, and which is read.                               *)

(* A session opens the .part file it is given, or a new file. *)
LEMMA OpenedFile ==
    ASSUME TypeInv, NEW t \in Transfer, NEW p \in {part, None}, NEW size, NEW sha,
           NEW over, NEW from, OpenSession(t, p, size, sha, over, from)
    PROVE  /\ part' \in Inode /\ (p # None => part' = p) /\ (p = None => part' # final)
           /\ \A u \in Transfer : recv'[u] = recv[u] \/ recv'[u].file = part'
<1>1. /\ Free \in Inode /\ Free # final /\ None \notin Inode
      /\ recv \in [Transfer -> Session \cup {None}]
  BY FreeInode, FileAssumption DEF TypeInv, TypeOK, Inode
<1>2. part' \in Inode /\ (p # None => part' = p) /\ (p = None => part' = Free)
  BY <1>1 DEF OpenSession, TypeInv, TypeOK
<1>3. PICK i : part' = i /\ recv' = [recv EXCEPT ![t] = NewSession(size, sha, over, i, from)]
  BY DEF OpenSession
<1>4. NewSession(size, sha, over, i, from).file = i
  BY DEF NewSession
<1>5. \A u \in Transfer : recv'[u] = recv[u] \/ recv'[u].file = i
  BY <1>1, <1>3, <1>4
<1> QED BY <1>1, <1>2, <1>3, <1>5

(* What a session opens is not under the final name. *)
LEMMA OpenApart ==
    ASSUME TypeInv, Apart, UNCHANGED <<work, final>>, NEW t \in Transfer,
           NEW p \in {part, None}, NEW size, NEW sha, NEW over, NEW from,
           OpenSession(t, p, size, sha, over, from)
    PROVE  Apart'
<1>1. part' \in Inode /\ (p # None => part' = p) /\ (p = None => part' # final)
  BY OpenedFile
<1>2. \A u \in Transfer : recv'[u] = recv[u] \/ recv'[u].file = part'
  BY OpenedFile
<1>3. part' # final'
  BY <1>1 DEF Apart
<1>4. \A u \in Open' : (u \in Open /\ recv'[u] = recv[u]) \/ recv'[u].file = part'
  BY <1>2 DEF Open
<1> QED BY <1>3, <1>4 DEF Apart

(* No step brings what is being written under the final name. *)
LEMMA StepApart ==
    ASSUME TypeInv, Turns, Apart, [Next]_vars
    PROVE  Apart'
<1>1. CASE UNCHANGED vars
  BY <1>1 DEF vars, Apart, Open
<1> SUFFICES ASSUME Next PROVE Apart'
  BY <1>1
<1>2. UNCHANGED work
  BY DEF Next
<1>3. /\ recv \in [Transfer -> Session \cup {None}] /\ finish \in Finish \cup {None}
      /\ \A f \in net : f \in Frame /\ f.sid \in Transfer
  BY FrameFields DEF TypeInv, TypeOK
<1>4. ASSUME \A t \in Open' : t \in Open /\ recv'[t].file \in {recv[t].file, None},
             part' \in {part, None}, UNCHANGED final
      PROVE  Apart'
  BY <1>2, <1>4 DEF Apart
<1>5. CASE UNCHANGED <<recv, part, final>>
  BY <1>2, <1>5 DEF Apart, Open
<1>6. ASSUME NEW f \in net, HandleReadRespLocal(f) PROVE Apart'
  <2>1. CASE UNCHANGED <<recv, files>>
    BY <1>5, <2>1
  <2>2. CASE part' = (IF part = None THEN Free ELSE part) /\ UNCHANGED <<recv, final>>
    <3>1. part' # final'
      BY <2>2, FreeInode DEF Apart
    <3> QED BY <1>2, <2>2, <3>1 DEF Apart, Open
  <2>3. CASE OpenSession(f.sid, part, f.size, None, TRUE, f.from) /\ UNCHANGED final
    <3>1. PICK over : OpenSession(f.sid, part, f.size, None, over, f.from)
      BY <2>3
    <3> QED BY <1>2, <1>3, <2>3, <3>1, OpenApart
  <2> QED BY <1>6, <2>1, <2>2, <2>3 DEF HandleReadRespLocal
<1>7. ASSUME NEW f \in net, HandleOfferAsConsumer(f) PROVE Apart'
  <2>1. CASE UNCHANGED <<recv, final>> /\ part' \in {part, None}
    BY <1>4, <2>1 DEF Open
  <2>2. UsablePart(f) \in {part, None}
    BY DEF UsablePart
  <2>3. ASSUME NEW from, OpenSession(f.sid, UsablePart(f), f.size, f.sha, f.over, from),
               UNCHANGED final
        PROVE  Apart'
    <3>1. PICK p \in {part, None} : p = UsablePart(f)
      BY <2>2
    <3>2. OpenSession(f.sid, p, f.size, f.sha, f.over, from)
      BY <2>3, <3>1
    <3> QED BY <1>2, <1>3, <2>3, <3>2, OpenApart
  <2> QED BY <1>7, <2>1, <2>3 DEF HandleOfferAsConsumer
<1>8. ASSUME NEW f \in net, NEW again \in BOOLEAN, NEW ack \in BOOLEAN,
             HandleData(f, again, ack)
      PROVE  Apart'
  <2>1. \A t \in Open' : t \in Open /\ recv'[t].file \in {recv[t].file, None}
    <3>1. recv[f.sid] # None /\ recv'[f.sid].file \in {recv[f.sid].file, None}
      BY <1>8, DataSession, FileAssumption
    <3>2. \A t \in Transfer \ {f.sid} : recv'[t] = recv[t]
      BY <1>8, DataSession
    <3> QED BY <3>1, <3>2 DEF Open
  <2>2. UNCHANGED <<part, final>>
    BY <1>8 DEF HandleData
  <2> QED BY <1>4, <2>1, <2>2
<1>9. CASE FinishVerify
  BY <1>3, <1>4, <1>9 DEF FinishVerify, Open
<1>10. CASE FinishRemove
  BY <1>2, <1>3, <1>10 DEF FinishRemove, Apart, TypeInv, TypeOK, Open, Session
<1>11. CASE FinishRename
  <2>1. part' = None /\ finish # None
    BY <1>11 DEF FinishRename
  <2>2. ~work.overlap => Open' = {}
    <3>1. ~work.overlap => \A t \in Transfer : recv[t] # None => t = finish.sid
      BY <2>1 DEF Turns, Open
    <3>2. recv' = [recv EXCEPT ![finish.sid] = None]
      BY <1>11 DEF FinishRename
    <3> QED BY <1>3, <3>1, <3>2 DEF Open
  <2> QED BY <1>2, <2>1, <2>2 DEF Apart
<1>12. CASE RestartConsumer \/ CleanupDelete \/ CleanupExpiredParts
  BY <1>4, <1>12 DEF RestartConsumer, CleanupDelete, CleanupExpiredParts, Open
<1>13. ASSUME NEW ts \in SUBSET Open, CleanupClose(ts) PROVE Apart'
  <2>1. \A t \in ts : recv[t] \in Session
    BY <1>3 DEF Open
  <2>2. \A t \in Transfer :
           \/ recv'[t] = recv[t]
           \/ t \in ts /\ recv'[t] = [recv[t] EXCEPT !.file = None]
    BY <1>13 DEF CleanupClose
  <2>3. \A t \in Open' : t \in Open /\ recv'[t].file \in {recv[t].file, None}
    BY <2>1, <2>2 DEF Open, Session
  <2> QED BY <1>4, <1>13, <2>3 DEF CleanupClose
<1>14. ASSUME \/ AskPull(0) \/ (part # None /\ AskPull(Len(disk[part])))
              \/ (\E over \in BOOLEAN : AskOffer(over)) \/ (\E v \in Version : Rewrite(v))
              \/ (\E t \in Transfer : SendOpen(t) \/ SendChunk(t)) \/ RestartProvider
              \/ \E f \in net : HandlePullAsProvider(f) \/ HandleWriteRespLocal(f)
                                \/ HandleAck(f) \/ DropData(f) \/ Lose(f)
       PROVE  UNCHANGED <<recv, part, final>>
  BY <1>14 DEF AskPull, AskOffer, Rewrite, SendOpen, SendChunk, RestartProvider,
               HandlePullAsProvider, HandleWriteRespLocal, HandleAck, DropData, Lose
<1> QED BY <1>5, <1>6, <1>7, <1>8, <1>9, <1>10, <1>11, <1>12, <1>13, <1>14 DEF Next, Handle

(* Between its verification and its renaming a .part file only vanishes. *)
LEMMA StepReady ==
    ASSUME TypeInv, Ready, [Next]_vars
    PROVE  Ready'
<1>1. CASE UNCHANGED vars
  BY <1>1 DEF vars, Ready, VerifyPart
<1> SUFFICES ASSUME Next PROVE Ready'
  BY <1>1
<1>2. CASE UNCHANGED <<finish, disk>> /\ part' \in {part, None}
  BY <1>2 DEF Ready, VerifyPart
<1>3. CASE finish' = None
  BY <1>3 DEF Ready
<1>4. finish \in Finish \cup {None}
  BY DEF TypeInv, TypeOK
<1>5. ASSUME NEW t, NEW size, NEW sha, NEW over, NEW answer, VerifyPart(part, size, sha),
             finish' = Promote(t, size, sha, over, answer), UNCHANGED <<part, disk>>
      PROVE  Ready'
  BY <1>5 DEF Ready, VerifyPart, Promote
<1>6. ASSUME NEW f \in net, HandleReadRespLocal(f) PROVE Ready'
  <2>1. CASE finish' = finish
    BY <1>3, <1>6, <2>1 DEF HandleReadRespLocal, Receiving
  <2>2. CASE /\ VerifyPart(part, f.size, None)
             /\ finish' = Promote(f.sid, f.size, None, TRUE, FALSE)
             /\ UNCHANGED <<part, disk>>
    <3>1. PICK over, answer : finish' = Promote(f.sid, f.size, None, over, answer)
      BY <2>2
    <3> QED BY <1>5, <2>2, <3>1
  <2> QED BY <1>6, <2>1, <2>2 DEF HandleReadRespLocal
<1>7. ASSUME NEW f \in net, HandleOfferAsConsumer(f) PROVE Ready'
  <2>1. CASE finish' = finish
    BY <1>3, <1>7, <2>1 DEF HandleOfferAsConsumer, Receiving
  <2>2. CASE /\ VerifyPart(UsablePart(f), f.size, f.sha)
             /\ finish' = Promote(f.sid, f.size, f.sha, f.over, TRUE)
             /\ UNCHANGED <<part, disk>>
    <3>1. PICK answer : finish' = Promote(f.sid, f.size, f.sha, f.over, answer)
      BY <2>2
    <3>2. VerifyPart(part, f.size, f.sha)
      BY <2>2 DEF VerifyPart, UsablePart
    <3> QED BY <1>5, <2>2, <3>1, <3>2
  <2> QED BY <1>7, <2>1, <2>2 DEF HandleOfferAsConsumer
<1>8. ASSUME NEW f \in net, NEW again \in BOOLEAN, NEW ack \in BOOLEAN,
             HandleData(f, again, ack)
      PROVE  Ready'
  <2>1. finish' # None => finish'.at = "verify"
    BY <1>8, DataSession
  <2> QED BY <2>1 DEF Ready
<1>9. CASE FinishVerify
  <2>1. CASE finish' = None
    BY <1>3, <2>1
  <2>2. CASE VerifyPart(part, finish.size, finish.sha)
    <3>1. PICK answer :
             finish' = Promote(finish.sid, finish.size, finish.sha, finish.over, answer)
      BY <1>9, <2>2 DEF FinishVerify
    <3>2. UNCHANGED <<part, disk>>
      BY <1>9 DEF FinishVerify
    <3> QED BY <1>5, <2>2, <3>1, <3>2
  <2> QED BY <1>9, <2>1, <2>2 DEF FinishVerify
<1>10. CASE FinishRemove
  <2>1. finish'.size = finish.size /\ finish'.sha = finish.sha /\ finish # None
    BY <1>4, <1>10 DEF FinishRemove, Finish
  <2>2. finish.at = "remove" /\ UNCHANGED <<part, disk>>
    BY <1>10 DEF FinishRemove
  <2> QED BY <2>1, <2>2 DEF Ready, VerifyPart
<1>11. CASE FinishRename \/ RestartConsumer
  BY <1>3, <1>11 DEF FinishRename, RestartConsumer
<1>12. ASSUME \/ AskPull(0) \/ (part # None /\ AskPull(Len(disk[part])))
              \/ (\E over \in BOOLEAN : AskOffer(over)) \/ (\E v \in Version : Rewrite(v))
              \/ (\E t \in Transfer : SendOpen(t) \/ SendChunk(t)) \/ RestartProvider
              \/ CleanupDelete \/ CleanupExpiredParts
              \/ (\E ts \in SUBSET Open : CleanupClose(ts))
              \/ \E f \in net : HandlePullAsProvider(f) \/ HandleWriteRespLocal(f)
                                \/ HandleAck(f) \/ DropData(f) \/ Lose(f)
       PROVE  UNCHANGED <<finish, disk>> /\ part' \in {part, None}
  BY <1>12 DEF AskPull, AskOffer, Rewrite, SendOpen, SendChunk, RestartProvider,
               CleanupDelete, CleanupExpiredParts, CleanupClose,
               HandlePullAsProvider, HandleWriteRespLocal, HandleAck, DropData, Lose
<1> QED BY <1>2, <1>6, <1>7, <1>8, <1>9, <1>10, <1>11, <1>12 DEF Next, Handle

-----------------------------------------------------------------------------
(* While the source stays as it is.                                        *)

(* A pull has been asked for and its session not been opened.              *)
Asking == \E f \in net : f.kind \in {"read", "read_resp"}

(* Nothing is read or written, and what is on its way was on its way. *)
LEMMA SteadyGoesOn ==
    ASSUME Calm, Steady, UNCHANGED <<work, src, disk>>,
           announced' \subseteq announced,
           \A f \in net' : f \in net \/ f.kind \in {"write_resp", "ack"},
           \A t \in Open' : /\ t \in Open
                            /\ recv'[t].pending = recv[t].pending
                            /\ recv'[t].size = recv[t].size
                            /\ recv'[t].expected = recv[t].expected
                            /\ recv'[t].file \in {recv[t].file, None},
           finish' # None => finish # None /\ finish'.size = finish.size,
           part' # part => ~Asking
    PROVE  Steady'
<1>1. /\ announced \subseteq {src}
      /\ \A i \in Inode : Prefix(disk[i], Content[src])
      /\ \A f \in net : SteadyFrame(f)
      /\ \A t \in Open : SteadySession(t)
      /\ finish # None => finish.size = Len(Content[src])
  BY DEF Steady
<1>2. ASSUME NEW f \in net' PROVE SteadyFrame(f)'
  <2>1. CASE f.kind \in {"write_resp", "ack"}
    BY <2>1 DEF SteadyFrame
  <2>2. CASE f \in net /\ part' = part
    <3>1. SteadyFrame(f)
      BY <1>1, <2>2
    <3> QED BY <2>2, <3>1 DEF SteadyFrame, Right
  <2>3. CASE f \in net /\ part' # part
    <3>1. SteadyFrame(f) /\ f.kind \notin {"read", "read_resp"}
      BY <1>1, <2>3 DEF Asking
    <3> QED BY <3>1 DEF SteadyFrame, Right
  <2> QED BY <2>1, <2>2, <2>3
<1>3. ASSUME NEW t \in Open' PROVE SteadySession(t)'
  <2>1. SteadySession(t) /\ recv'[t].file \in {recv[t].file, None}
    BY <1>1
  <2> QED BY <2>1 DEF SteadySession, Right
<1>4. \A i \in Inode : Prefix(disk[i], Content[src])'
  BY <1>1 DEF Prefix
<1>5. announced' \subseteq {src'} /\ (finish' # None => finish'.size = Len(Content[src']))
  BY <1>1
<1> QED BY <1>2, <1>3, <1>4, <1>5 DEF Steady

(* The steps that only let transfers go on. *)
LEMMA QuietSteady ==
    ASSUME TypeInv, Turns, Sums, Steady, Calm, UNCHANGED work,
           \/ \E f \in net : HandleWriteRespLocal(f) \/ HandleAck(f) \/ DropData(f) \/ Lose(f)
           \/ \E t \in Transfer : SendOpen(t)
           \/ FinishVerify \/ FinishRemove \/ FinishRename
           \/ RestartConsumer \/ RestartProvider
           \/ CleanupDelete \/ CleanupExpiredParts
           \/ \E ts \in SUBSET Open : CleanupClose(ts)
    PROVE  Steady'
<1>1. recv \in [Transfer -> Session \cup {None}] /\ finish \in Finish \cup {None}
  BY DEF TypeInv, TypeOK
<1>2. CASE \/ \E f \in net : HandleWriteRespLocal(f) \/ HandleAck(f) \/ DropData(f) \/ Lose(f)
           \/ \E t \in Transfer : SendOpen(t)
           \/ RestartProvider
  <2>1. UNCHANGED <<src, disk, announced, recv, finish, part>> /\ net' \subseteq net
    BY <1>2 DEF HandleWriteRespLocal, HandleAck, DropData, Lose, SendOpen, RestartProvider
  <2>2. Open' = Open
    BY <2>1 DEF Open
  <2> QED BY <2>1, <2>2, SteadyGoesOn
<1>3. CASE RestartConsumer \/ CleanupDelete
  <2>1. /\ UNCHANGED <<src, disk, announced, net, part>>
        /\ finish' \in {finish, None}
    BY <1>3 DEF RestartConsumer, CleanupDelete
  <2>2. \A t \in Open' : t \in Open /\ recv'[t] = recv[t]
    BY <1>3 DEF RestartConsumer, CleanupDelete, Open
  <2> QED BY <2>1, <2>2, SteadyGoesOn
<1>4. CASE FinishVerify \/ FinishRemove
  <2>1. UNCHANGED <<src, disk, announced, net, part>>
    BY <1>4 DEF FinishVerify, FinishRemove
  <2>2. \A t \in Open' : t \in Open /\ recv'[t] = recv[t]
    BY <1>1, <1>4 DEF FinishVerify, FinishRemove, Open
  <2>3. finish' # None => finish # None /\ finish'.size = finish.size
    BY <1>1, <1>4 DEF FinishVerify, FinishRemove, Promote, Finish
  <2> QED BY <2>1, <2>2, <2>3, SteadyGoesOn
<1>5. CASE FinishRename
  <2>1. UNCHANGED <<src, disk, announced>> /\ finish' = None
    BY <1>5 DEF FinishRename
  <2>2. \A t \in Open' : t \in Open /\ recv'[t] = recv[t]
    BY <1>1, <1>5 DEF FinishRename, Open
  <2>3. \A f \in net' : f \in net \/ f.kind \in {"write_resp", "ack"}
    <3>1. net' \subseteq net \cup {WriteResp(finish, finish.size)}
      BY <1>5 DEF FinishRename
    <3> QED BY <3>1 DEF WriteResp
  <2>4. ~Asking
    <3>1. finish # None
      BY <1>5 DEF FinishRename
    <3> QED BY <3>1 DEF Asking, Calm, FixedSource, OffersInTurn, Sums, Turns, Opening
  <2> QED BY <2>1, <2>2, <2>3, <2>4, SteadyGoesOn
<1>6. ASSUME "expire" \in work.kinds PROVE ~Asking
  BY <1>6 DEF Asking, Calm, FixedSource, OffersInTurn, Sums
<1>7. CASE CleanupExpiredParts
  <2>1. UNCHANGED <<src, disk, announced, recv, finish, net>> /\ ~Asking
    BY <1>6, <1>7 DEF CleanupExpiredParts, MaybeJanitor, Disturb
  <2>2. Open' = Open
    BY <2>1 DEF Open
  <2> QED BY <2>1, <2>2, SteadyGoesOn
<1>8. ASSUME NEW ts \in SUBSET Open, CleanupClose(ts) PROVE Steady'
  <2>1. UNCHANGED <<src, disk, announced, finish, net>> /\ ~Asking
    BY <1>6, <1>8 DEF CleanupClose, MaybeJanitor, Disturb
  <2>2. \A t \in ts : recv[t] \in Session
    BY <1>1 DEF Open
  <2>3. \A t \in Transfer :
           \/ recv'[t] = recv[t]
           \/ t \in ts /\ recv'[t] = [recv[t] EXCEPT !.file = None]
    BY <1>8 DEF CleanupClose
  <2>4. \A t \in Open' : /\ t \in Open
                         /\ recv'[t].pending = recv[t].pending
                         /\ recv'[t].size = recv[t].size
                         /\ recv'[t].expected = recv[t].expected
                         /\ recv'[t].file \in {recv[t].file, None}
    <3>1. \A t \in ts : LET r == [recv[t] EXCEPT !.file = None]
                       IN  /\ r.pending = recv[t].pending /\ r.size = recv[t].size
                           /\ r.expected = recv[t].expected /\ r.file = None
      BY <2>2 DEF Session
    <3> QED BY <2>3, <3>1 DEF Open
  <2> QED BY <2>1, <2>4, SteadyGoesOn
<1> QED BY <1>2, <1>3, <1>4, <1>5, <1>7, <1>8

(* What is asked for, and what is sent. *)
LEMMA SendSteady ==
    ASSUME TypeInv, Steady, Calm, UNCHANGED work,
           \/ AskPull(0) \/ (part # None /\ AskPull(Len(disk[part])))
           \/ \E over \in BOOLEAN : AskOffer(over)
           \/ \E f \in net : HandlePullAsProvider(f)
           \/ \E t \in Transfer : SendChunk(t)
    PROVE  Steady'
<1>1. /\ announced \subseteq {src}
      /\ \A i \in Inode : Prefix(disk[i], Content[src])
      /\ \A f \in net : SteadyFrame(f)
      /\ \A t \in Open : SteadySession(t)
      /\ finish # None => finish.size = Len(Content[src])
  BY DEF Steady
<1>2. UNCHANGED <<src, recv, finish, part, disk>> /\ announced' \subseteq announced \cup {src}
  BY DEF AskPull, AskOffer, HandlePullAsProvider, SendChunk
<1>3. ASSUME \A f \in net' : f \in net \/ SteadyFrame(f) PROVE Steady'
  <2>1. \A f \in net' : SteadyFrame(f)
    BY <1>1, <1>3
  <2>2. \A f \in net' : SteadyFrame(f)'
    BY <1>2, <2>1 DEF SteadyFrame, Right
  <2>3. \A t \in Open' : SteadySession(t)'
    BY <1>1, <1>2 DEF SteadySession, Open, Right
  <2>4. \A i \in Inode : Prefix(disk[i], Content[src])'
    BY <1>1, <1>2 DEF Prefix
  <2> QED BY <1>1, <1>2, <2>2, <2>3, <2>4 DEF Steady
<1>4. ASSUME NEW from, AskPull(from),
             from = 0 \/ (part # None /\ from <= Len(disk[part]))
      PROVE  Steady'
  <2>1. PICK g : g = [kind |-> "read", sid |-> asked + 1, from |-> from]
    OBVIOUS
  <2>2. net' = net \cup {g}
    BY <1>4, <2>1 DEF AskPull
  <2>3. SteadyFrame(g)
    BY <1>4, <2>1 DEF SteadyFrame
  <2> QED BY <1>3, <2>2, <2>3
<1>5. ASSUME NEW over \in BOOLEAN, AskOffer(over) PROVE Steady'
  <2>1. PICK g : g = [kind |-> "write", sid |-> asked + 1, over |-> over,
                      size |-> Len(Content[src]), sha |-> src]
    OBVIOUS
  <2>2. net' = net \cup {g}
    BY <1>5, <2>1 DEF AskOffer
  <2>3. SteadyFrame(g)
    BY <2>1 DEF SteadyFrame
  <2> QED BY <1>3, <2>2, <2>3
<1>6. ASSUME NEW f \in net, HandlePullAsProvider(f) PROVE Steady'
  <2>1. PICK size : size = Len(Content[src])
    OBVIOUS
  <2>2. PICK from : from = (IF f.from > size THEN 0 ELSE f.from)
    OBVIOUS
  <2>3. PICK g : g = [kind |-> "read_resp", sid |-> f.sid, size |-> size, from |-> from]
    OBVIOUS
  <2>4. net' \subseteq net \cup {g}
    BY <1>6, <2>1, <2>2, <2>3 DEF HandlePullAsProvider
  <2>5. SteadyFrame(g)
    <3>1. f.from = 0 \/ (part # None /\ f.from <= Len(disk[part]))
      BY <1>1, <1>6 DEF HandlePullAsProvider, SteadyFrame
    <3>2. g.kind = "read_resp" /\ g.size = size /\ g.from \in {0, f.from}
      BY <2>2, <2>3
    <3> QED BY <2>1, <3>1, <3>2 DEF SteadyFrame
  <2> QED BY <1>3, <2>4, <2>5
<1>7. ASSUME NEW t \in Transfer, SendChunk(t) PROVE Steady'
  <2>1. PICK off : off = sending[t].off
    OBVIOUS
  <2>2. CASE off >= Len(Content[src])
    BY <1>3, <1>7, <2>1, <2>2 DEF SendChunk
  <2>3. CASE off < Len(Content[src])
    <3>1. PICK g : g = [kind |-> "data", sid |-> t, off |-> off,
                        block |-> Content[src][off + 1], fin |-> (off + 1 = send[t].size)]
      OBVIOUS
    <3>2. net' \subseteq net \cup {g}
      BY <1>7, <2>1, <3>1 DEF SendChunk
    <3>3. SteadyFrame(g)
      BY <2>3, <3>1 DEF SteadyFrame, Right
    <3> QED BY <1>3, <3>2, <3>3
  <2>4. off \in Nat /\ Len(Content[src]) \in Nat
    BY <1>7, <2>1, VersionFile, FileAssumption
    DEF SendChunk, TypeInv, TypeOK, Sender, Offset
  <2> QED BY <2>2, <2>3, <2>4
<1>8. CASE part # None /\ AskPull(Len(disk[part]))
  <2>1. Len(disk[part]) <= Len(disk[part])
    BY <1>8 DEF TypeInv, TypeOK
  <2> QED BY <1>4, <1>8, <2>1
<1> QED BY <1>4, <1>5, <1>6, <1>7, <1>8

(* A session begins where the file ends, or the provider does. *)
LEMMA OpenSteady ==
    ASSUME TypeInv, Steady, Calm, UNCHANGED <<work, src, finish>>,
           announced' = announced,
           NEW t \in Transfer, NEW p \in {part, None}, NEW size, NEW sha,
           NEW over, NEW from \in Offset, OpenSession(t, p, size, sha, over, from),
           size = Len(Content[src]), from = 0 \/ (p # None /\ from <= Len(disk[p])),
           \A u \in Open : recv[u].file # None /\ recv[u].file = p => Len(disk[p]) <= from,
           \A f \in net' : f.kind \notin {"read", "read_resp"} /\ (f \in net \/ SteadyFrame(f))
    PROVE  Steady'
<1>1. /\ announced \subseteq {src}
      /\ \A i \in Inode : Prefix(disk[i], Content[src])
      /\ \A f \in net : SteadyFrame(f)
      /\ \A u \in Open : SteadySession(u)
      /\ finish # None => finish.size = Len(Content[src])
  BY DEF Steady
<1>2. /\ part' \in Inode /\ (p # None => part' = p)
      /\ (p = None => part' = Free)
  <2>1. part' \in Inode /\ (p # None => part' = p)
    BY OpenedFile
  <2> QED BY <2>1 DEF OpenSession
<1>3. /\ disk \in [Inode -> Seq(Block)] /\ recv \in [Transfer -> Session \cup {None}]
      /\ from \in Nat
  BY FileAssumption DEF TypeInv, TypeOK, Offset
<1>4. PICK i \in Inode : part' = i
  BY <1>2
<1>5. PICK c \in Seq(Block) : c = IF p = None THEN <<>> ELSE disk[i]
  <2>1. disk[i] \in Seq(Block) /\ <<>> \in Seq(Block)
    BY <1>3
  <2> QED BY <2>1
<1>6. PICK d : d = Truncated(c, from)
  OBVIOUS
<1>7. disk' = [disk EXCEPT ![i] = d]
  BY <1>2, <1>4, <1>5, <1>6 DEF OpenSession
<1>8. from <= Len(c)
  <2>1. CASE from = 0
    BY <1>5, <2>1
  <2>2. CASE p # None /\ from <= Len(disk[p])
    BY <1>2, <1>4, <1>5, <2>2
  <2> QED BY <2>1, <2>2
<1>9. d \in Seq(Block) /\ Len(d) = from /\ \A k \in 1..from : d[k] = c[k]
  <2>1. /\ d \in Seq(Block) /\ Len(d) = from
        /\ \A k \in 1..from : k <= Len(c) => d[k] = c[k]
    BY <1>3, <1>6, TruncatedFile
  <2> QED BY <1>3, <1>5, <1>8, <2>1
<1>10. Prefix(d, Content[src])
  <2>1. PICK whole : whole = Content[src] /\ Len(whole) \in Nat
    BY VersionFile DEF TypeInv, TypeOK
  <2>2. Prefix(c, whole)
    <3>1. Prefix(disk[i], whole)
      BY <1>1, <2>1
    <3>2. Prefix(<<>>, whole)
      BY <2>1 DEF Prefix
    <3> QED BY <1>5, <3>1, <3>2
  <2>3. Len(c) \in Nat
    BY <1>5
  <2>4. Len(c) <= Len(whole) /\ \A k \in 1..Len(c) : c[k] = whole[k]
    BY <2>2 DEF Prefix
  <2>5. \A k \in 1..from : k \in 1..Len(c)
    BY <1>3, <1>8, <2>3
  <2>6. from <= Len(whole) /\ \A k \in 1..from : d[k] = whole[k]
    BY <1>3, <1>8, <1>9, <2>1, <2>3, <2>4, <2>5
  <2> QED BY <1>9, <2>1, <2>6 DEF Prefix
<1>11. \A j \in Inode : Prefix(disk'[j], Content[src'])
  BY <1>1, <1>3, <1>7, <1>10
<1>12. \A f \in net' : SteadyFrame(f)'
  <2>1. \A f \in net' : SteadyFrame(f) /\ f.kind \notin {"read", "read_resp"}
    BY <1>1
  <2> QED BY <2>1 DEF SteadyFrame, Right
<1>13. PICK s : s = NewSession(size, sha, over, i, from) /\ recv' = [recv EXCEPT ![t] = s]
  BY <1>2, <1>4 DEF OpenSession
<1>14. /\ s.size = Len(Content[src]) /\ s.pending = {} /\ s.file = i
       /\ s.expected = from
  BY <1>13 DEF NewSession
<1>15. ASSUME NEW u \in Open' PROVE SteadySession(u)'
  <2>1. CASE u = t
    <3>1. recv'[u] = s
      BY <1>3, <1>13, <2>1
    <3>2. disk'[i] = d
      BY <1>3, <1>7
    <3> QED BY <1>3, <1>9, <1>14, <3>1, <3>2 DEF SteadySession
  <2>2. CASE u # t
    <3>1. u \in Open /\ recv'[u] = recv[u] /\ u \in Transfer
      BY <1>3, <1>13, <2>2 DEF Open
    <3>2. SteadySession(u) /\ recv[u] \in Session
      BY <1>1, <1>3, <3>1 DEF Open
    <3>3. CASE recv[u].file = None
      BY <3>1, <3>2, <3>3 DEF SteadySession, Right
    <3>4. CASE recv[u].file # None /\ recv[u].file # i
      <4>1. disk'[recv[u].file] = disk[recv[u].file]
        BY <1>3, <1>7, <3>2, <3>4 DEF Session
      <4> QED BY <3>1, <3>2, <4>1 DEF SteadySession, Right
    <3>5. CASE recv[u].file = i
      <4>1. recv[u].file # Free
        BY <3>1, FreeInode
      <4>2. p = i /\ recv[u].file # None
        BY <1>2, <1>4, <3>5, <4>1, FileAssumption DEF Inode
      <4>3. Len(disk[i]) <= from
        BY <3>1, <3>5, <4>2
      <4>4. recv[u].expected <= Len(disk[i])
        BY <3>2, <3>5, <4>2 DEF SteadySession
      <4>5. disk'[i] = d /\ Len(disk[i]) \in Nat /\ recv[u].expected \in Nat
        BY <1>3, <1>7, <3>2, FileAssumption DEF Session, Offset
      <4>6. recv[u].expected <= Len(disk'[i])
        BY <1>3, <1>9, <4>3, <4>4, <4>5
      <4> QED BY <3>1, <3>2, <3>5, <4>6 DEF SteadySession, Right
    <3> QED BY <3>3, <3>4, <3>5
  <2> QED BY <2>1, <2>2
<1> QED BY <1>1, <1>11, <1>12, <1>15 DEF Steady

(* handleReadRespLocal keeps what was sent and what was written. *)
LEMMA ReadRespSteady ==
    ASSUME TypeInv, Turns, Sums, Steady, Calm, UNCHANGED work,
           NEW f \in net, HandleReadRespLocal(f)
    PROVE  Steady'
<1>1. /\ f \in Frame /\ f.kind = "read_resp" /\ f.sid \in Transfer /\ f.from \in Offset
  BY FrameFields DEF HandleReadRespLocal, TypeInv, TypeOK
<1>2. ~work.overlap /\ Open = {} /\ \A g \in net : g.kind \in Opening => g = f
  BY <1>1 DEF Calm, FixedSource, OffersInTurn, Sums, Turns, Opening
<1>3. SteadyFrame(f)
  BY DEF Steady
<1>4. /\ f.size = Len(Content[src])
      /\ f.from = 0 \/ (part # None /\ f.from <= Len(disk[part]))
  BY <1>1, <1>3 DEF SteadyFrame
<1>5. /\ UNCHANGED <<src, announced>> /\ net' = net \ {f}
  BY DEF HandleReadRespLocal
<1>6. \A g \in net' : g \in net /\ g.kind \notin {"read", "write", "read_resp"}
  BY <1>2, <1>5 DEF Opening
<1>7. /\ announced \subseteq {src}
      /\ \A i \in Inode : Prefix(disk[i], Content[src])
      /\ \A g \in net : SteadyFrame(g)
      /\ \A t \in Open : SteadySession(t)
      /\ finish # None => finish.size = Len(Content[src])
  BY DEF Steady
<1>8. \A g \in net' : SteadyFrame(g)'
  <2>1. \A g \in net' : SteadyFrame(g)
    BY <1>6, <1>7
  <2> QED BY <1>5, <1>6, <2>1 DEF SteadyFrame, Right
<1>9. ASSUME recv' = recv, \A i \in Inode : Prefix(disk'[i], Content[src]),
             finish' # None => finish'.size = Len(Content[src])
      PROVE  Steady'
  <2>1. Open' = {}
    BY <1>2, <1>9 DEF Open
  <2> QED BY <1>5, <1>7, <1>8, <1>9, <2>1 DEF Steady
<1>10. CASE UNCHANGED <<recv, finish, files>>
  BY <1>7, <1>9, <1>10
<1>11. CASE finish' = Promote(f.sid, f.size, None, TRUE, FALSE) /\ UNCHANGED <<disk, recv>>
  <2>1. finish'.size = f.size
    BY <1>11 DEF Promote
  <2> QED BY <1>4, <1>7, <1>9, <1>11, <2>1
<1>12. CASE /\ disk' = IF part = None THEN [disk EXCEPT ![Free] = <<>>] ELSE disk
            /\ UNCHANGED <<finish, recv>>
  <2>1. PICK whole : whole = Content[src] /\ Len(whole) \in Nat
    BY VersionFile DEF TypeInv, TypeOK
  <2>2. Prefix(<<>>, whole)
    BY <2>1 DEF Prefix
  <2>3. PICK i : i = Free
    OBVIOUS
  <2>4. disk' = disk \/ disk' = [disk EXCEPT ![i] = <<>>]
    BY <1>12, <2>3
  <2>5. \A j \in Inode : disk'[j] = disk[j] \/ disk'[j] = <<>>
    BY <2>4 DEF TypeInv, TypeOK
  <2>6. \A j \in Inode : Prefix(disk'[j], Content[src])
    BY <1>7, <2>1, <2>2, <2>5
  <2> QED BY <1>7, <1>9, <1>12, <2>6
<1>13. CASE OpenSession(f.sid, part, f.size, None, TRUE, f.from) /\ UNCHANGED finish
  <2>1. PICK over : OpenSession(f.sid, part, f.size, None, over, f.from)
    BY <1>13
  <2>2. part \in {part, None}
    OBVIOUS
  <2>3. \A u \in Open : recv[u].file # None /\ recv[u].file = part => Len(disk[part]) <= f.from
    BY <1>2
  <2> QED BY <1>1, <1>4, <1>5, <1>6, <1>13, <2>1, <2>2, <2>3, OpenSteady
<1> QED BY <1>10, <1>11, <1>12, <1>13 DEF HandleReadRespLocal

(* handleOfferAsConsumer keeps what was sent and what was written. *)
LEMMA OfferSteady ==
    ASSUME TypeInv, Turns, Sums, Steady, Calm, UNCHANGED work,
           NEW f \in net, HandleOfferAsConsumer(f)
    PROVE  Steady'
<1>1. /\ f \in Frame /\ f.kind = "write" /\ f.sid \in Transfer
  BY FrameFields DEF HandleOfferAsConsumer, TypeInv, TypeOK
<1>2. SteadyFrame(f)
  BY DEF Steady
<1>3. f.size = Len(Content[src])
  BY <1>1, <1>2 DEF SteadyFrame
<1>4. \A g \in net : g.kind \in {"read", "read_resp"} => FALSE
  BY <1>1 DEF Calm, FixedSource, OffersInTurn, Sums, Turns, Opening
<1>5. UNCHANGED <<src, announced>>
  BY DEF HandleOfferAsConsumer
<1>6. \A g \in net' : g \in net \/ g.kind = "write_resp"
  <2>1. \E from : net' \subseteq (net \ {f}) \cup {WriteResp(f, from)}
    BY DEF HandleOfferAsConsumer
  <2>2. \A from : WriteResp(f, from).kind = "write_resp"
    BY DEF WriteResp
  <2> QED BY <2>1, <2>2
<1>7. ~Asking
  BY <1>4 DEF Asking
<1>8. CASE UNCHANGED <<recv, disk, finish>>
  <2>1. Open' = Open
    BY <1>8 DEF Open
  <2> QED BY <1>5, <1>6, <1>7, <1>8, <2>1, SteadyGoesOn
<1>9. CASE finish' = Promote(f.sid, f.size, f.sha, f.over, TRUE) /\ UNCHANGED <<part, disk, recv>>
  <2>1. finish'.size = f.size
    BY <1>9 DEF Promote
  <2>2. /\ announced \subseteq {src}
        /\ \A i \in Inode : Prefix(disk[i], Content[src])
        /\ \A g \in net : SteadyFrame(g)
        /\ \A t \in Open : SteadySession(t)
    BY DEF Steady
  <2>3. \A g \in net' : SteadyFrame(g)'
    BY <1>4, <1>5, <1>6, <2>2 DEF SteadyFrame, Right
  <2>4. \A t \in Open' : SteadySession(t)'
    BY <1>5, <1>9, <2>2 DEF SteadySession, Open, Right
  <2>5. \A i \in Inode : Prefix(disk[i], Content[src])'
    BY <1>5, <1>9, <2>2 DEF Prefix
  <2> QED BY <1>3, <1>5, <1>9, <2>1, <2>2, <2>3, <2>4, <2>5 DEF Steady
<1>10. ASSUME NEW p \in {part, None}, NEW from \in Offset,
              OpenSession(f.sid, p, f.size, f.sha, f.over, from), finish' = finish,
              from = IF p = None THEN 0 ELSE Len(disk[p])
       PROVE  Steady'
  <2>1. from = 0 \/ (p # None /\ from <= Len(disk[p]))
    <3>1. from \in Nat
      BY FileAssumption DEF Offset
    <3> QED BY <1>10, <3>1
  <2>2. \A u \in Open : recv[u].file # None /\ recv[u].file = p => Len(disk[p]) <= from
    <3>1. from \in Nat
      BY FileAssumption DEF Offset
    <3> QED BY <1>10, <3>1
  <2>3. \A g \in net' : g.kind \notin {"read", "read_resp"} /\ (g \in net \/ SteadyFrame(g))
    BY <1>4, <1>6 DEF SteadyFrame
  <2> QED BY <1>1, <1>3, <1>5, <1>10, <2>1, <2>2, <2>3, OpenSteady
<1>11. UsablePart(f) \in {part, None}
  BY DEF UsablePart
<1>12. PICK p \in {part, None} : p = UsablePart(f)
  BY <1>11
<1>13. PICK from \in Offset : from = IF p = None THEN 0 ELSE Len(disk[p])
  BY <1>12, FileAssumption DEF TypeInv, TypeOK, Offset
<1>14. CASE OpenSession(f.sid, p, f.size, f.sha, f.over, from) /\ UNCHANGED finish
  BY <1>10, <1>13, <1>14
<1> QED BY <1>8, <1>9, <1>12, <1>13, <1>14 DEF HandleOfferAsConsumer

(* Chunks of the source, written where a file has come, continue it. *)
LEMMA PrefixGrows ==
    ASSUME NEW whole, Len(whole) \in Nat, NEW c \in Seq(Block), Prefix(c, whole),
           NEW blocks \in SUBSET (Chunk \X Block),
           \A b \in blocks : b[1] < Len(whole) /\ b[2] = whole[b[1] + 1],
           NEW off \in Nat, off <= Len(c), NEW n \in Nat, off < n,
           \A b \in blocks : b[1] + 1 <= n \/ b[1] = off,
           \A i \in off + 1..n : \E b \in blocks : b[1] + 1 = i,
           NEW w, w = Written(c, blocks)
    PROVE  Prefix(w, whole) /\ n <= Len(w) /\ Len(c) <= Len(w) /\ w \in Seq(Block)
<1>1. /\ w \in Seq(Block) /\ Len(c) <= Len(w)
      /\ \A b \in blocks : b[1] + 1 <= Len(w)
      /\ Len(w) = Len(c) \/ \E b \in blocks : b[1] + 1 = Len(w)
      /\ \A i \in 1..Len(w) :
            \/ \E b \in blocks : b[1] + 1 = i /\ w[i] = b[2]
            \/ i <= Len(c) /\ w[i] = c[i]
            \/ i > Len(c) /\ \A b \in blocks : b[1] + 1 # i
  BY WrittenFile
<1>2. Len(c) \in Nat /\ Len(w) \in Nat /\ \A b \in blocks : b[1] \in Nat
  BY <1>1, FileAssumption DEF Chunk
<1>3. Len(c) <= Len(whole) /\ \A i \in 1..Len(c) : c[i] = whole[i]
  BY DEF Prefix
<1>4. n <= Len(w)
  <2>1. n \in off + 1..n
    OBVIOUS
  <2>2. PICK b \in blocks : b[1] + 1 = n
    BY <2>1
  <2> QED BY <1>1, <2>2
<1>5. Len(w) <= Len(whole)
  <2>1. CASE Len(w) = Len(c)
    BY <1>3, <2>1
  <2>2. ASSUME NEW b \in blocks, b[1] + 1 = Len(w) PROVE Len(w) <= Len(whole)
    BY <1>2, <2>2
  <2> QED BY <1>1, <2>1, <2>2
<1>6. Len(w) <= n \/ Len(w) <= Len(c)
  <2>1. ASSUME NEW b \in blocks, b[1] + 1 = Len(w) PROVE Len(w) <= n
    BY <1>2, <2>1
  <2> QED BY <1>1, <1>2, <2>1
<1>7. ASSUME NEW i \in 1..Len(w) PROVE w[i] = whole[i]
  <2>1. ASSUME NEW b \in blocks, b[1] + 1 = i, w[i] = b[2] PROVE w[i] = whole[i]
    BY <2>1
  <2>2. CASE i <= Len(c) /\ w[i] = c[i]
    <3>1. i \in 1..Len(c)
      BY <1>2, <2>2
    <3> QED BY <1>3, <2>2, <3>1
  <2>3. CASE i > Len(c) /\ \A b \in blocks : b[1] + 1 # i
    <3>1. i \in off + 1..n
      BY <1>2, <1>6, <2>3
    <3> QED BY <2>3, <3>1
  <2> QED BY <1>1, <2>1, <2>2, <2>3
<1> QED BY <1>1, <1>4, <1>5, <1>7 DEF Prefix

(* What a data frame makes of the file of its session. *)
LEMMA DataPrefix ==
    ASSUME TypeInv, Steady, Calm, UNCHANGED work,
           NEW f \in net, NEW again \in BOOLEAN, NEW ack \in BOOLEAN,
           HandleData(f, again, ack), f.off = recv[f.sid].expected
    PROVE  \E w \in Seq(Block) :
              /\ disk' = [disk EXCEPT ![recv[f.sid].file] = w]
              /\ Prefix(w, Content[src]) /\ Len(disk[recv[f.sid].file]) <= Len(w)
              /\ recv'[f.sid].expected <= Len(w)
<1>1. /\ f \in Frame /\ f.kind = "data" /\ f.sid \in Transfer
      /\ recv[f.sid] \in Session /\ recv[f.sid].file \in Inode
      /\ recv'[f.sid].expected = Reached(recv[f.sid], f.off)
  BY DataSession
<1>2. None \notin Inode /\ recv[f.sid] # None
  BY <1>1, FileAssumption DEF Inode
<1>3. SteadyFrame(f) /\ SteadySession(f.sid) /\ Prefix(disk[recv[f.sid].file], Content[src])
  BY <1>1, <1>2 DEF Steady, Open
<1>4. PICK s \in Session : s = recv[f.sid]
  BY <1>1
<1>5. PICK whole : whole = Content[src] /\ Len(whole) \in Nat
  BY VersionFile DEF TypeInv, TypeOK
<1>6. PICK c \in Seq(Block) : c = disk[s.file]
  BY <1>1, <1>4 DEF TypeInv, TypeOK
<1>7. PICK blocks \in SUBSET (Chunk \X Block), w \in Seq(Block) :
         /\ disk' = [disk EXCEPT ![recv[f.sid].file] = w]
         /\ blocks = Flushed(s, f) /\ w = Written(c, blocks)
  BY <1>4, <1>6, DataFile
<1>8. PICK off \in Nat : off = f.off /\ off \in Chunk
  BY <1>1, FrameFields, FileAssumption DEF Chunk
<1>9. PICK n : n = Reached(s, f.off)
  OBVIOUS
<1>10. n \in off + 1..MaxSize
  BY <1>8, <1>9, ReachedOffset
<1>11. n \in Nat /\ off < n
  BY <1>8, <1>10, FileAssumption
<1>12. /\ blocks \subseteq s.pending \cup {<<f.off, f.block>>}
       /\ \A b \in blocks : b[1] + 1 <= n \/ b[1] = off
       /\ \A i \in off + 1..n : \E b \in blocks : b[1] + 1 = i
  <2>1. f \in Frame /\ f.kind = "data" /\ blocks = Flushed(s, f)
    BY <1>1, <1>7
  <2>2. /\ blocks \subseteq s.pending \cup {<<f.off, f.block>>}
        /\ \A b \in blocks : b[1] + 1 <= n \/ b[1] = f.off
        /\ \A i \in f.off + 1..n : \E b \in blocks : b[1] + 1 = i
    BY <1>9, <2>1, FlushedBlocks
  <2> QED BY <1>8, <2>2
<1>13. off <= Len(c) /\ Prefix(c, whole)
  BY <1>2, <1>3, <1>4, <1>5, <1>6, <1>8, <1>1 DEF SteadySession
<1>14. \A b \in blocks : b[1] < Len(whole) /\ b[2] = whole[b[1] + 1]
  <2>1. Right(f.off, f.block) /\ \A b \in s.pending : Right(b[1], b[2])
    BY <1>1, <1>3, <1>4 DEF SteadyFrame, SteadySession
  <2>2. \A b \in blocks : Right(b[1], b[2])
    BY <1>12, <2>1
  <2> QED BY <1>5, <2>2 DEF Right
<1>15. Prefix(w, whole) /\ n <= Len(w) /\ Len(c) <= Len(w)
  BY <1>5, <1>7, <1>11, <1>12, <1>13, <1>14, PrefixGrows
<1> QED BY <1>1, <1>4, <1>5, <1>6, <1>7, <1>9, <1>15

(* handleData keeps what was sent and what was written. *)
LEMMA DataSteady ==
    ASSUME TypeInv, Steady, Calm, UNCHANGED work,
           NEW f \in net, NEW again \in BOOLEAN, NEW ack \in BOOLEAN,
           HandleData(f, again, ack)
    PROVE  Steady'
<1>1. /\ f \in Frame /\ f.kind = "data" /\ f.sid \in Transfer
      /\ recv[f.sid] \in Session /\ recv[f.sid].file \in Inode
      /\ \A t \in Transfer \ {f.sid} : recv'[t] = recv[t]
  BY DataSession
<1>2. /\ recv'[f.sid].size = recv[f.sid].size
      /\ recv'[f.sid].file \in {recv[f.sid].file, None}
      /\ recv'[f.sid].pending \subseteq recv[f.sid].pending \cup {<<f.off, f.block>>}
      /\ f.off # recv[f.sid].expected => recv'[f.sid].expected = recv[f.sid].expected
      /\ finish' # None => finish'.size = recv[f.sid].size
  BY DataSession
<1>3. /\ announced \subseteq {src}
      /\ \A i \in Inode : Prefix(disk[i], Content[src])
      /\ \A g \in net : SteadyFrame(g)
      /\ \A t \in Open : SteadySession(t)
  BY DEF Steady
<1>4. /\ disk \in [Inode -> Seq(Block)] /\ recv \in [Transfer -> Session \cup {None}]
      /\ None \notin Inode /\ recv[f.sid] # None /\ part \in Inode \cup {None}
  BY <1>1, FileAssumption DEF TypeInv, TypeOK, Inode
<1>5. UNCHANGED <<src, part, announced>>
  BY DEF HandleData
<1>6. /\ \A i \in Inode : Prefix(disk'[i], Content[src]) /\ Len(disk[i]) <= Len(disk'[i])
      /\ recv'[f.sid].expected <= Len(disk'[recv[f.sid].file])
  <2>1. CASE f.off = recv[f.sid].expected
    <3>1. PICK w \in Seq(Block) :
              /\ disk' = [disk EXCEPT ![recv[f.sid].file] = w]
              /\ Prefix(w, Content[src]) /\ Len(disk[recv[f.sid].file]) <= Len(w)
              /\ recv'[f.sid].expected <= Len(w)
      BY <2>1, DataPrefix
    <3>2. PICK k \in Inode : k = recv[f.sid].file
      BY <1>1
    <3>3. disk'[k] = w /\ \A i \in Inode \ {k} : disk'[i] = disk[i]
      BY <1>4, <3>1, <3>2
    <3>4. \A i \in Inode : Len(disk[i]) <= Len(disk[i])
      <4>1. \A i \in Inode : Len(disk[i]) \in Nat
        BY <1>4
      <4> QED BY <4>1
    <3> QED BY <1>3, <3>1, <3>2, <3>3, <3>4
  <2>2. CASE f.off # recv[f.sid].expected
    <3>1. disk' = disk
      BY <2>2 DEF HandleData
    <3>2. \A i \in Inode : Len(disk[i]) <= Len(disk[i])
      <4>1. \A i \in Inode : Len(disk[i]) \in Nat
        BY <1>4
      <4> QED BY <4>1
    <3>3. f.sid \in Open
      BY <1>1, <1>4 DEF Open
    <3>4. recv[f.sid].expected <= Len(disk[recv[f.sid].file])
      BY <1>1, <1>3, <1>4, <3>3 DEF SteadySession
    <3> QED BY <1>2, <1>3, <2>2, <3>1, <3>2, <3>4
  <2> QED BY <2>1, <2>2
<1>7. \A i \in Inode : Len(disk[i]) \in Nat /\ Len(disk'[i]) \in Nat
  <2>1. disk' \in [Inode -> Seq(Block)]
    <3>1. TypeInv'
      BY DataTypes
    <3> QED BY <3>1 DEF TypeInv, TypeOK
  <2> QED BY <1>4, <2>1
<1>8. ASSUME NEW g \in net' PROVE SteadyFrame(g)'
  <2>1. g \in net \/ g.kind = "ack"
    BY DEF HandleData
  <2>2. CASE g.kind = "ack"
    BY <2>2 DEF SteadyFrame
  <2>3. CASE g \in net
    <3>1. SteadyFrame(g) /\ g \in Frame
      BY <1>3, <2>3 DEF TypeInv, TypeOK
    <3>2. g.kind \in {"read", "read_resp"} =>
             g.from = 0 \/ (part' # None /\ g.from <= Len(disk'[part']))
      <4>1. CASE g.kind \in {"read", "read_resp"} /\ g.from # 0
        <5>1. part # None /\ g.from <= Len(disk[part])
          BY <3>1, <4>1 DEF SteadyFrame
        <5>2. part \in Inode /\ g.from \in Nat
          BY <1>4, <3>1, <4>1, <5>1, FrameFields, FileAssumption DEF Offset
        <5>3. Len(disk[part]) <= Len(disk'[part]) /\ Len(disk[part]) \in Nat
              /\ Len(disk'[part]) \in Nat
          BY <1>6, <1>7, <5>2
        <5>4. g.from <= Len(disk'[part])
          BY <5>1, <5>2, <5>3
        <5> QED BY <1>5, <5>1, <5>4
      <4> QED BY <4>1
    <3> QED BY <1>5, <3>1, <3>2 DEF SteadyFrame, Right
  <2> QED BY <2>1, <2>2, <2>3
<1>9. Right(f.off, f.block)
  BY <1>1, <1>3 DEF SteadyFrame
<1>10. ASSUME NEW t \in Open' PROVE SteadySession(t)'
  <2>1. CASE t = f.sid
    <3>1. t \in Open
      BY <1>1, <1>4, <2>1 DEF Open
    <3>2. SteadySession(t)
      BY <1>3, <3>1
    <3>3. \A c \in recv'[t].pending : Right(c[1], c[2])
      <4>1. \A c \in recv[t].pending : Right(c[1], c[2])
        BY <3>2 DEF SteadySession
      <4> QED BY <1>2, <1>9, <2>1, <4>1
    <3>4. recv'[t].size = Len(Content[src])
      BY <1>2, <2>1, <3>2 DEF SteadySession
    <3>5. recv'[t].file # None => recv'[t].expected <= Len(disk'[recv'[t].file])
      BY <1>2, <1>6, <2>1
    <3> QED BY <1>5, <3>3, <3>4, <3>5 DEF SteadySession, Right
  <2>2. CASE t # f.sid
    <3>1. t \in Open /\ recv'[t] = recv[t] /\ recv[t] \in Session
      BY <1>1, <1>4, <2>2 DEF Open
    <3>2. SteadySession(t)
      BY <1>3, <3>1
    <3>3. recv[t].file # None => recv[t].expected <= Len(disk'[recv[t].file])
      <4>1. CASE recv[t].file # None
        <5>1. PICK k \in Inode : k = recv[t].file
          BY <3>1, <4>1 DEF Session
        <5>2. PICK e \in Nat : e = recv[t].expected
          BY <3>1, FileAssumption DEF Session, Offset
        <5>3. e <= Len(disk[k])
          BY <3>2, <4>1, <5>1, <5>2 DEF SteadySession
        <5>4. Len(disk[k]) <= Len(disk'[k]) /\ Len(disk[k]) \in Nat /\ Len(disk'[k]) \in Nat
          BY <1>6, <1>7
        <5> QED BY <5>1, <5>2, <5>3, <5>4
      <4> QED BY <4>1
    <3> QED BY <1>5, <3>1, <3>2, <3>3 DEF SteadySession, Right
  <2> QED BY <2>1, <2>2
<1>11. finish' # None => finish'.size = Len(Content[src])
  <2>1. f.sid \in Open
    BY <1>1, <1>4 DEF Open
  <2> QED BY <1>2, <1>3, <2>1 DEF SteadySession
<1> QED BY <1>3, <1>5, <1>6, <1>8, <1>10, <1>11 DEF Steady

(* What has suffered has suffered. *)
LEMMA HurtStays ==
    ASSUME Next, hurt
    PROVE  hurt'
<1>1. ASSUME NEW kind, Disturb(kind) PROVE hurt'
  BY <1>1 DEF Disturb
<1>2. ASSUME NEW f \in net, Handle(f) PROVE hurt'
  <2>1. CASE HandlePullAsProvider(f) \/ HandleWriteRespLocal(f) \/ HandleAck(f)
    BY <2>1 DEF HandlePullAsProvider, HandleWriteRespLocal, HandleAck
  <2>2. CASE HandleReadRespLocal(f) \/ DropData(f)
    BY <2>2 DEF HandleReadRespLocal, DropData
  <2>3. CASE HandleOfferAsConsumer(f)
    BY <2>3 DEF HandleOfferAsConsumer
  <2>4. ASSUME NEW again \in BOOLEAN, NEW ack \in BOOLEAN, HandleData(f, again, ack)
        PROVE  hurt'
    BY <1>1, <2>4 DEF HandleData
  <2> QED BY <1>2, <2>1, <2>2, <2>3, <2>4 DEF Handle
<1>3. ASSUME NEW f \in net, Lose(f) PROVE hurt'
  BY <1>1, <1>3 DEF Lose
<1>4. CASE \/ \E v \in Version : Rewrite(v)
           \/ RestartConsumer \/ RestartProvider \/ CleanupExpiredParts
           \/ \E ts \in SUBSET Open : CleanupClose(ts)
  BY <1>1, <1>4 DEF Rewrite, RestartConsumer, RestartProvider, CleanupExpiredParts,
                    CleanupClose, MaybeJanitor
<1>5. CASE \/ AskPull(0) \/ (part # None /\ AskPull(Len(disk[part])))
           \/ (\E over \in BOOLEAN : AskOffer(over))
           \/ (\E t \in Transfer : SendOpen(t) \/ SendChunk(t))
           \/ FinishVerify \/ FinishRemove \/ FinishRename \/ CleanupDelete
  BY <1>5 DEF AskPull, AskOffer, SendOpen, SendChunk, FinishVerify, FinishRemove,
              FinishRename, CleanupDelete
<1> QED BY <1>2, <1>3, <1>4, <1>5 DEF Next

(* Every step keeps what was sent and what was written. *)
LEMMA StepSteady ==
    ASSUME TypeInv, Turns, Sums, Steady, [Next]_vars
    PROVE  Steady'
<1>1. CASE UNCHANGED vars
  <2>1. /\ UNCHANGED <<work, src, disk, announced, net, finish, part, recv>>
        /\ Open' = Open
    BY <1>1 DEF vars, Open
  <2>2. hurt' = hurt
    BY <1>1 DEF vars
  <2> QED BY <2>1, <2>2
      DEF Steady, Calm, FixedSource, OffersInTurn, SteadyFrame, SteadySession, Right, Prefix
<1>2. CASE Next /\ Calm /\ Calm'
  <2>1. UNCHANGED work
    BY <1>2 DEF Next
  <2>2. ~\E v \in Version : Rewrite(v)
    BY <1>2, <2>1 DEF Rewrite, Disturb, Calm, FixedSource, OffersInTurn
  <2>3. ASSUME NEW f \in net, Handle(f) PROVE Steady'
    <3>1. CASE HandleReadRespLocal(f) \/ HandleOfferAsConsumer(f)
      BY <1>2, <2>1, <3>1, ReadRespSteady, OfferSteady
    <3>2. CASE HandlePullAsProvider(f)
      BY <1>2, <2>1, <3>2, SendSteady
    <3>3. CASE HandleWriteRespLocal(f) \/ HandleAck(f) \/ DropData(f)
      BY <1>2, <2>1, <3>3, QuietSteady
    <3>4. CASE \E again, ack \in BOOLEAN : HandleData(f, again, ack)
      BY <1>2, <2>1, <3>4, DataSteady
    <3> QED BY <2>3, <3>1, <3>2, <3>3, <3>4 DEF Handle
  <2>4. CASE \/ AskPull(0) \/ (part # None /\ AskPull(Len(disk[part])))
             \/ (\E over \in BOOLEAN : AskOffer(over))
             \/ \E t \in Transfer : SendChunk(t)
    BY <1>2, <2>1, <2>4, SendSteady
  <2>5. CASE \/ \E f \in net : Lose(f)
             \/ \E t \in Transfer : SendOpen(t)
             \/ FinishVerify \/ FinishRemove \/ FinishRename
             \/ RestartConsumer \/ RestartProvider
             \/ CleanupDelete \/ CleanupExpiredParts
             \/ \E ts \in SUBSET Open : CleanupClose(ts)
    BY <1>2, <2>1, <2>5, QuietSteady
  <2> QED BY <1>2, <2>2, <2>3, <2>4, <2>5 DEF Next
<1>3. CASE Next /\ ~Calm
  <2>1. UNCHANGED work /\ (hurt => hurt')
    BY <1>3, HurtStays DEF Next
  <2> QED BY <1>3, <2>1 DEF Steady, Calm, FixedSource, OffersInTurn
<1>4. CASE ~Calm'
  BY <1>4 DEF Steady
<1> QED BY <1>1, <1>2, <1>3, <1>4

-----------------------------------------------------------------------------
(* What is under the final name.                                           *)

(* A part of a file that is as long as the file is the file. *)
LEMMA WholePrefix ==
    ASSUME NEW c \in Seq(Block), NEW whole \in Seq(Block), Prefix(c, whole),
           Len(c) >= Len(whole)
    PROVE  c = whole
<1>1. Len(c) \in Nat /\ Len(whole) \in Nat
  OBVIOUS
<1>2. Len(c) = Len(whole) /\ \A i \in 1..Len(c) : c[i] = whole[i]
  BY <1>1 DEF Prefix
<1> QED BY <1>2

(* Until a transfer ends, what is under the final name stays. *)
LEMMA FinalStays ==
    ASSUME TypeInv, Turns, Apart, Steady, Whole, Steady', TypeInv',
           FixedSource(work) \/ OffersInTurn(work), [Next]_vars
    PROVE  \/ /\ final' = final /\ (final # None => disk'[final] = disk[final])
              /\ announced' \in {announced, announced \cup {src}}
           \/ FinishRemove \/ FinishRename
<1>1. CASE UNCHANGED vars
  BY <1>1 DEF vars
<1> SUFFICES ASSUME Next
             PROVE  \/ /\ final' = final /\ (final # None => disk'[final] = disk[final])
                       /\ announced' \in {announced, announced \cup {src}}
                    \/ FinishRemove \/ FinishRename
  BY <1>1
<1>2. /\ disk \in [Inode -> Seq(Block)] /\ final \in Inode \cup {None}
      /\ disk' \in [Inode -> Seq(Block)]
      /\ recv \in [Transfer -> Session \cup {None}] /\ src \in Version
  BY DEF TypeInv, TypeOK
<1>3. CASE /\ UNCHANGED <<final, disk>>
           /\ announced' \in {announced, announced \cup {src}}
  BY <1>3
<1>4. ASSUME NEW t, NEW p \in {part, None}, NEW size, NEW sha, NEW over, NEW from,
             OpenSession(t, p, size, sha, over, from), final # None
      PROVE  disk'[final] = disk[final]
  <2>1. part' # final
    <3>1. CASE p = None
      BY <1>4, <3>1, FreeInode DEF OpenSession
    <3>2. CASE p # None
      BY <1>4, <3>2 DEF OpenSession, Apart
    <3> QED BY <3>1, <3>2
  <2>2. \E c : disk' = [disk EXCEPT ![part'] = c]
    BY <1>4 DEF OpenSession
  <2> QED BY <1>2, <2>1, <2>2
<1>5. ASSUME NEW f \in net, HandleReadRespLocal(f)
      PROVE  /\ final' = final /\ (final # None => disk'[final] = disk[final])
             /\ announced' = announced
  <2>1. UNCHANGED <<final, announced>>
    BY <1>5 DEF HandleReadRespLocal
  <2>2. ASSUME disk' = [disk EXCEPT ![Free] = <<>>], final # None
        PROVE  disk'[final] = disk[final]
    <3>1. Free # final
      BY FreeInode
    <3> QED BY <1>2, <2>2, <3>1
  <2>3. ASSUME OpenSession(f.sid, part, f.size, None, TRUE, f.from), final # None
        PROVE  disk'[final] = disk[final]
    <3>1. PICK over : OpenSession(f.sid, part, f.size, None, over, f.from)
      BY <2>3
    <3> QED BY <1>4, <2>3, <3>1
  <2> QED BY <1>5, <2>1, <2>2, <2>3 DEF HandleReadRespLocal
<1>6. ASSUME NEW f \in net, HandleOfferAsConsumer(f)
      PROVE  /\ final' = final /\ (final # None => disk'[final] = disk[final])
             /\ announced' = announced
  <2>1. UNCHANGED <<final, announced>>
    BY <1>6 DEF HandleOfferAsConsumer
  <2>2. UsablePart(f) \in {part, None}
    BY DEF UsablePart
  <2>3. ASSUME NEW from, OpenSession(f.sid, UsablePart(f), f.size, f.sha, f.over, from),
               final # None
        PROVE  disk'[final] = disk[final]
    BY <1>4, <2>2, <2>3
  <2> QED BY <1>6, <2>1, <2>3 DEF HandleOfferAsConsumer
<1>7. ASSUME NEW f \in net, NEW again \in BOOLEAN, NEW ack \in BOOLEAN,
             HandleData(f, again, ack)
      PROVE  /\ final' = final /\ (final # None => disk'[final] = disk[final])
             /\ announced' = announced
  <2>1. UNCHANGED <<final, announced, src, work>>
    BY <1>7 DEF HandleData, Next
  <2>2. CASE disk' = disk
    BY <2>1, <2>2
  <2>3. /\ f.sid \in Transfer /\ recv[f.sid] \in Session /\ recv[f.sid].file \in Inode
        /\ None \notin Inode /\ recv[f.sid] # None
    BY <1>7, DataSession, FileAssumption DEF Inode
  <2>4. CASE disk' # disk /\ ~work.overlap
    <3>1. recv[f.sid].file # final
      BY <2>3, <2>4 DEF Apart, Open
    <3>2. \E w : disk' = [disk EXCEPT ![recv[f.sid].file] = w]
      BY <1>7, <2>4 DEF HandleData
    <3> QED BY <1>2, <2>1, <3>1, <3>2
  <2>5. CASE disk' # disk /\ work.overlap /\ final # None
    <3>1. FixedSource(work) /\ Calm /\ final \in Inode
      BY <1>2, <2>5 DEF OffersInTurn, Calm
    <3>2. PICK v \in announced : disk[final] = Content[v]
      BY <2>5 DEF Whole
    <3>3. v = src
      BY <3>1, <3>2 DEF Steady
    <3>4. Prefix(disk'[final], Content[src])
      BY <2>1, <3>1 DEF Steady, Calm
    <3>5. Len(disk'[final]) >= Len(disk[final])
      <4>1. f.off = recv[f.sid].expected
        BY <1>7, <2>5 DEF HandleData
      <4>2. UNCHANGED work
        BY DEF Next
      <4>3. PICK w \in Seq(Block) :
               /\ disk' = [disk EXCEPT ![recv[f.sid].file] = w]
               /\ Len(disk[recv[f.sid].file]) <= Len(w)
        BY <1>7, <3>1, <4>1, <4>2, DataPrefix
      <4>4. Len(disk[final]) \in Nat /\ Len(w) \in Nat
        BY <1>2, <3>1
      <4> QED BY <1>2, <2>3, <3>1, <4>3, <4>4
    <3>6. disk'[final] \in Seq(Block) /\ Content[src] \in Seq(Block)
      BY <1>2, <3>1, VersionFile
    <3>7. disk'[final] = Content[src]
      BY <3>2, <3>3, <3>4, <3>5, <3>6, WholePrefix
    <3> QED BY <2>1, <3>2, <3>3, <3>7
  <2>6. CASE final = None
    BY <2>1, <2>6
  <2> QED BY <2>2, <2>4, <2>5, <2>6
<1>8. ASSUME \/ AskPull(0) \/ (part # None /\ AskPull(Len(disk[part])))
             \/ (\E over \in BOOLEAN : AskOffer(over)) \/ (\E v \in Version : Rewrite(v))
             \/ (\E t \in Transfer : SendOpen(t) \/ SendChunk(t)) \/ RestartProvider
             \/ RestartConsumer \/ FinishVerify
             \/ CleanupDelete \/ CleanupExpiredParts
             \/ (\E ts \in SUBSET Open : CleanupClose(ts))
             \/ \E f \in net : HandlePullAsProvider(f) \/ HandleWriteRespLocal(f)
                               \/ HandleAck(f) \/ DropData(f) \/ Lose(f)
      PROVE  /\ UNCHANGED <<final, disk>>
             /\ announced' \in {announced, announced \cup {src}}
  BY <1>8 DEF AskPull, AskOffer, Rewrite, SendOpen, SendChunk, RestartProvider,
              RestartConsumer, FinishVerify,
              CleanupDelete, CleanupExpiredParts, CleanupClose,
              HandlePullAsProvider, HandleWriteRespLocal, HandleAck, DropData, Lose
<1> QED BY <1>3, <1>5, <1>6, <1>7, <1>8 DEF Next, Handle

(* A file that is renamed has been announced, whole: by its sum, or, while *)
(* the source stays as it is, by its size.                                 *)
LEMMA RenamedWhole ==
    ASSUME TypeInv, Sums, Named, Ready, Steady, FixedSource(work) \/ OffersInTurn(work),
           FinishRename, part # None
    PROVE  \E v \in announced : disk[part] = Content[v]
<1>1. finish # None /\ VerifyPart(part, finish.size, finish.sha)
  BY DEF FinishRename, Ready
<1>2. CASE finish.sha # None
  BY <1>1, <1>2 DEF VerifyPart, Named
<1>3. CASE finish.sha = None
  <2>1. Calm
    BY <1>1, <1>3 DEF Sums, OffersInTurn, Calm
  <2>2. /\ finish.size = Len(Content[src]) /\ announced = {src}
        /\ \A i \in Inode : Prefix(disk[i], Content[src])
    BY <1>1, <2>1 DEF Steady, Named
  <2>3. part \in Inode /\ disk[part] \in Seq(Block) /\ Content[src] \in Seq(Block)
    BY VersionFile DEF TypeInv, TypeOK
  <2>4. Len(disk[part]) = Len(Content[src]) /\ Len(disk[part]) \in Nat
    BY <1>1, <2>2, <2>3 DEF VerifyPart
  <2>5. disk[part] = Content[src]
    BY <2>2, <2>3, <2>4, WholePrefix
  <2> QED BY <2>2, <2>5
<1> QED BY <1>2, <1>3

(* Every step leaves a whole file, or none. *)
LEMMA StepWhole ==
    ASSUME FileInv, FixedSource(work) \/ OffersInTurn(work), TypeInv', Steady', [Next]_vars
    PROVE  Whole'
<1>1. CASE /\ final' = final /\ (final # None => disk'[final] = disk[final])
           /\ announced' \in {announced, announced \cup {src}}
  BY <1>1 DEF FileInv, Whole
<1>2. CASE FinishRemove
  BY <1>2 DEF FinishRemove, Whole
<1>3. CASE FinishRename
  <2>1. UNCHANGED <<disk, announced>> /\ (part # None => final' = part)
        /\ (part = None => final' = final)
    BY <1>3 DEF FinishRename
  <2>2. CASE part # None
    <3>1. PICK v \in announced : disk[part] = Content[v]
      BY <1>3, <2>2, RenamedWhole DEF FileInv
    <3> QED BY <2>1, <2>2, <3>1 DEF Whole
  <2>3. CASE part = None
    BY <2>1, <2>3 DEF FileInv, Whole
  <2> QED BY <2>2, <2>3
<1> QED BY <1>1, <1>2, <1>3, FinalStays DEF FileInv

-----------------------------------------------------------------------------
(* The theorems.                                                           *)

(* The initial state has the invariant. *)
LEMMA InitInv ==
    ASSUME Init
    PROVE  FileInv
<1>1. TypeInv
  BY InitTypes
<1>2. Open = {} /\ net = {} /\ finish = None /\ part = None /\ final = None /\ announced = {}
  BY DEF Init, Open
<1>3. \A i \in Inode : Prefix(disk[i], Content[src])
  <2>1. \A i \in Inode : disk[i] = <<>>
    BY DEF Init
  <2>2. Len(Content[src]) \in Nat
    BY <1>1, VersionFile DEF TypeInv, TypeOK
  <2> QED BY <2>1, <2>2 DEF Prefix
<1>4. Turns /\ Sums /\ Named /\ Apart /\ Ready /\ Whole
  BY <1>2 DEF Turns, Sums, Named, Apart, Ready, Whole
<1>5. Steady
  BY <1>2, <1>3 DEF Steady
<1> QED BY <1>1, <1>4, <1>5 DEF FileInv

(* Every step keeps the invariant. *)
LEMMA StepInv ==
    ASSUME Careful, FileInv, [Next]_vars
    PROVE  FileInv'
<1>1. TypeInv /\ Turns /\ Sums /\ Named /\ Apart /\ Ready /\ Steady
  BY DEF FileInv
<1>2. FixedSource(work) \/ OffersInTurn(work)
  BY <1>1 DEF Careful, TypeInv, TypeOK
<1>3. TypeInv'
  BY <1>1, StepTypes
<1>4. Turns' /\ Sums' /\ Named'
  BY <1>1, StepTurns, StepSums
<1>5. Apart' /\ Ready'
  BY <1>1, StepApart, StepReady
<1>6. Steady'
  BY <1>1, StepSteady
<1>7. Whole'
  BY <1>2, <1>3, <1>6, StepWhole
<1> QED BY <1>3, <1>4, <1>5, <1>6, <1>7 DEF FileInv

(* What a reader finds is a version that was announced, or nothing. *)
LEMMA StoredVersion ==
    ASSUME TypeInv, Whole
    PROVE  /\ final = None => Stored = None
           /\ final # None => Stored \in announced /\ disk[final] = Content[Stored]
<1>1. CASE final = None
  BY <1>1 DEF Stored
<1>2. CASE final # None
  <2>1. PICK v \in announced : disk[final] = Content[v]
    BY <1>2 DEF Whole
  <2>2. v \in Version
    BY DEF TypeInv, TypeOK
  <2>3. Stored = v
    BY <1>2, <2>1, <2>2, FileAssumption DEF Stored
  <2> QED BY <1>2, <2>1, <2>3
<1> QED BY <1>1, <1>2

(* Every step is one of FileCopy, or changes nothing there. *)
LEMMA StepCopy ==
    ASSUME FileInv, FileInv', FixedSource(work) \/ OffersInTurn(work), [Next]_vars
    PROVE  [Copy!Next]_(Copy!vars)
<1>1. TypeInv /\ Turns /\ Sums /\ Named /\ Apart /\ Ready /\ Steady /\ Whole
      /\ TypeInv' /\ Steady' /\ Whole'
  BY DEF FileInv
<1>2. src \in Version
  BY <1>1 DEF TypeInv, TypeOK
<1>3. CASE /\ final' = final /\ (final # None => disk'[final] = disk[final])
           /\ announced' \in {announced, announced \cup {src}}
  <2>1. Stored' = Stored
    BY <1>3 DEF Stored
  <2> QED BY <1>2, <1>3, <2>1 DEF Copy!Next, Copy!Announce, Copy!vars
<1>4. CASE FinishRemove
  <2>1. Stored' = None /\ announced' = announced /\ announced # {}
    BY <1>1, <1>4 DEF FinishRemove, Stored, Named
  <2> QED BY <2>1 DEF Copy!Next, Copy!Remove
<1>5. CASE FinishRename
  <2>1. announced' = announced
    BY <1>5 DEF FinishRename
  <2>2. CASE part = None
    <3>1. UNCHANGED <<final, disk>>
      BY <1>5, <2>2 DEF FinishRename
    <3>2. Stored' = Stored
      BY <3>1 DEF Stored
    <3> QED BY <2>1, <3>2 DEF Copy!vars
  <2>3. CASE part # None
    <3>1. final' # None
      BY <1>5, <2>3 DEF FinishRename
    <3>2. Stored' \in announced'
      <4>1. (TypeInv /\ Whole => (final # None => Stored \in announced))'
        BY StoredVersion, PTL
      <4> QED BY <1>1, <3>1, <4>1
    <3>3. Stored' \in Version
      BY <1>1, <3>2 DEF TypeInv, TypeOK
    <3> QED BY <2>1, <3>2, <3>3 DEF Copy!Next, Copy!Store
  <2> QED BY <2>2, <2>3
<1> QED BY <1>1, <1>3, <1>4, <1>5, FinalStays

-----------------------------------------------------------------------------
(* Undisturbed transfers.                                                  *)

(* A step that brings no request, no answer to an offer and no end of one. *)
LEMMA OnceGoesOn ==
    ASSUME Once, asked' = asked, \A f \in net' : f \in net \/ f.kind \notin Prompt,
           finish' # None /\ finish'.answer =>
              finish # None /\ finish.answer /\ finish'.sid = finish.sid
    PROVE  Once'
<1>1. \A f \in net' : f.kind \in Prompt => f \in net /\ f.sid <= asked'
  BY DEF Once
<1>2. \A f, g \in net' : f.kind \in Opening /\ f.sid = g.sid =>
          (g.kind \in Opening => f = g) /\ g.kind # "write_resp"
  BY <1>1 DEF Once, Prompt
<1>3. finish' # None /\ finish'.answer =>
          finish'.sid <= asked' /\ \A f \in net' : f.kind \in Opening => f.sid # finish'.sid
  BY <1>1 DEF Once, Prompt
<1> QED BY <1>1, <1>2, <1>3 DEF Once

(* A client's request is the first frame of its transfer. *)
LEMMA OnceAsked ==
    ASSUME TypeInv, Once, asked' = asked + 1, NEW g, net' = net \cup {g}, g.sid = asked + 1,
           finish' = finish, g.kind \in Opening
    PROVE  Once'
<1>1. asked \in Nat /\ \A h \in net : h.kind \in Prompt => h.sid <= asked
  BY DEF TypeInv, Counts, Once
<1>2. finish # None => finish.sid \in Nat
  <2>1. CASE finish = None
    BY <2>1
  <2>2. CASE finish \in Finish
    BY <2>2, FileAssumption DEF Finish, Transfer
  <2> QED BY <2>1, <2>2 DEF TypeInv, TypeOK
<1>3. \A h \in net : h.sid \in Nat
  <2>1. \A h \in net : h.sid \in Transfer
    BY FrameFields DEF TypeInv, TypeOK
  <2> QED BY <2>1, FileAssumption DEF Transfer
<1>4. \A h \in net' : h.kind \in Prompt => h.sid <= asked'
  BY <1>1, <1>3
<1>5. \A h \in net : h.kind \in Prompt => h.sid # g.sid
  BY <1>1, <1>3
<1>6. \A h, i \in net' : h.kind \in Opening /\ h.sid = i.sid =>
          (i.kind \in Opening => h = i) /\ i.kind # "write_resp"
  <2> SUFFICES ASSUME NEW h \in net', NEW i \in net', h.kind \in Opening, h.sid = i.sid
               PROVE  (i.kind \in Opening => h = i) /\ i.kind # "write_resp"
    OBVIOUS
  <2>1. CASE h \in net /\ i \in net
    BY <2>1 DEF Once
  <2>2. CASE h = g \/ i = g
    BY <1>5, <2>2 DEF Prompt, Opening
  <2> QED BY <2>1, <2>2
<1>7. finish' # None /\ finish'.answer =>
          finish'.sid <= asked' /\ \A h \in net' : h.kind \in Opening => h.sid # finish'.sid
  BY <1>1, <1>2 DEF Once
<1> QED BY <1>4, <1>6, <1>7 DEF Once

(* A frame is answered by one of the same transfer. *)
LEMMA OnceAnswered ==
    ASSUME Once, asked' = asked, NEW f \in net, f.kind \in Opening,
           NEW g, g.sid = f.sid, net' \subseteq (net \ {f}) \cup {g},
           finish' # None => finish' = finish \/ (finish'.sid = f.sid /\ net' \subseteq net \ {f})
    PROVE  Once'
<1>1. /\ \A h \in net : h.kind \in Prompt => h.sid <= asked
      /\ \A h, i \in net : h.kind \in Opening /\ h.sid = i.sid =>
            (i.kind \in Opening => h = i) /\ i.kind # "write_resp"
      /\ finish # None /\ finish.answer =>
            finish.sid <= asked /\ \A h \in net : h.kind \in Opening => h.sid # finish.sid
  BY DEF Once
<1>2. /\ f.sid <= asked
      /\ \A h \in net : h.kind \in Opening /\ h # f => h.sid # f.sid
  BY <1>1 DEF Prompt
<1>3. \A h, i \in net' : h.kind \in Opening /\ h.sid = i.sid =>
          (i.kind \in Opening => h = i) /\ i.kind # "write_resp"
  <2> SUFFICES ASSUME NEW h \in net', NEW i \in net', h.kind \in Opening, h.sid = i.sid
               PROVE  (i.kind \in Opening => h = i) /\ i.kind # "write_resp"
    OBVIOUS
  <2>1. CASE h \in net \ {f} /\ i \in net \ {f}
    BY <1>1, <2>1
  <2>2. CASE h = g /\ i = g
    BY <2>2 DEF Opening
  <2>3. CASE h = g /\ i \in net \ {f}
    BY <1>1, <1>2, <2>3
  <2>4. CASE h \in net \ {f} /\ i = g
    BY <1>2, <2>4
  <2> QED BY <2>1, <2>2, <2>3, <2>4
<1>4. finish' # None /\ finish'.answer =>
          finish'.sid <= asked' /\ \A h \in net' : h.kind \in Opening => h.sid # finish'.sid
  <2>1. CASE finish' = finish
    <3>1. finish # None /\ finish.answer => f.sid # finish.sid
      BY <1>1
    <3> QED BY <1>1, <2>1, <3>1
  <2>2. CASE finish'.sid = f.sid /\ net' \subseteq net \ {f}
    BY <1>2, <2>2
  <2> QED BY <2>1, <2>2
<1>5. \A h \in net' : h.kind \in Prompt => h.sid <= asked'
  BY <1>1, <1>2
<1> QED BY <1>3, <1>4, <1>5 DEF Once

(* No transfer is opened twice. *)
LEMMA StepOnce ==
    ASSUME TypeInv, Once, [Next]_vars
    PROVE  Once'
<1>1. CASE UNCHANGED vars
  BY <1>1 DEF vars, Once
<1> SUFFICES ASSUME Next PROVE Once'
  BY <1>1
<1>2. finish \in Finish \cup {None}
  BY DEF TypeInv, TypeOK
<1>3. ASSUME NEW from, AskPull(from) PROVE Once'
  <2>1. PICK g : g = [kind |-> "read", sid |-> asked + 1, from |-> from]
    OBVIOUS
  <2>2. net' = net \cup {g} /\ asked' = asked + 1 /\ finish' = finish
    BY <1>3, <2>1 DEF AskPull
  <2> QED BY <2>1, <2>2, OnceAsked DEF Opening
<1>4. ASSUME NEW over \in BOOLEAN, AskOffer(over) PROVE Once'
  <2>1. PICK g : g = [kind |-> "write", sid |-> asked + 1, over |-> over,
                      size |-> Len(Content[src]), sha |-> src]
    OBVIOUS
  <2>2. net' = net \cup {g} /\ asked' = asked + 1 /\ finish' = finish
    BY <1>4, <2>1 DEF AskOffer
  <2> QED BY <2>1, <2>2, OnceAsked DEF Opening
<1>5. ASSUME NEW f \in net, HandlePullAsProvider(f) PROVE Once'
  <2>1. PICK size, from : net' \subseteq (net \ {f}) \cup
           {[kind |-> "read_resp", sid |-> f.sid, size |-> size, from |-> from]}
    BY <1>5 DEF HandlePullAsProvider
  <2>2. PICK g : g = [kind |-> "read_resp", sid |-> f.sid, size |-> size, from |-> from]
    OBVIOUS
  <2>3. net' \subseteq (net \ {f}) \cup {g} /\ g.sid = f.sid
    BY <2>1, <2>2
  <2>4. asked' = asked /\ finish' = finish /\ f.kind \in Opening
    BY <1>5 DEF HandlePullAsProvider, Opening
  <2> QED BY <2>3, <2>4, OnceAnswered
<1>6. ASSUME NEW f \in net, HandleReadRespLocal(f) PROVE Once'
  <2>1. net' = net \ {f} /\ asked' = asked /\ f.kind \in Opening
    BY <1>6 DEF HandleReadRespLocal, Opening
  <2>2. finish' = finish \/ finish' = Promote(f.sid, f.size, None, TRUE, FALSE)
    BY <1>6 DEF HandleReadRespLocal
  <2>3. finish' = finish \/ finish'.sid = f.sid
    BY <2>2 DEF Promote
  <2>4. net' \subseteq (net \ {f}) \cup {f} /\ net' \subseteq net \ {f}
    BY <2>1
  <2> QED BY <2>1, <2>3, <2>4, OnceAnswered
<1>7. ASSUME NEW f \in net, HandleOfferAsConsumer(f) PROVE Once'
  <2>1. asked' = asked /\ f.kind \in Opening
    BY <1>7 DEF HandleOfferAsConsumer, Opening
  <2>2. PICK from : net' \subseteq (net \ {f}) \cup {WriteResp(f, from)}
    BY <1>7 DEF HandleOfferAsConsumer
  <2>3. PICK g : g = WriteResp(f, from)
    OBVIOUS
  <2>4. g.sid = f.sid /\ net' \subseteq (net \ {f}) \cup {g}
    BY <2>2, <2>3 DEF WriteResp
  <2>5. \/ finish' = finish
        \/ finish' = Promote(f.sid, f.size, f.sha, f.over, TRUE) /\ net' \subseteq net \ {f}
    BY <1>7 DEF HandleOfferAsConsumer
  <2>6. finish' = finish \/ (finish'.sid = f.sid /\ net' \subseteq net \ {f})
    BY <2>5 DEF Promote
  <2> QED BY <2>1, <2>4, <2>6, OnceAnswered
<1>8. ASSUME NEW f \in net, NEW again \in BOOLEAN, NEW ack \in BOOLEAN,
             HandleData(f, again, ack)
      PROVE  Once'
  <2>1. PICK off : net' \subseteq net \cup {[kind |-> "ack", sid |-> f.sid, off |-> off]}
    BY <1>8 DEF HandleData
  <2>2. \A g \in net' : g \in net \/ g.kind \notin Prompt
    BY <2>1 DEF Prompt, Opening
  <2>3. asked' = asked
    BY <1>8 DEF HandleData
  <2>4. finish' # None => ~finish'.answer
    BY <1>8 DEF HandleData
  <2> QED BY <2>2, <2>3, <2>4, OnceGoesOn
<1>9. ASSUME NEW t \in Transfer, SendChunk(t) PROVE Once'
  <2>1. \A g \in net' : g \in net \/ g.kind \notin Prompt
    BY <1>9 DEF SendChunk, Prompt, Opening
  <2>2. asked' = asked /\ finish' = finish
    BY <1>9 DEF SendChunk
  <2> QED BY <2>1, <2>2, OnceGoesOn
<1>10. CASE FinishVerify \/ FinishRemove
  <2>1. net' = net /\ asked' = asked
    BY <1>10 DEF FinishVerify, FinishRemove
  <2>2. finish' # None /\ finish'.answer =>
           finish # None /\ finish.answer /\ finish'.sid = finish.sid
    BY <1>2, <1>10 DEF FinishVerify, FinishRemove, Promote, Finish
  <2> QED BY <2>1, <2>2, OnceGoesOn
<1>11. CASE FinishRename
  <2>1. finish' = None /\ asked' = asked /\ finish # None
    BY <1>11 DEF FinishRename
  <2>2. PICK g : g = WriteResp(finish, finish.size)
    OBVIOUS
  <2>3. g.kind = "write_resp" /\ g.sid = finish.sid
    BY <2>2 DEF WriteResp
  <2>4. net' = net \/ (finish.answer /\ net' = net \cup {g})
    BY <1>11, <2>2 DEF FinishRename
  <2>5. CASE net' = net
    BY <2>1, <2>5 DEF Once
  <2>6. CASE finish.answer /\ net' = net \cup {g}
    BY <2>1, <2>3, <2>6 DEF Once, Prompt, Opening
  <2> QED BY <2>4, <2>5, <2>6
<1>12. CASE \/ \E v \in Version : Rewrite(v)
            \/ \E f \in net : HandleWriteRespLocal(f) \/ HandleAck(f) \/ DropData(f) \/ Lose(f)
            \/ \E t \in Transfer : SendOpen(t)
            \/ (\E ts \in SUBSET Open : CleanupClose(ts))
            \/ CleanupDelete \/ CleanupExpiredParts \/ RestartConsumer \/ RestartProvider
  <2>1. net' \subseteq net /\ asked' = asked /\ (finish' # None => finish' = finish)
    BY <1>12 DEF Rewrite, HandleWriteRespLocal, HandleAck, DropData, Lose, SendOpen,
                 CleanupClose, CleanupDelete, CleanupExpiredParts, RestartConsumer,
                 RestartProvider
  <2> QED BY <2>1, OnceGoesOn
<1> QED BY <1>3, <1>4, <1>5, <1>6, <1>7, <1>8, <1>9, <1>10, <1>11, <1>12 DEF Next, Handle

(* What happens while no transfer suffers. *)
LEMMA CalmStep ==
    ASSUME Next, ~hurt', expired = {}
    PROVE  \/ AskPull(0) \/ (part # None /\ AskPull(Len(disk[part])))
           \/ \E over \in BOOLEAN : AskOffer(over)
           \/ \E f \in net :
                 \/ HandlePullAsProvider(f) \/ HandleWriteRespLocal(f) \/ HandleAck(f)
                 \/ HandleReadRespLocal(f) \/ HandleOfferAsConsumer(f)
                 \/ \E ack \in BOOLEAN : HandleData(f, FALSE, ack)
           \/ \E t \in Transfer : SendOpen(t) \/ SendChunk(t)
           \/ FinishVerify \/ FinishRemove \/ FinishRename
<1>1. \A kind : ~Disturb(kind)
  BY DEF Disturb
<1>2. \A f \in net : ~Lose(f) /\ ~DropData(f)
  BY <1>1 DEF Lose, DropData
<1>3. /\ ~\E v \in Version : Rewrite(v)
      /\ ~RestartConsumer /\ ~RestartProvider /\ ~CleanupExpiredParts
      /\ ~\E ts \in SUBSET Open : CleanupClose(ts)
  BY <1>1 DEF Rewrite, RestartConsumer, RestartProvider, CleanupExpiredParts, CleanupClose,
              MaybeJanitor
<1>4. ~CleanupDelete
  BY DEF CleanupDelete
<1>5. \A f \in net, ack \in BOOLEAN : ~HandleData(f, TRUE, ack)
  BY <1>1 DEF HandleData
<1>6. \A f \in net : (\E again, ack \in BOOLEAN : HandleData(f, again, ack)) =>
                        \E ack \in BOOLEAN : HandleData(f, FALSE, ack)
  <2>1. ASSUME NEW f \in net, NEW again \in BOOLEAN, NEW ack \in BOOLEAN,
               HandleData(f, again, ack)
        PROVE  HandleData(f, FALSE, ack)
    <3>1. again = FALSE
      BY <1>5, <2>1
    <3> QED BY <2>1, <3>1
  <2> QED BY <2>1
<1> QED BY <1>2, <1>3, <1>4, <1>6 DEF Next, Handle

(* A new goroutine of the provider. *)
LEMMA Started ==
    ASSUME TypeInv, NEW t \in Transfer, NEW size \in Offset, NEW from \in Offset,
           StartSending(t, size, from)
    PROVE  /\ send'[t] # None /\ send'[t].size = size /\ send'[t].from = from
           /\ sending'[t] # None /\ sending'[t].at = "open"
           /\ \A u \in Transfer \ {t} : send'[u] = send[u] /\ sending'[u] = sending[u]
<1>1. 0 \in Offset
  BY FileAssumption DEF Offset
<1>2. PICK o \in Outgoing : o = [size |-> size, from |-> from, acked |-> 0]
  BY <1>1 DEF Outgoing
<1>3. PICK s \in Sender : s = [at |-> "open", off |-> 0]
  BY <1>1 DEF Sender
<1>4. o # None /\ s # None
  BY FileAssumption
<1>5. send' = [send EXCEPT ![t] = o] /\ sending' = [sending EXCEPT ![t] = s]
  BY <1>2, <1>3 DEF StartSending
<1>6. send'[t] = o /\ sending'[t] = s
  BY <1>5 DEF TypeInv, TypeOK
<1>7. \A u \in Transfer \ {t} : send'[u] = send[u] /\ sending'[u] = sending[u]
  BY <1>5 DEF TypeInv, TypeOK
<1> QED BY <1>2, <1>3, <1>4, <1>6, <1>7

(* A pull is answered, and what is missing is sent. *)
LEMMA PullSent ==
    ASSUME TypeInv, NEW f \in net, HandlePullAsProvider(f), ~hurt'
    PROVE  \E g \in Frame :
              /\ f.kind = "read" /\ f.sid \in Transfer
              /\ net' = (net \ {f}) \cup {g} /\ g.kind = "read_resp" /\ g.sid = f.sid
              /\ g.size = Len(Content[src]) /\ g.from <= g.size
              /\ \/ UNCHANGED <<send, sending>> /\ g.from = g.size
                 \/ StartSending(f.sid, g.size, g.from) /\ g.from < g.size
<1>1. f \in Frame /\ f.kind = "read" /\ f.sid \in Transfer /\ f.from \in Offset
  BY FrameFields DEF HandlePullAsProvider, TypeInv, TypeOK
<1>2. PICK size \in Offset : size = Len(Content[src]) /\ size \in Nat /\ 0 \in Offset /\ 1 <= size
  BY VersionFile DEF TypeInv, TypeOK
<1>3. PICK from \in Offset : from = (IF f.from > size THEN 0 ELSE f.from)
  BY <1>1, <1>2
<1>4. from \in Nat /\ f.from \in Nat
  BY <1>1, FileAssumption DEF Offset
<1>5. from <= size
  BY <1>2, <1>3, <1>4
<1>6. PICK g : g = [kind |-> "read_resp", sid |-> f.sid, size |-> size, from |-> from]
  OBVIOUS
<1>7. g \in Frame
  BY <1>1, <1>6 DEF Frame
<1>8. /\ net' = (net \ {f}) \cup {g}
      /\ IF from >= size THEN UNCHANGED <<send, sending>> ELSE StartSending(f.sid, size, from)
  BY <1>2, <1>3, <1>6 DEF HandlePullAsProvider
<1>9. g.kind = "read_resp" /\ g.sid = f.sid /\ g.size = size /\ g.from = from
  BY <1>6
<1>10. \/ UNCHANGED <<send, sending>> /\ from = size
       \/ StartSending(f.sid, size, from) /\ from < size
  BY <1>2, <1>4, <1>5, <1>8
<1> QED BY <1>1, <1>2, <1>5, <1>7, <1>8, <1>9, <1>10

(* The file is opened, and sent from where it was asked for. *)
LEMMA Begun ==
    ASSUME TypeInv, Senders, NEW t \in Transfer, SendOpen(t)
    PROVE  /\ sending[t] # None /\ sending[t].at = "open" /\ send[t] # None
           /\ sending'[t] # None /\ sending'[t].at = "read"
           /\ sending'[t].off \in Nat /\ sending'[t].off <= send[t].from
           /\ \A u \in Transfer \ {t} : sending'[u] = sending[u]
<1>1. sending[t] # None /\ sending[t].at = "open"
  BY DEF SendOpen
<1>2. send[t] # None /\ send[t].size = Len(Content[src])
  BY <1>1 DEF Senders
<1>3. send[t] \in Outgoing /\ sending \in [Transfer -> Sender \cup {None}]
  BY <1>2 DEF TypeInv, TypeOK
<1>4. PICK from \in Offset : from = send[t].from
  BY <1>3 DEF Outgoing
<1>5. 0 \in Offset /\ from \in Nat
  BY FileAssumption DEF Offset
<1>6. PICK off \in Offset : off = IF from > send[t].size THEN 0 ELSE from
  BY <1>5
<1>7. off \in Nat /\ off <= from
  BY <1>5, <1>6
<1>8. PICK s \in Sender : s = [at |-> "read", off |-> off]
  BY DEF Sender
<1>9. sending' = [sending EXCEPT ![t] = s]
  BY <1>2, <1>4, <1>6, <1>8 DEF SendOpen
<1>10. sending'[t] = s /\ s # None /\ s.at = "read" /\ s.off = off
  BY <1>3, <1>8, <1>9, FileAssumption
<1>11. \A u \in Transfer \ {t} : sending'[u] = sending[u]
  BY <1>3, <1>9
<1> QED BY <1>1, <1>2, <1>4, <1>7, <1>10, <1>11

(* A chunk is sent, and FIN with the last one; behind it nothing is left. *)
LEMMA ChunkSent ==
    ASSUME TypeInv, Senders, NEW t \in Transfer, SendChunk(t)
    PROVE  /\ sending[t] # None /\ sending[t].at = "read" /\ sending[t].off \in Nat
           /\ \A u \in Transfer \ {t} : send'[u] = send[u] /\ sending'[u] = sending[u]
           /\ \/ /\ net' = net /\ sending'[t] = None /\ send'[t] = None
                 /\ sending[t].off >= Len(Content[src])
              \/ \E g \in Frame :
                    /\ net' = net \cup {g}
                    /\ g.kind = "data" /\ g.sid = t /\ g.off = sending[t].off
                    /\ g.fin <=> g.off + 1 = Len(Content[src])
                    /\ \/ /\ sending'[t] = None /\ send'[t] = None
                          /\ sending[t].off + 1 = Len(Content[src])
                       \/ /\ sending'[t] # None /\ send' = send
                          /\ sending'[t].at = "read" /\ sending'[t].off = sending[t].off + 1
<1>1. sending[t] # None /\ sending[t].at = "read"
  BY DEF SendChunk
<1>2. /\ sending \in [Transfer -> Sender \cup {None}]
      /\ send \in [Transfer -> Outgoing \cup {None}] /\ src \in Version
  BY DEF TypeInv, TypeOK
<1>3. sending[t] \in Sender /\ send[t] # None /\ send[t].size = Len(Content[src])
  BY <1>1, <1>2 DEF Senders
<1>4. PICK off \in Offset : off = sending[t].off
  BY <1>3 DEF Sender
<1>5. PICK size \in Offset : size = Len(Content[src]) /\ size \in Nat /\ size <= MaxSize
  BY <1>2, VersionFile
<1>6. MaxSize \in Nat /\ off \in Nat
  BY FileAssumption DEF Offset
<1>7. PICK fin \in BOOLEAN : fin = (off + 1 = size)
  OBVIOUS
<1>8. PICK s : s = [sending[t] EXCEPT !.off = off + 1]
  OBVIOUS
<1>9. /\ sending' = [sending EXCEPT ![t] = IF off >= size \/ fin THEN None ELSE s]
      /\ send' = IF off >= size \/ fin THEN [send EXCEPT ![t] = None] ELSE send
      /\ net' = IF off >= size THEN net
                ELSE net \cup {[kind |-> "data", sid |-> t, off |-> off,
                                block |-> Content[src][off + 1], fin |-> fin]}
  BY <1>3, <1>4, <1>5, <1>7, <1>8 DEF SendChunk
<1>10. \A u \in Transfer \ {t} : send'[u] = send[u] /\ sending'[u] = sending[u]
  BY <1>2, <1>9
<1>11. CASE off >= size
  BY <1>1, <1>2, <1>4, <1>5, <1>6, <1>9, <1>10, <1>11
<1>12. CASE off < size
  <2>1. off + 1 \in 1..Len(Content[src]) /\ off \in Chunk /\ off + 1 \in Offset
    BY <1>5, <1>6, <1>12 DEF Chunk, Offset
  <2>2. PICK block \in Block : block = Content[src][off + 1]
    BY <1>2, <2>1, VersionFile
  <2>3. PICK g : g = [kind |-> "data", sid |-> t, off |-> off, block |-> block, fin |-> fin]
    OBVIOUS
  <2>4. g \in Frame
    BY <2>1, <2>3 DEF Frame
  <2>5. net' = net \cup {g}
    BY <1>5, <1>6, <1>9, <1>12, <2>2, <2>3
  <2>6. /\ g.kind = "data" /\ g.sid = t /\ g.off = sending[t].off
        /\ g.fin <=> g.off + 1 = Len(Content[src])
    BY <1>4, <1>5, <1>7, <2>3
  <2>7. CASE fin
    <3>1. sending'[t] = None /\ send'[t] = None
      BY <1>2, <1>9, <2>7
    <3>2. sending[t].off + 1 = Len(Content[src])
      BY <1>4, <1>5, <1>7, <2>7
    <3> QED BY <1>1, <1>4, <1>6, <1>10, <2>4, <2>5, <2>6, <3>1, <3>2
  <2>8. CASE ~fin
    <3>1. s \in Sender /\ s.at = "read" /\ s.off = off + 1 /\ s # None
      BY <1>1, <1>3, <1>8, <2>1, FileAssumption DEF Sender
    <3>2. sending'[t] = s /\ send' = send
      BY <1>2, <1>5, <1>6, <1>9, <1>12, <2>8
    <3> QED BY <1>1, <1>4, <1>6, <1>10, <2>4, <2>5, <2>6, <3>1, <3>2
  <2> QED BY <2>7, <2>8
<1> QED BY <1>5, <1>6, <1>11, <1>12

(* An acknowledgement changes nothing else. *)
LEMMA Acked ==
    ASSUME TypeInv, NEW f \in net, HandleAck(f)
    PROVE  \A t \in Transfer :
              /\ send'[t] # None <=> send[t] # None
              /\ send[t] # None => /\ send'[t].size = send[t].size
                                   /\ send'[t].from = send[t].from
<1>1. f.sid \in Transfer /\ f.kind = "ack" /\ f.off \in Offset
  BY FrameFields DEF HandleAck, TypeInv, TypeOK
<1>2. send \in [Transfer -> Outgoing \cup {None}]
  BY DEF TypeInv, TypeOK
<1>3. CASE send[f.sid] = None
  BY <1>3 DEF HandleAck
<1>4. CASE send[f.sid] # None
  <2>1. send[f.sid] \in Outgoing
    BY <1>1, <1>2, <1>4
  <2>2. Max({send[f.sid].acked, f.off}) \in Offset
    <3>1. PICK a \in Offset, b \in Offset : a = send[f.sid].acked /\ b = f.off
      BY <1>1, <2>1 DEF Outgoing
    <3>2. a \in Nat /\ b \in Nat
      BY FileAssumption DEF Offset
    <3> QED BY <3>1, <3>2, GreaterOfTwo
  <2>3. PICK acked \in Offset : send' = [send EXCEPT ![f.sid].acked = acked]
    BY <1>4, <2>2 DEF HandleAck
  <2>4. PICK o : o = [send[f.sid] EXCEPT !.acked = acked]
    OBVIOUS
  <2>5. o \in Outgoing /\ o.size = send[f.sid].size /\ o.from = send[f.sid].from
    BY <2>1, <2>4 DEF Outgoing
  <2>6. o # None
    BY <2>5, FileAssumption
  <2>7. send'[f.sid] = o /\ \A t \in Transfer \ {f.sid} : send'[t] = send[t]
    BY <1>1, <1>2, <2>3, <2>4
  <2> QED BY <1>4, <2>5, <2>6, <2>7
<1> QED BY <1>3, <1>4

(* The size a frame of an undisturbed transfer speaks of. *)
LEMMA CalmSizes ==
    ASSUME Steady, Calm
    PROVE  /\ \A f \in net : f.kind \in {"write", "read_resp"} => f.size = Len(Content[src])
           /\ \A t \in Open : recv[t].size = Len(Content[src])
           /\ finish # None => finish.size = Len(Content[src])
           /\ announced \subseteq {src}
  BY DEF Steady, SteadyFrame, SteadySession

(* While no transfer suffers, the provider sends the file as it is. *)
LEMMA StepSenders ==
    ASSUME TypeInv, Steady, Calm, Senders, expired = {}, ~hurt', Next
    PROVE  Senders'
<1>1. /\ \A t \in Transfer : /\ send[t] # None <=> sending[t] # None
                             /\ send[t] # None => send[t].size = Len(Content[src])
      /\ \A f \in net : /\ f.kind = "data" => (f.fin <=> f.off + 1 = Len(Content[src]))
                        /\ f.kind = "write_resp" => f.size = Len(Content[src])
  BY DEF Senders
<1>2. ASSUME src' = src, UNCHANGED <<send, sending>>,
             \A f \in net' : f \in net \/ f.kind \notin {"data", "write_resp"}
                             \/ (f.kind = "write_resp" /\ f.size = Len(Content[src]))
      PROVE  Senders'
  BY <1>1, <1>2 DEF Senders
<1>3. ASSUME NEW f \in net, NEW t \in Transfer, NEW size \in Offset, NEW from \in Offset,
             StartSending(t, size, from), size = Len(Content[src]), src' = src,
             \A g \in net' : g \in net \/ g.kind \notin {"data", "write_resp"}
      PROVE  Senders'
  <2>1. \A u \in Transfer : /\ send'[u] # None <=> sending'[u] # None
                            /\ send'[u] # None => send'[u].size = Len(Content[src])
    <3>1. /\ send'[t] # None /\ send'[t].size = size /\ sending'[t] # None
          /\ \A u \in Transfer \ {t} : send'[u] = send[u] /\ sending'[u] = sending[u]
      BY <1>3, Started
    <3> QED BY <1>1, <1>3, <3>1
  <2> QED BY <1>1, <1>3, <2>1 DEF Senders
<1>4. CASE \/ AskPull(0) \/ (part # None /\ AskPull(Len(disk[part])))
           \/ \E over \in BOOLEAN : AskOffer(over)
  <2>1. UNCHANGED <<src, send, sending>>
    BY <1>4 DEF AskPull, AskOffer
  <2>2. \A f \in net' : f \in net \/ f.kind \notin {"data", "write_resp"}
    BY <1>4 DEF AskPull, AskOffer
  <2> QED BY <1>2, <2>1, <2>2
<1>5. ASSUME NEW f \in net, HandlePullAsProvider(f) PROVE Senders'
  <2>1. PICK g \in Frame :
           /\ f.kind = "read" /\ f.sid \in Transfer
           /\ net' = (net \ {f}) \cup {g} /\ g.kind = "read_resp" /\ g.sid = f.sid
           /\ g.size = Len(Content[src]) /\ g.from <= g.size
           /\ \/ UNCHANGED <<send, sending>> /\ g.from = g.size
              \/ StartSending(f.sid, g.size, g.from) /\ g.from < g.size
    BY <1>5, PullSent
  <2>2. g.size \in Offset /\ g.from \in Offset /\ src' = src
    BY <1>5, <2>1, FrameFields DEF HandlePullAsProvider
  <2>3. \A h \in net' : h \in net \/ h.kind \notin {"data", "write_resp"}
    BY <2>1
  <2> QED BY <1>2, <1>3, <2>1, <2>2, <2>3
<1>6. ASSUME NEW f \in net, HandleWriteRespLocal(f) PROVE Senders'
  <2>1. /\ f.kind = "write_resp" /\ net' = net \ {f} /\ src' = src
        /\ StartSending(f.sid, f.size, f.from)
    BY <1>6 DEF HandleWriteRespLocal
  <2>2. f.sid \in Transfer /\ f.size \in Offset /\ f.from \in Offset
    BY <2>1, FrameFields DEF TypeInv, TypeOK
  <2>3. f.size = Len(Content[src])
    BY <1>1, <2>1
  <2> QED BY <1>3, <2>1, <2>2, <2>3
<1>7. ASSUME NEW f \in net, HandleAck(f) PROVE Senders'
  <2>1. UNCHANGED <<src, sending>> /\ net' = net \ {f}
    BY <1>7 DEF HandleAck
  <2>2. \A t \in Transfer :
              /\ send'[t] # None <=> send[t] # None
              /\ send[t] # None => send'[t].size = send[t].size
    BY <1>7, Acked
  <2> QED BY <1>1, <2>1, <2>2 DEF Senders
<1>8. ASSUME NEW f \in net, HandleReadRespLocal(f) PROVE Senders'
  BY <1>2, <1>8 DEF HandleReadRespLocal
<1>9. ASSUME NEW f \in net, HandleOfferAsConsumer(f) PROVE Senders'
  <2>1. f.kind = "write" /\ UNCHANGED <<src, send, sending>>
    BY <1>9 DEF HandleOfferAsConsumer
  <2>2. f.size = Len(Content[src])
    BY <2>1, CalmSizes
  <2>3. PICK from : net' \subseteq (net \ {f}) \cup {WriteResp(f, from)}
    BY <1>9 DEF HandleOfferAsConsumer
  <2>4. WriteResp(f, from).kind = "write_resp" /\ WriteResp(f, from).size = f.size
    BY DEF WriteResp
  <2> QED BY <1>2, <2>1, <2>2, <2>3, <2>4
<1>10. ASSUME NEW f \in net, NEW ack \in BOOLEAN, HandleData(f, FALSE, ack) PROVE Senders'
  <2>1. PICK off : net' \subseteq net \cup {[kind |-> "ack", sid |-> f.sid, off |-> off]}
    BY <1>10 DEF HandleData
  <2>2. UNCHANGED <<src, send, sending>>
    BY <1>10 DEF HandleData
  <2> QED BY <1>2, <2>1, <2>2
<1>11. ASSUME NEW t \in Transfer, SendOpen(t) PROVE Senders'
  <2>1. UNCHANGED <<src, send, net>>
    BY <1>11 DEF SendOpen
  <2>2. /\ sending[t] # None /\ sending'[t] # None
        /\ \A u \in Transfer \ {t} : sending'[u] = sending[u]
    BY <1>11, Begun
  <2> QED BY <1>1, <2>1, <2>2 DEF Senders
<1>12. ASSUME NEW t \in Transfer, SendChunk(t) PROVE Senders'
  <2>1. src' = src
    BY <1>12 DEF SendChunk
  <2>2. /\ \A u \in Transfer \ {t} : send'[u] = send[u] /\ sending'[u] = sending[u]
        /\ \/ sending'[t] = None /\ send'[t] = None
           \/ sending'[t] # None /\ send' = send
        /\ \/ net' = net
           \/ \E g \in Frame : /\ net' = net \cup {g} /\ g.kind = "data"
                               /\ g.fin <=> g.off + 1 = Len(Content[src])
    BY <1>12, ChunkSent
  <2>3. sending[t] # None
    BY <1>12 DEF SendChunk
  <2>4. \A u \in Transfer : /\ send'[u] # None <=> sending'[u] # None
                            /\ send'[u] # None => send'[u].size = Len(Content[src])
    BY <1>1, <2>2, <2>3
  <2>5. \A f \in net' : /\ f.kind = "data" => (f.fin <=> f.off + 1 = Len(Content[src]))
                        /\ f.kind = "write_resp" => f.size = Len(Content[src])
    BY <1>1, <2>2
  <2> QED BY <2>1, <2>4, <2>5 DEF Senders
<1>13. CASE FinishVerify \/ FinishRemove
  BY <1>2, <1>13 DEF FinishVerify, FinishRemove
<1>14. CASE FinishRename
  <2>1. UNCHANGED <<src, send, sending>> /\ finish # None
    BY <1>14 DEF FinishRename
  <2>2. net' \subseteq net \cup {WriteResp(finish, finish.size)}
    BY <1>14 DEF FinishRename
  <2>3. /\ WriteResp(finish, finish.size).kind = "write_resp"
        /\ WriteResp(finish, finish.size).size = Len(Content[src])
    BY <2>1, CalmSizes DEF WriteResp
  <2> QED BY <1>2, <2>1, <2>2, <2>3
<1> QED BY <1>4, <1>5, <1>6, <1>7, <1>8, <1>9, <1>10, <1>11, <1>12, <1>13, <1>14, CalmStep

(* What is on its way to a transfer, and will be sent to it, still is. *)
LEMMA DueGoesOn ==
    ASSUME NEW t, NEW off, Due(t, off), sending'[t] = sending[t],
           sending[t] # None => send'[t].from = send[t].from,
           \A f \in net : f.kind \in {"data", "write_resp"} /\ f.sid = t
                          /\ (f.kind = "data" => f.off = off) => f \in net'
    PROVE  Due(t, off)'
  BY DEF Due

(* What sessions lack is still to come where nothing is taken from them. *)
LEMMA ArrivingGoesOn ==
    ASSUME Arriving, Steady, Calm, Steady', Calm', src' = src,
           \A t \in Open' : recv'[t].file # None =>
              /\ t \in Open /\ recv'[t] = recv[t]
              /\ \A off \in Chunk : off >= recv[t].expected /\ off < Len(Content[src])
                                    /\ Due(t, off) => Due(t, off)'
              /\ \A f \in net' : f.kind = "write_resp" /\ f.sid = t => f \in net,
           \A f \in net' : f.kind = "read_resp" =>
              /\ f \in net
              /\ \A off \in Chunk : off >= f.from /\ off < Len(Content[src])
                                    /\ Due(f.sid, off) => Due(f.sid, off)'
    PROVE  Arriving'
<1>1. ASSUME NEW t \in Open', recv'[t].file # None PROVE Arrives(t)'
  <2>1. t \in Open /\ recv'[t] = recv[t] /\ recv[t].file # None
    BY <1>1
  <2>2. Arrives(t) /\ recv[t].size = Len(Content[src])
    BY <2>1, CalmSizes DEF Arriving
  <2> QED BY <1>1, <2>1, <2>2 DEF Arrives, Offsets
<1>2. ASSUME NEW f \in net', f.kind = "read_resp", f.from # f.size,
             NEW off \in Chunk, off >= f.from, off < f.size
      PROVE  Due(f.sid, off)'
  <2>1. f \in net /\ f.size = Len(Content[src])
    BY <1>2, CalmSizes
  <2>2. Due(f.sid, off)
    BY <1>2, <2>1 DEF Arriving
  <2> QED BY <1>2, <2>1, <2>2
<1> QED BY <1>1, <1>2 DEF Arriving

(* What applyRecvChunk keeps and has seen. *)
LEMMA KeptChunks ==
    ASSUME NEW s \in Session, NEW f \in Frame, f.kind = "data",
           NEW r, r = ApplyRecvChunk(s, f)
    PROVE  /\ r.fin = (s.fin \/ f.fin)
           /\ f.off = s.expected =>
                \A o : o \in Offsets(r) <=> o \in Offsets(s) /\ o > Reached(s, f.off)
           /\ f.off # s.expected =>
                \/ f.off > s.expected /\ \A o : o \in Offsets(r) <=> o \in Offsets(s) \/ o = f.off
                \/ Offsets(r) = Offsets(s)
<1>1. f.off \in Chunk /\ f.block \in Block /\ f.fin \in BOOLEAN
  BY FrameFields
<1>2. PICK end : end = Reached(s, f.off)
  OBVIOUS
<1>3. PICK flag \in BOOLEAN : flag = (s.fin \/ f.fin)
  OBVIOUS
<1>4. CASE f.off = s.expected
  <2>1. PICK rest : rest = {c \in s.pending : c[1] > end}
    OBVIOUS
  <2>2. r = [s EXCEPT !.fin = flag, !.expected = end, !.pending = rest]
    BY <1>2, <1>3, <1>4, <2>1 DEF ApplyRecvChunk, Session
  <2>3. r.fin = flag /\ r.pending = rest
    BY <2>2 DEF Session
  <2>4. \A o : o \in Offsets(r) <=> o \in Offsets(s) /\ o > end
    BY <2>1, <2>3 DEF Offsets
  <2> QED BY <1>2, <1>3, <1>4, <2>3, <2>4
<1>5. CASE f.off # s.expected /\ Keeps(s, f.off)
  <2>0. PICK chunk \in Chunk \X Block : chunk = <<f.off, f.block>> /\ chunk[1] = f.off
    <3>1. <<f.off, f.block>> \in Chunk \X Block /\ <<f.off, f.block>>[1] = f.off
      BY <1>1
    <3> QED BY <3>1
  <2>1. PICK more : more = s.pending \cup {chunk}
    OBVIOUS
  <2>2. r = [s EXCEPT !.fin = flag, !.pending = more]
    BY <1>3, <1>5, <2>0, <2>1 DEF ApplyRecvChunk, Session
  <2>3. r.fin = flag /\ r.pending = more
    BY <2>2 DEF Session
  <2>4. \A o : o \in Offsets(r) <=> o \in Offsets(s) \/ o = f.off
    BY <2>0, <2>1, <2>3 DEF Offsets
  <2> QED BY <1>3, <1>5, <2>3, <2>4 DEF Keeps
<1>6. CASE f.off # s.expected /\ ~Keeps(s, f.off)
  <2>1. r = [s EXCEPT !.fin = flag]
    BY <1>3, <1>6 DEF ApplyRecvChunk, Session
  <2>2. r.fin = flag /\ r.pending = s.pending
    BY <2>1 DEF Session
  <2> QED BY <1>3, <1>6, <2>2 DEF Offsets
<1> QED BY <1>4, <1>5, <1>6

(* handleData applies the chunk, and is done when the file is complete. *)
LEMMA DataApplied ==
    ASSUME TypeInv, NEW f \in net, NEW again \in BOOLEAN, NEW ack \in BOOLEAN,
           HandleData(f, again, ack)
    PROVE  \E r \in Session :
              /\ r = ApplyRecvChunk(recv[f.sid], f)
              /\ recv'[f.sid].expected = r.expected /\ recv'[f.sid].pending = r.pending
              /\ recv'[f.sid].fin = r.fin /\ recv'[f.sid].size = r.size
              /\ r.size = recv[f.sid].size
              /\ \/ /\ f.off = recv[f.sid].expected /\ r.fin /\ r.expected = r.size
                    /\ recv'[f.sid].file = None /\ finish' # None /\ finish'.sid = f.sid
                 \/ /\ ~(f.off = recv[f.sid].expected /\ r.fin /\ r.expected = r.size)
                    /\ recv'[f.sid].file = recv[f.sid].file /\ finish' = None
<1>1. /\ f \in Frame /\ f.kind = "data" /\ f.sid \in Transfer /\ recv[f.sid] \in Session
  BY DataSession
<1>2. PICK s \in Session : s = recv[f.sid]
  BY <1>1
<1>3. PICK r : r = ApplyRecvChunk(s, f)
  OBVIOUS
<1>4. r \in Session /\ r.size = s.size /\ r.sha = s.sha /\ r.over = s.over /\ r.file = s.file
  BY <1>1, <1>3, AppliedChunk
<1>5. PICK q : q = [r EXCEPT !.file = None]
  OBVIOUS
<1>6. /\ q.size = r.size /\ q.file = None /\ q.pending = r.pending
      /\ q.expected = r.expected /\ q.fin = r.fin
  BY <1>4, <1>5 DEF Session
<1>7. PICK done \in BOOLEAN : done = (f.off = s.expected /\ r.fin /\ r.expected = r.size)
  OBVIOUS
<1>8. PICK e \in Finish : e = [sid |-> f.sid, at |-> "verify", size |-> s.size, sha |-> s.sha,
                               over |-> s.over, answer |-> FALSE]
  BY <1>1 DEF Session, Finish
<1>9. e # None /\ e.sid = f.sid
  BY <1>8, FileAssumption
<1>10. /\ recv' = [recv EXCEPT ![f.sid] =
              IF f.off = recv[f.sid].expected /\ ApplyRecvChunk(recv[f.sid], f).fin
                 /\ ApplyRecvChunk(recv[f.sid], f).expected = ApplyRecvChunk(recv[f.sid], f).size
              THEN [ApplyRecvChunk(recv[f.sid], f) EXCEPT !.file = None]
              ELSE ApplyRecvChunk(recv[f.sid], f)]
       /\ finish' =
              IF f.off = recv[f.sid].expected /\ ApplyRecvChunk(recv[f.sid], f).fin
                 /\ ApplyRecvChunk(recv[f.sid], f).expected = ApplyRecvChunk(recv[f.sid], f).size
              THEN [sid |-> f.sid, at |-> "verify", size |-> recv[f.sid].size,
                    sha |-> recv[f.sid].sha, over |-> recv[f.sid].over, answer |-> FALSE]
              ELSE None
  BY DEF HandleData
<1>11. r = ApplyRecvChunk(recv[f.sid], f)
  BY <1>2, <1>3
<1>12. CASE done
  <2>1. f.off = recv[f.sid].expected /\ r.fin /\ r.expected = r.size
    BY <1>2, <1>7, <1>12
  <2>2. recv' = [recv EXCEPT ![f.sid] = q]
    BY <1>5, <1>10, <1>11, <2>1
  <2>3. finish' = e
    BY <1>2, <1>8, <1>10, <1>11, <2>1
  <2>4. recv'[f.sid] = q
    BY <1>1, <2>2 DEF TypeInv, TypeOK
  <2> QED BY <1>2, <1>4, <1>6, <1>9, <1>11, <2>1, <2>3, <2>4
<1>13. CASE ~done
  <2>1. ~(f.off = recv[f.sid].expected /\ r.fin /\ r.expected = r.size)
    BY <1>2, <1>7, <1>13
  <2>2. recv' = [recv EXCEPT ![f.sid] = r]
    BY <1>10, <1>11, <2>1
  <2>3. finish' = None
    BY <1>10, <1>11, <2>1
  <2>4. recv'[f.sid] = r
    BY <1>1, <2>2 DEF TypeInv, TypeOK
  <2> QED BY <1>2, <1>4, <1>11, <2>1, <2>3, <2>4
<1> QED BY <1>12, <1>13

(* A session whose chunk comes still gets what it lacks; with the last one *)
(* the file is complete.                                                   *)
LEMMA DataArrives ==
    ASSUME TypeInv, Steady, Calm, Senders, NEW f \in net, NEW ack \in BOOLEAN,
           HandleData(f, FALSE, ack), ~hurt', Arrives(f.sid)
    PROVE  recv'[f.sid].file # None => Arrives(f.sid)'
<1>1. /\ f \in Frame /\ f.kind = "data" /\ f.sid \in Transfer /\ recv[f.sid] \in Session
      /\ recv[f.sid].file \in Inode
  BY DataSession
<1>2. PICK t \in Transfer : t = f.sid
  BY <1>1
<1>3. PICK s \in Session : s = recv[t]
  BY <1>1, <1>2
<1>4. PICK size \in Nat : size = Len(Content[src]) /\ size <= MaxSize /\ MaxSize \in Nat
  BY VersionFile DEF TypeInv, TypeOK
<1>5. PICK e \in Nat : e = s.expected
  BY FileAssumption DEF Session, Offset
<1>6. PICK o \in Nat : o = f.off /\ o \in Chunk
  BY <1>1, FrameFields, FileAssumption DEF Chunk
<1>7. t \in Open
  BY <1>1, <1>2, FileAssumption DEF Open
<1>8. SteadySession(t) /\ s.size = size
  BY <1>3, <1>4, <1>7 DEF Steady, SteadySession
<1>9. /\ e < size
      /\ \A i \in Offsets(s) : i \in Nat /\ i > e /\ i < size
      /\ size - 1 \in Offsets(s) => s.fin
      /\ \A i \in Chunk : i >= e /\ i < size => i \in Offsets(s) \/ Due(t, i)
      /\ \A g \in net : g.kind = "write_resp" /\ g.sid = t => g.from <= e
  <2>1. \A i \in Offsets(s) : i < size
    BY <1>3, <1>4, <1>8 DEF SteadySession, Right, Offsets
  <2>2. \A i \in Offsets(s) : i \in Nat
    BY FileAssumption DEF Offsets, Session, Chunk
  <2> QED BY <1>2, <1>3, <1>5, <1>8, <2>1, <2>2 DEF Arrives
<1>10. f.fin <=> o + 1 = size
  BY <1>1, <1>4, <1>6 DEF Senders
<1>11. PICK r \in Session :
          /\ r = ApplyRecvChunk(recv[f.sid], f)
          /\ recv'[f.sid].expected = r.expected /\ recv'[f.sid].pending = r.pending
          /\ recv'[f.sid].fin = r.fin /\ recv'[f.sid].size = r.size
          /\ r.size = recv[f.sid].size
          /\ \/ /\ f.off = recv[f.sid].expected /\ r.fin /\ r.expected = r.size
                /\ recv'[f.sid].file = None /\ finish' # None /\ finish'.sid = f.sid
             \/ /\ ~(f.off = recv[f.sid].expected /\ r.fin /\ r.expected = r.size)
                /\ recv'[f.sid].file = recv[f.sid].file /\ finish' = None
  BY DataApplied
<1>12. /\ r = ApplyRecvChunk(s, f) /\ r.size = size
       /\ recv'[t].expected = r.expected /\ recv'[t].fin = r.fin /\ recv'[t].size = size
       /\ Offsets(recv'[t]) = Offsets(r)
  BY <1>2, <1>3, <1>8, <1>11 DEF Offsets
<1>13. /\ r.fin = (s.fin \/ f.fin)
       /\ o = e => \A i : i \in Offsets(r) <=> i \in Offsets(s) /\ i > Reached(s, f.off)
       /\ o # e => \/ o > e /\ \A i : i \in Offsets(r) <=> i \in Offsets(s) \/ i = o
                   \/ Offsets(r) = Offsets(s)
       /\ o = e => r.expected = Reached(s, f.off)
       /\ o # e => r.expected = e
  <2>1. /\ r.fin = (s.fin \/ f.fin)
        /\ f.off = s.expected =>
             \A i : i \in Offsets(r) <=> i \in Offsets(s) /\ i > Reached(s, f.off)
        /\ f.off # s.expected =>
             \/ f.off > s.expected /\ \A i : i \in Offsets(r) <=> i \in Offsets(s) \/ i = f.off
             \/ Offsets(r) = Offsets(s)
    BY <1>1, <1>12, KeptChunks
  <2>2. /\ f.off = s.expected => r.expected = Reached(s, f.off)
        /\ f.off # s.expected => r.expected = s.expected
    BY <1>1, <1>12, AppliedChunk
  <2> QED BY <1>5, <1>6, <2>1, <2>2
<1>14. \A i \in Nat : Due(t, i) /\ i # o => Due(t, i)'
  <2>1. UNCHANGED <<send, sending>> /\ \A g \in net : g # f => g \in net'
    BY DEF HandleData
  <2> SUFFICES ASSUME NEW i \in Nat, Due(t, i), i # o PROVE Due(t, i)'
    OBVIOUS
  <2>2. \A g \in net : g.kind \in {"data", "write_resp"} /\ g.sid = t
                       /\ (g.kind = "data" => g.off = i) => g \in net'
    BY <1>1, <1>6, <2>1
  <2> QED BY <2>1, <2>2, DueGoesOn
<1>15. \A g \in net' : g.kind = "write_resp" /\ g.sid = t => g.from <= e
  <2>1. PICK off : net' \subseteq net \cup {[kind |-> "ack", sid |-> f.sid, off |-> off]}
    BY DEF HandleData
  <2>2. \A g \in net' : g.kind = "write_resp" => g \in net
    BY <2>1
  <2> QED BY <1>9, <2>2
<1>16. CASE o = e
  <2>1. PICK end : end = Reached(s, f.off)
    OBVIOUS
  <2>2. /\ end \in o + 1..MaxSize /\ end \notin Offsets(s)
        /\ \A i \in o + 1..end - 1 : i \in Offsets(s)
    BY <1>6, <2>1, ReachedOffset
  <2>3. end \in Nat /\ e < end
    BY <1>4, <1>16, <2>2
  <2>4. /\ r.expected = end
        /\ \A i : i \in Offsets(r) <=> i \in Offsets(s) /\ i > end
    BY <1>13, <1>16, <2>1
  <2>5. end <= size
    <3> SUFFICES ASSUME end > size PROVE FALSE
      BY <1>4, <2>3
    <3>1. end - 1 \in o + 1..end - 1 /\ end - 1 >= size
      BY <1>4, <1>9, <1>16, <2>3
    <3>2. end - 1 \in Offsets(s)
      BY <2>2, <3>1
    <3>3. end - 1 < size
      BY <1>9, <3>2
    <3> QED BY <1>4, <2>3, <3>1, <3>3
  <2>6. CASE end = size
    <3>1. r.fin
      <4>1. CASE size = o + 1
        BY <1>10, <1>13, <4>1
      <4>2. CASE size # o + 1
        <5>1. size - 1 \in o + 1..end - 1
          BY <1>4, <1>16, <2>3, <2>6, <4>2
        <5>2. size - 1 \in Offsets(s)
          BY <2>2, <5>1
        <5> QED BY <1>9, <1>13, <5>2
      <4> QED BY <4>1, <4>2
    <3>2. recv'[f.sid].file = None
      BY <1>2, <1>3, <1>5, <1>6, <1>11, <1>12, <1>16, <2>4, <2>6, <3>1
    <3> QED BY <3>2
  <2>7. CASE end < size
    <3>1. \A i \in Offsets(r) : i > end
      BY <2>4
    <3>2. size - 1 \in Offsets(r) => r.fin
      BY <1>9, <1>13, <2>4
    <3>3. \A i \in Chunk : i >= end /\ i < size => i \in Offsets(r) \/ Due(t, i)'
      <4> SUFFICES ASSUME NEW i \in Chunk, i >= end, i < size, i \notin Offsets(r)
                   PROVE  Due(t, i)'
        OBVIOUS
      <4>1. i \in Nat
        BY FileAssumption DEF Chunk
      <4>2. i \notin Offsets(s)
        <5>1. CASE i = end
          BY <2>2, <5>1
        <5>2. CASE i > end
          BY <2>4, <5>2
        <5> QED BY <2>3, <4>1, <5>1, <5>2
      <4>3. Due(t, i) /\ i # o
        BY <1>9, <1>16, <2>3, <4>1, <4>2
      <4> QED BY <1>14, <4>1, <4>3
    <3>4. \A g \in net' : g.kind = "write_resp" /\ g.sid = t => g.from <= end
      <4> SUFFICES ASSUME NEW g \in net', g.kind = "write_resp", g.sid = t
                   PROVE  g.from <= end
        OBVIOUS
      <4>1. g.from <= e
        BY <1>15
      <4>2. g.from \in Nat
        <5>1. PICK off : net' \subseteq net \cup {[kind |-> "ack", sid |-> f.sid, off |-> off]}
          BY DEF HandleData
        <5>2. g \in Frame
          BY <5>1 DEF TypeInv, TypeOK
        <5>3. g.from \in Offset
          BY <5>2, FrameFields
        <5> QED BY <5>3, FileAssumption DEF Offset
      <4> QED BY <2>3, <4>1, <4>2
    <3> QED BY <1>2, <1>12, <2>4, <2>7, <3>1, <3>2, <3>3, <3>4 DEF Arrives
  <2> QED BY <1>4, <2>3, <2>5, <2>6, <2>7
<1>17. CASE o # e
  <2>1. r.expected = e
    BY <1>13, <1>17
  <2>2. o < e \/ o \in Offsets(r)
    <3>1. f.off <= s.expected \/ f.off \in Offsets(r)
      <4>1. hurt' = (hurt \/ (f.off > s.expected /\ f.off \notin Offsets(r)))
        BY <1>2, <1>3, <1>12 DEF HandleData
      <4>2. ~(o > e /\ o \notin Offsets(r))
        BY <1>5, <1>6, <4>1
      <4> QED BY <1>5, <1>6, <4>2
    <3> QED BY <1>5, <1>6, <1>17, <3>1
  <2>3. /\ \A i \in Offsets(s) : i \in Offsets(r)
        /\ \A i \in Offsets(r) : i \in Offsets(s) \/ (i = o /\ o > e)
    BY <1>13, <1>17
  <2>4. \A i \in Offsets(r) : i > e
    BY <1>9, <2>3
  <2>5. size - 1 \in Offsets(r) => r.fin
    <3>1. size - 1 = o => f.fin
      BY <1>4, <1>10
    <3> QED BY <1>9, <1>13, <2>3, <3>1
  <2>6. \A i \in Chunk : i >= e /\ i < size => i \in Offsets(r) \/ Due(t, i)'
    <3> SUFFICES ASSUME NEW i \in Chunk, i >= e, i < size, i \notin Offsets(r)
                 PROVE  Due(t, i)'
      OBVIOUS
    <3>1. i \in Nat
      BY FileAssumption DEF Chunk
    <3>2. Due(t, i)
      BY <1>9, <2>3
    <3>3. i # o
      BY <2>2, <3>1
    <3> QED BY <1>14, <3>1, <3>2, <3>3
  <2> QED BY <1>2, <1>9, <1>12, <1>15, <2>1, <2>4, <2>5, <2>6 DEF Arrives
<1> QED BY <1>16, <1>17

(* A new session. *)
LEMMA SessionOpened ==
    ASSUME TypeInv, NEW t \in Transfer, NEW p \in {part, None}, NEW size \in Offset,
           NEW sha \in Version \cup {None}, NEW over \in BOOLEAN, NEW from \in Offset,
           OpenSession(t, p, size, sha, over, from)
    PROVE  /\ recv'[t].size = size /\ recv'[t].expected = from
           /\ recv'[t].pending = {} /\ recv'[t].file = part' /\ recv'[t] # None
           /\ part' \in Inode /\ part' # None
           /\ \A u \in Transfer \ {t} : recv'[u] = recv[u]
<1>1. part' \in Inode
  BY OpenedFile
<1>2. PICK i \in Inode : i = part'
  BY <1>1
<1>3. PICK s : s = NewSession(size, sha, over, i, from)
  OBVIOUS
<1>4. recv' = [recv EXCEPT ![t] = s]
  BY <1>2, <1>3 DEF OpenSession
<1>5. recv'[t] = s /\ \A u \in Transfer \ {t} : recv'[u] = recv[u]
  BY <1>4 DEF TypeInv, TypeOK
<1>6. /\ s.size = size /\ s.expected = from /\ s.pending = {} /\ s.file = i
  BY <1>3 DEF NewSession
<1>7. s # None /\ i # None
  <2>1. s \in Session
    BY <1>3 DEF NewSession, Session
  <2> QED BY <2>1, FileAssumption DEF Inode
<1> QED BY <1>1, <1>2, <1>5, <1>6, <1>7

(* Where a file is continued. *)
LEMMA ResumeOffset ==
    ASSUME TypeInv, NEW p \in {part, None}
    PROVE  (IF p = None THEN 0 ELSE Len(disk[p])) \in Offset
<1>1. MaxSize \in Nat
  BY FileAssumption
<1>2. CASE p = None
  BY <1>1, <1>2 DEF Offset
<1>3. CASE p # None
  <2>1. p \in Inode
    BY <1>3 DEF TypeInv, TypeOK
  <2>2. Len(disk[p]) \in Nat /\ Len(disk[p]) <= MaxSize
    BY <2>1 DEF TypeInv, TypeOK
  <2> QED BY <1>1, <1>3, <2>2 DEF Offset
<1> QED BY <1>2, <1>3

(* Pulls take turns. *)
LEMMA PullsAlone ==
    ASSUME Turns, Sums, work.pulls = 0 \/ ~work.overlap,
           NEW f \in net, f.kind \in {"read", "read_resp"}
    PROVE  /\ Open = {} /\ finish = None
           /\ \A g \in net : g.kind \in Opening => g = f
<1>1. ~work.overlap /\ f.kind \in Opening
  BY DEF Sums, Opening
<1> QED BY <1>1 DEF Turns


(* While no transfer suffers, every session gets what it lacks. *)
LEMMA StepArriving ==
    ASSUME TypeInv, Turns, Sums, Steady, Calm, Steady', Calm', Once, Senders, Arriving,
           work.pulls = 0 \/ ~work.overlap, expired = {}, ~hurt', Next
    PROVE  Arriving'
<1>1. /\ net \subseteq Frame /\ recv \in [Transfer -> Session \cup {None}]
      /\ \A f \in net : f.sid \in Transfer
  BY FrameFields DEF TypeInv, TypeOK
<1>2. \A t \in Transfer : sending[t] # None => send[t] # None
  BY DEF Senders
<1>3. \A t \in Open : t \in Transfer /\ (recv[t].file # None => Arrives(t))
  BY DEF Open, Arriving
<1>4. ASSUME UNCHANGED <<src, recv>>,
             \A t \in Transfer, off \in Chunk : off < Len(Content[src]) /\ Due(t, off) => Due(t, off)',
             \A f \in net' : f.kind \in {"write_resp", "read_resp"} => f \in net
      PROVE  Arriving'
  <2>1. Open' = Open
    BY <1>4 DEF Open
  <2>2. \A f \in net' : f.kind = "read_resp" => f.sid \in Transfer
    BY <1>1, <1>4
  <2> QED BY <1>3, <1>4, <2>1, <2>2, ArrivingGoesOn
<1>5. ASSUME UNCHANGED <<send, sending>>, \A f \in net : f.kind \in {"data", "write_resp"} => f \in net'
      PROVE  \A t, off : Due(t, off) => Due(t, off)'
  BY <1>5, DueGoesOn
<1>6. CASE \/ AskPull(0) \/ (part # None /\ AskPull(Len(disk[part])))
           \/ \E over \in BOOLEAN : AskOffer(over)
  <2>1. UNCHANGED <<src, recv, send, sending>> /\ net \subseteq net'
    BY <1>6 DEF AskPull, AskOffer
  <2>2. \A f \in net' : f \in net \/ f.kind \notin {"read_resp", "write_resp"}
    BY <1>6 DEF AskPull, AskOffer
  <2> QED BY <1>4, <1>5, <2>1, <2>2
<1>7. ASSUME NEW f \in net, HandlePullAsProvider(f) PROVE Arriving'
  <2>1. PICK g \in Frame :
           /\ f.kind = "read" /\ f.sid \in Transfer
           /\ net' = (net \ {f}) \cup {g} /\ g.kind = "read_resp" /\ g.sid = f.sid
           /\ g.size = Len(Content[src]) /\ g.from <= g.size
           /\ \/ UNCHANGED <<send, sending>> /\ g.from = g.size
              \/ StartSending(f.sid, g.size, g.from) /\ g.from < g.size
    BY <1>7, PullSent
  <2>2. Open = {} /\ \A h \in net : h.kind = "read_resp" => h = f
    BY <2>1, PullsAlone DEF Opening
  <2>3. Open' = {}
    <3>1. recv' = recv
      BY <1>7 DEF HandlePullAsProvider
    <3> QED BY <2>2, <3>1 DEF Open
  <2>4. \A h \in net' : h.kind = "read_resp" => h = g
    BY <2>1, <2>2
  <2>5. ASSUME g.from # g.size, NEW off \in Chunk, off >= g.from PROVE Due(g.sid, off)'
    <3>1. g.size \in Offset /\ g.from \in Offset /\ g.sid \in Transfer
      BY <2>1, FrameFields
    <3>2. StartSending(g.sid, g.size, g.from)
      BY <2>1, <2>5
    <3>3. /\ sending'[g.sid] # None /\ sending'[g.sid].at = "open"
          /\ send'[g.sid].from = g.from
      BY <3>1, <3>2, Started
    <3>4. off \in Nat /\ g.from \in Nat
      BY <3>1, FileAssumption DEF Chunk, Offset
    <3>5. send'[g.sid].from <= off
      BY <2>5, <3>3, <3>4
    <3> QED BY <3>3, <3>5 DEF Due
  <2> QED BY <2>3, <2>4, <2>5 DEF Arriving
<1>8. ASSUME NEW f \in net, HandleWriteRespLocal(f) PROVE Arriving'
  <2>1. /\ f.kind = "write_resp" /\ net' = net \ {f} /\ UNCHANGED <<src, recv>>
        /\ StartSending(f.sid, f.size, f.from)
    BY <1>8 DEF HandleWriteRespLocal
  <2>2. f.sid \in Transfer /\ f.size \in Offset /\ f.from \in Offset
    BY <2>1, FrameFields DEF TypeInv, TypeOK
  <2>3. /\ send'[f.sid].from = f.from /\ sending'[f.sid] # None
        /\ sending'[f.sid].at = "open"
        /\ \A u \in Transfer \ {f.sid} : send'[u] = send[u] /\ sending'[u] = sending[u]
    BY <2>1, <2>2, Started
  <2>4. ASSUME NEW t \in Transfer \ {f.sid}, NEW off, Due(t, off) PROVE Due(t, off)'
    <3>1. \A h \in net : h.sid = t => h \in net'
      BY <2>1
    <3>2. sending'[t] = sending[t] /\ send'[t] = send[t]
      BY <2>3
    <3> QED BY <2>4, <3>1, <3>2, DueGoesOn
  <2>5. ASSUME NEW off, f.from <= off PROVE Due(f.sid, off)'
    BY <2>3, <2>5 DEF Due
  <2>6. ASSUME NEW t \in Open', recv'[t].file # None
        PROVE  /\ t \in Open /\ recv'[t] = recv[t]
               /\ \A off \in Chunk : off >= recv[t].expected /\ off < Len(Content[src])
                                     /\ Due(t, off) => Due(t, off)'
               /\ \A h \in net' : h.kind = "write_resp" /\ h.sid = t => h \in net
    <3>1. t \in Open /\ recv'[t] = recv[t] /\ t \in Transfer /\ Arrives(t)
      BY <1>3, <2>1, <2>6 DEF Open
    <3>2. ASSUME NEW off \in Chunk, off >= recv[t].expected, Due(t, off) PROVE Due(t, off)'
      <4>1. CASE t = f.sid
        <5>1. f.from <= recv[t].expected
          BY <2>1, <3>1, <4>1 DEF Arrives
        <5>2. recv[t] \in Session
          BY <1>1, <3>1 DEF Open
        <5>3. recv[t].expected \in Nat /\ f.from \in Nat /\ off \in Nat
          BY <2>2, <5>2, FileAssumption DEF Session, Offset, Chunk
        <5>4. f.from <= off
          BY <3>2, <5>1, <5>3
        <5> QED BY <2>5, <4>1, <5>4
      <4>2. CASE t # f.sid
        BY <2>4, <3>1, <3>2, <4>2
      <4> QED BY <4>1, <4>2
    <3> QED BY <2>1, <3>1, <3>2
  <2>7. ASSUME NEW h \in net', h.kind = "read_resp"
        PROVE  /\ h \in net
               /\ \A off \in Chunk : off >= h.from /\ off < Len(Content[src])
                                     /\ Due(h.sid, off) => Due(h.sid, off)'
    <3>1. h \in net /\ h.sid \in Transfer
      BY <1>1, <2>1
    <3>2. h.sid # f.sid
      BY <2>1, <2>7, <3>1 DEF Once, Opening
    <3> QED BY <2>4, <3>1, <3>2
  <2> QED BY <2>1, <2>6, <2>7, ArrivingGoesOn
<1>9. ASSUME NEW f \in net, HandleAck(f) PROVE Arriving'
  <2>1. UNCHANGED <<src, recv, sending>> /\ net' = net \ {f} /\ f.kind = "ack"
    BY <1>9 DEF HandleAck
  <2>2. \A t \in Transfer : send[t] # None => send'[t].from = send[t].from
    BY <1>9, Acked
  <2>3. ASSUME NEW t \in Transfer, NEW off, Due(t, off) PROVE Due(t, off)'
    <3>1. sending[t] # None => send'[t].from = send[t].from
      BY <1>2, <2>2
    <3>2. \A h \in net : h.kind \in {"data", "write_resp"} => h \in net'
      BY <2>1
    <3> QED BY <2>1, <2>3, <3>1, <3>2, DueGoesOn
  <2> QED BY <1>4, <2>1, <2>3
<1>10. ASSUME NEW f \in net, HandleReadRespLocal(f) PROVE Arriving'
  <2>1. /\ f.kind = "read_resp" /\ net' = net \ {f} /\ UNCHANGED <<src, send, sending>>
    BY <1>10 DEF HandleReadRespLocal
  <2>2. Open = {} /\ \A h \in net : h.kind = "read_resp" => h = f
    BY <2>1, PullsAlone DEF Opening
  <2>3. \A h \in net' : h.kind # "read_resp"
    BY <2>1, <2>2
  <2>4. CASE recv' = recv
    <3>1. Open' = {}
      BY <2>2, <2>4 DEF Open
    <3> QED BY <2>3, <3>1 DEF Arriving
  <2>5. CASE OpenSession(f.sid, part, f.size, None, TRUE, f.from) /\ f.from # f.size
    <3>1. PICK t \in Transfer, size \in Offset, from \in Offset :
             t = f.sid /\ size = f.size /\ from = f.from
      BY <2>1, FrameFields DEF TypeInv, TypeOK
    <3>2. PICK over \in BOOLEAN, p \in {part, None}, sha \in Version \cup {None} :
             OpenSession(t, p, size, sha, over, from)
      BY <2>5, <3>1
    <3>3. /\ recv'[t].size = size /\ recv'[t].expected = from
          /\ recv'[t].pending = {} /\ \A u \in Transfer \ {t} : recv'[u] = recv[u]
      BY <3>2, SessionOpened
    <3>4. Open' \subseteq {t}
      BY <2>2, <3>3 DEF Open
    <3>5. Offsets(recv'[t]) = {}
      BY <3>3 DEF Offsets
    <3>6. from < size
      <4>1. size = Len(Content[src]) /\ (from = 0 \/ (part # None /\ from <= Len(disk[part])))
        BY <2>1, <3>1 DEF Steady, SteadyFrame
      <4>2. from \in Nat /\ size \in Nat /\ 1 <= size
        BY <4>1, VersionFile, FileAssumption DEF Offset, TypeInv, TypeOK
      <4>3. part # None => Len(disk[part]) \in Nat /\ Len(disk[part]) <= size
        BY <4>1 DEF Steady, Prefix, TypeInv, TypeOK
      <4> QED BY <2>5, <3>1, <4>1, <4>2, <4>3
    <3>7. \A off \in Chunk : off >= from /\ off < size => Due(t, off)'
      <4> SUFFICES ASSUME NEW off \in Chunk, off >= from, off < size PROVE Due(t, off)'
        OBVIOUS
      <4>1. Due(t, off)
        BY <2>1, <2>5, <3>1 DEF Arriving
      <4> QED BY <1>5, <2>1, <4>1
    <3>8. \A g \in net' : ~(g.kind = "write_resp" /\ g.sid = t)
      BY <2>1, <3>1 DEF Once, Opening
    <3>9. Arrives(t)'
      BY <3>3, <3>5, <3>6, <3>7, <3>8 DEF Arrives
    <3> QED BY <2>3, <3>4, <3>9 DEF Arriving
  <2> QED BY <1>10, <2>4, <2>5 DEF HandleReadRespLocal
<1>11. ASSUME NEW f \in net, HandleOfferAsConsumer(f) PROVE Arriving'
  <2>1. f.kind = "write" /\ UNCHANGED <<src, send, sending>>
    BY <1>11 DEF HandleOfferAsConsumer
  <2>2. PICK p \in {part, None} : p = UsablePart(f)
    BY DEF UsablePart
  <2>3. PICK t \in Transfer, size \in Offset, sha \in Version, over \in BOOLEAN :
           t = f.sid /\ size = f.size /\ sha = f.sha /\ over = f.over
    BY <2>1, FrameFields DEF TypeInv, TypeOK
  <2>4. PICK from \in Offset : from = IF p = None THEN 0 ELSE Len(disk[p])
    BY <2>2, ResumeOffset
  <2>5. \/ net' = net \ {f} /\ recv' = recv
        \/ /\ from < size /\ OpenSession(t, p, size, sha, over, from)
           /\ net' = (net \ {f}) \cup {WriteResp(f, from)}
    BY <1>11, <2>2, <2>3, <2>4 DEF HandleOfferAsConsumer
  <2>6. \A h \in net : h.kind \in {"data", "write_resp"} => h \in net'
    BY <2>1, <2>5
  <2>7. CASE net' = net \ {f} /\ recv' = recv
    BY <1>4, <1>5, <2>1, <2>6, <2>7
  <2>8. CASE /\ from < size /\ OpenSession(t, p, size, sha, over, from)
             /\ net' = (net \ {f}) \cup {WriteResp(f, from)}
    <3>1. /\ recv'[t].size = size /\ recv'[t].expected = from
          /\ recv'[t].pending = {} /\ \A u \in Transfer \ {t} : recv'[u] = recv[u]
      BY <2>8, SessionOpened
    <3>2. PICK g : g = WriteResp(f, from)
      OBVIOUS
    <3>3. g.kind = "write_resp" /\ g.sid = t /\ g.from = from /\ net' = (net \ {f}) \cup {g}
      BY <2>3, <2>8, <3>2 DEF WriteResp
    <3>4. from \in Nat
      BY FileAssumption DEF Offset
    <3>5. Arrives(t)'
      <4>1. Offsets(recv'[t]) = {}
        BY <3>1 DEF Offsets
      <4>2. \A off \in Chunk : off >= from => Due(t, off)'
        <5> SUFFICES ASSUME NEW off \in Chunk, off >= from PROVE Due(t, off)'
          OBVIOUS
        <5>1. off \in Nat
          BY FileAssumption DEF Chunk
        <5>2. g \in net' /\ g.from <= off
          BY <3>3, <3>4, <5>1
        <5> QED BY <3>3, <5>2 DEF Due
      <4>3. \A h \in net' : h.kind = "write_resp" /\ h.sid = t => h = g
        BY <2>1, <2>3, <3>3 DEF Once, Opening
      <4>4. \A h \in net' : h.kind = "write_resp" /\ h.sid = t => h.from <= from
        BY <3>3, <3>4, <4>3
      <4> QED BY <2>8, <3>1, <4>1, <4>2, <4>4 DEF Arrives
    <3>6. ASSUME NEW u \in Open', u # t, recv'[u].file # None PROVE Arrives(u)'
      <4>1. u \in Open /\ recv'[u] = recv[u] /\ u \in Transfer /\ Arrives(u)
        BY <1>3, <3>1, <3>6 DEF Open
      <4>2. \A h \in net' : h.kind = "write_resp" /\ h.sid = u => h \in net
        BY <3>3, <3>6
      <4>3. \A off \in Chunk : Due(u, off) => Due(u, off)'
        BY <1>5, <2>1, <2>6
      <4> QED BY <4>1, <4>2, <4>3 DEF Arrives, Offsets
    <3>7. ASSUME NEW h \in net', h.kind = "read_resp", h.from # h.size,
                 NEW off \in Chunk, off >= h.from, off < h.size
          PROVE  Due(h.sid, off)'
      <4>1. h \in net
        BY <3>3, <3>7
      <4>2. Due(h.sid, off)
        BY <3>7, <4>1 DEF Arriving
      <4> QED BY <1>5, <2>1, <2>6, <4>2
    <3> QED BY <3>5, <3>6, <3>7 DEF Arriving
  <2> QED BY <2>5, <2>7, <2>8
<1>12. ASSUME NEW f \in net, NEW ack \in BOOLEAN, HandleData(f, FALSE, ack) PROVE Arriving'
  <2>1. /\ f.kind = "data" /\ f.sid \in Transfer /\ recv[f.sid] \in Session
        /\ recv[f.sid].file \in Inode
        /\ \A u \in Transfer \ {f.sid} : recv'[u] = recv[u]
    BY <1>12, DataSession
  <2>2. f.sid \in Open /\ recv[f.sid].file # None
    BY <2>1, FileAssumption DEF Open, Inode
  <2>3. UNCHANGED <<src, send, sending>> /\ \A h \in net : h # f => h \in net'
    BY <1>12 DEF HandleData
  <2>4. \A h \in net' : h \in net \/ h.kind = "ack"
    BY <1>12 DEF HandleData
  <2>5. \A h \in net' : h.kind # "read_resp"
    <3>1. \A h \in net : h.kind # "read_resp"
      BY <2>2, PullsAlone
    <3> QED BY <2>4, <3>1
  <2>6. recv'[f.sid].file # None => Arrives(f.sid)'
    BY <1>3, <1>12, <2>2, DataArrives
  <2>7. ASSUME NEW u \in Open', u # f.sid, recv'[u].file # None PROVE Arrives(u)'
    <3>1. u \in Open /\ recv'[u] = recv[u] /\ u \in Transfer /\ Arrives(u)
      BY <1>3, <2>1, <2>7 DEF Open
    <3>2. \A h \in net' : h.kind = "write_resp" => h \in net
      BY <2>4
    <3>3. ASSUME NEW off, Due(u, off) PROVE Due(u, off)'
      <4>1. \A h \in net : h.sid = u => h \in net'
        BY <2>3, <2>7
      <4> QED BY <2>3, <3>3, <4>1, DueGoesOn
    <3> QED BY <3>1, <3>2, <3>3 DEF Arrives, Offsets
  <2> QED BY <2>5, <2>6, <2>7 DEF Arriving
<1>13. ASSUME NEW t \in Transfer, SendOpen(t) PROVE Arriving'
  <2>1. UNCHANGED <<src, recv, send, net>>
    BY <1>13 DEF SendOpen
  <2>2. /\ sending[t] # None /\ sending[t].at = "open" /\ send[t] # None
        /\ sending'[t] # None /\ sending'[t].at = "read"
        /\ sending'[t].off \in Nat /\ sending'[t].off <= send[t].from
        /\ \A u \in Transfer \ {t} : sending'[u] = sending[u]
    BY <1>13, Begun
  <2>3. ASSUME NEW u \in Transfer, NEW off \in Chunk, Due(u, off) PROVE Due(u, off)'
    <3>1. CASE u # t
      BY <2>1, <2>2, <2>3, <3>1, DueGoesOn
    <3>2. CASE u = t /\ send[t].from <= off
      <4>1. send[t] \in Outgoing
        BY <2>2 DEF TypeInv, TypeOK
      <4>2. send[t].from \in Nat /\ off \in Nat
        BY <4>1, FileAssumption DEF Outgoing, Offset, Chunk
      <4>3. sending'[t].off <= off
        BY <2>2, <3>2, <4>2
      <4> QED BY <2>2, <3>2, <4>3 DEF Due
    <3>3. CASE u = t /\ ~(send[t].from <= off)
      BY <2>1, <2>2, <2>3, <3>3 DEF Due
    <3> QED BY <3>1, <3>2, <3>3
  <2> QED BY <1>4, <2>1, <2>3
<1>14. ASSUME NEW t \in Transfer, SendChunk(t) PROVE Arriving'
  <2>1. UNCHANGED <<src, recv>> /\ net \subseteq net'
    BY <1>14 DEF SendChunk
  <2>2. PICK o \in Nat : o = sending[t].off /\ sending[t].at = "read"
    BY <1>14, ChunkSent
  <2>3. PICK size \in Nat : size = Len(Content[src])
    BY VersionFile DEF TypeInv, TypeOK
  <2>4. /\ \A u \in Transfer \ {t} : send'[u] = send[u] /\ sending'[u] = sending[u]
        /\ \/ net' = net /\ o >= size
           \/ \E g \in Frame :
                 /\ net' = net \cup {g} /\ g.kind = "data" /\ g.sid = t /\ g.off = o
                 /\ \/ o + 1 = size
                    \/ /\ sending'[t] # None /\ sending'[t].at = "read"
                       /\ sending'[t].off = o + 1
    BY <1>14, <2>2, <2>3, ChunkSent
  <2>5. ASSUME NEW u \in Transfer, NEW off \in Chunk, off < size, Due(u, off)
        PROVE  Due(u, off)'
    <3>1. CASE u # t
      BY <2>1, <2>4, <2>5, <3>1, DueGoesOn
    <3>2. CASE u = t /\ o <= off
      <4>1. off \in Nat
        BY FileAssumption DEF Chunk
      <4>2. PICK g \in Frame :
                 /\ net' = net \cup {g} /\ g.kind = "data" /\ g.sid = t /\ g.off = o
                 /\ \/ o + 1 = size
                    \/ /\ sending'[t] # None /\ sending'[t].at = "read"
                       /\ sending'[t].off = o + 1
        BY <2>4, <2>5, <3>2, <4>1
      <4>3. CASE off = o
        BY <3>2, <4>2, <4>3 DEF Due
      <4>4. CASE off # o
        <5>1. sending'[t] # None /\ sending'[t].at = "read" /\ sending'[t].off <= off
          BY <2>5, <3>2, <4>1, <4>2, <4>4
        <5> QED BY <3>2, <5>1 DEF Due
      <4> QED BY <4>3, <4>4
    <3>3. CASE u = t /\ ~(o <= off)
      BY <2>1, <2>2, <2>5, <3>3 DEF Due
    <3> QED BY <3>1, <3>2, <3>3
  <2>6. \A h \in net' : h.kind \in {"write_resp", "read_resp"} => h \in net
    BY <2>4
  <2> QED BY <1>4, <2>1, <2>3, <2>5, <2>6
<1>15. CASE FinishVerify \/ FinishRemove \/ FinishRename
  <2>1. UNCHANGED <<src, send, sending>> /\ net \subseteq net'
    BY <1>15 DEF FinishVerify, FinishRemove, FinishRename
  <2>2. \A t, off : Due(t, off) => Due(t, off)'
    BY <1>5, <2>1
  <2>3. \A t \in Open' : t \in Open /\ recv'[t] = recv[t]
    BY <1>1, <1>15 DEF FinishVerify, FinishRemove, FinishRename, Open
  <2>4. CASE net' = net
    BY <2>1, <2>2, <2>3, <2>4, ArrivingGoesOn
  <2>5. CASE FinishRename
    <3>1. net' \subseteq net \cup {WriteResp(finish, finish.size)}
          /\ recv' = [recv EXCEPT ![finish.sid] = None]
      BY <2>5 DEF FinishRename
    <3>2. \A t \in Open' : t # finish.sid
      BY <1>1, <3>1 DEF Open
    <3>3. /\ WriteResp(finish, finish.size).kind = "write_resp"
          /\ WriteResp(finish, finish.size).sid = finish.sid
      BY DEF WriteResp
    <3>4. \A h \in net' : h \in net \/ (h.kind = "write_resp" /\ h.sid = finish.sid)
      BY <3>1, <3>3
    <3> QED BY <2>1, <2>2, <2>3, <3>2, <3>4, ArrivingGoesOn
  <2> QED BY <1>15, <2>4, <2>5 DEF FinishVerify, FinishRemove
<1> QED BY <1>6, <1>7, <1>8, <1>9, <1>10, <1>11, <1>12, <1>13, <1>14, <1>15, CalmStep

(* While no transfer suffers, a session without a file is being finished. *)
LEMMA StepClosing ==
    ASSUME TypeInv, Closing, ~hurt', Next
    PROVE  Closing'
<1>1. /\ recv \in [Transfer -> Session \cup {None}] /\ finish \in Finish \cup {None}
      /\ expired = {}
  BY DEF TypeInv, TypeOK, Closing
<1>2. /\ \A t \in Open : recv[t].file = None => finish # None /\ finish.sid = t
      /\ finish # None /\ finish.at \in {"remove", "rename"} => part # None
  BY DEF Closing
<1>3. finish = None => \A t \in Open : recv[t].file # None
  BY <1>2
<1>4. ASSUME UNCHANGED <<recv, finish, expired, part>> PROVE Closing'
  BY <1>1, <1>2, <1>4 DEF Closing, Open
<1>5. ASSUME finish = None, UNCHANGED <<recv, expired>>,
             finish' # None => part' # None
      PROVE  Closing'
  BY <1>1, <1>3, <1>5 DEF Closing, Open
<1>6. ASSUME finish = None, NEW t \in Transfer, NEW p \in {part, None}, NEW size \in Offset,
             NEW sha \in Version \cup {None}, NEW over \in BOOLEAN, NEW from \in Offset,
             OpenSession(t, p, size, sha, over, from), UNCHANGED <<finish, expired>>
      PROVE  Closing'
  <2>1. recv'[t].file # None /\ \A u \in Transfer \ {t} : recv'[u] = recv[u]
    BY <1>6, SessionOpened
  <2>2. \A u \in Open' : recv'[u].file # None
    BY <1>3, <1>6, <2>1 DEF Open
  <2> QED BY <1>1, <1>6, <2>2 DEF Closing
<1>7. CASE \/ AskPull(0) \/ (part # None /\ AskPull(Len(disk[part])))
           \/ (\E over \in BOOLEAN : AskOffer(over))
           \/ \E t \in Transfer : SendOpen(t) \/ SendChunk(t)
  BY <1>4, <1>7 DEF AskPull, AskOffer, SendOpen, SendChunk
<1>8. ASSUME NEW f \in net,
             HandlePullAsProvider(f) \/ HandleWriteRespLocal(f) \/ HandleAck(f)
      PROVE  Closing'
  BY <1>4, <1>8 DEF HandlePullAsProvider, HandleWriteRespLocal, HandleAck
<1>9. ASSUME NEW f \in net, HandleReadRespLocal(f) PROVE Closing'
  <2>1. f.kind = "read_resp" /\ finish = None /\ expired' = expired
    BY <1>9 DEF HandleReadRespLocal, Receiving
  <2>2. CASE VerifyPart(part, f.size, None) /\ UNCHANGED <<recv, part>>
    BY <1>5, <2>1, <2>2 DEF VerifyPart
  <2>3. CASE UNCHANGED <<recv, finish>>
    BY <1>5, <2>1, <2>3
  <2>4. CASE OpenSession(f.sid, part, f.size, None, TRUE, f.from) /\ UNCHANGED finish
    <3>1. PICK t \in Transfer, size \in Offset, from \in Offset :
             t = f.sid /\ size = f.size /\ from = f.from
      BY <2>1, FrameFields DEF TypeInv, TypeOK
    <3>2. PICK over \in BOOLEAN, p \in {part, None}, sha \in Version \cup {None} :
             OpenSession(t, p, size, sha, over, from)
      BY <2>4, <3>1
    <3> QED BY <1>6, <2>1, <2>4, <3>2
  <2> QED BY <1>9, <2>2, <2>3, <2>4 DEF HandleReadRespLocal
<1>10. ASSUME NEW f \in net, HandleOfferAsConsumer(f) PROVE Closing'
  <2>1. f.kind = "write" /\ finish = None /\ expired' = expired
    BY <1>10 DEF HandleOfferAsConsumer, Receiving
  <2>2. PICK p \in {part, None} : p = UsablePart(f)
    BY DEF UsablePart
  <2>3. PICK t \in Transfer, size \in Offset, sha \in Version, over \in BOOLEAN :
           t = f.sid /\ size = f.size /\ sha = f.sha /\ over = f.over
    BY <2>1, FrameFields DEF TypeInv, TypeOK
  <2>4. PICK from \in Offset : from = IF p = None THEN 0 ELSE Len(disk[p])
    BY <2>2, ResumeOffset
  <2>5. \/ VerifyPart(p, size, sha) /\ UNCHANGED <<recv, part>>
        \/ UNCHANGED <<recv, finish>>
        \/ OpenSession(t, p, size, sha, over, from) /\ UNCHANGED finish
    BY <1>10, <2>2, <2>3, <2>4 DEF HandleOfferAsConsumer
  <2>6. CASE VerifyPart(p, size, sha) /\ UNCHANGED <<recv, part>>
    BY <1>5, <2>1, <2>6 DEF VerifyPart
  <2>7. CASE UNCHANGED <<recv, finish>>
    BY <1>5, <2>1, <2>7
  <2>8. CASE OpenSession(t, p, size, sha, over, from) /\ UNCHANGED finish
    BY <1>6, <2>1, <2>8
  <2> QED BY <2>5, <2>6, <2>7, <2>8
<1>11. ASSUME NEW f \in net, NEW ack \in BOOLEAN, HandleData(f, FALSE, ack) PROVE Closing'
  <2>0. None \notin Inode
    BY FileAssumption DEF Inode
  <2>1. /\ f.sid \in Transfer /\ finish = None /\ recv[f.sid].file # None
        /\ \A u \in Transfer \ {f.sid} : recv'[u] = recv[u]
    BY <1>11, <2>0, DataSession
  <2>2. \/ finish' # None /\ finish'.sid = f.sid
        \/ recv'[f.sid].file = recv[f.sid].file
    BY <1>11, DataApplied
  <2>3. finish' # None => finish'.at = "verify"
    BY <1>11, DataSession
  <2>4. \A t \in Open' : recv'[t].file = None => t = f.sid
    BY <1>3, <2>1 DEF Open
  <2>5. expired' = {}
    BY <1>1, <1>11 DEF HandleData
  <2> QED BY <2>1, <2>2, <2>3, <2>4, <2>5 DEF Closing
<1>12. CASE FinishVerify
  <2>1. finish # None /\ UNCHANGED <<expired, part>>
    BY <1>12 DEF FinishVerify
  <2>2. CASE /\ VerifyPart(part, finish.size, finish.sha) /\ recv' = recv
             /\ finish' = Promote(finish.sid, finish.size, finish.sha, finish.over, FALSE)
    <3>1. finish'.sid = finish.sid /\ part' # None
      BY <2>1, <2>2 DEF Promote, VerifyPart
    <3>2. finish' # None
      <4>1. PICK g \in Finish : g = finish
        BY <1>1, <2>1
      <4>2. finish' \in Finish
        BY <2>2, <4>1 DEF Promote, Finish
      <4> QED BY <4>2, FileAssumption
    <3> QED BY <1>1, <1>2, <2>1, <2>2, <3>1, <3>2 DEF Closing, Open
  <2>3. CASE recv' = [recv EXCEPT ![finish.sid] = None] /\ finish' = None
    <3>1. \A t \in Open' : t \in Open /\ t # finish.sid /\ recv'[t] = recv[t]
      BY <1>1, <2>1, <2>3 DEF Open, Finish
    <3>2. \A t \in Open' : recv'[t].file # None
      BY <1>2, <3>1
    <3> QED BY <1>1, <2>1, <2>3, <3>2 DEF Closing
  <2> QED BY <1>12, <2>2, <2>3 DEF FinishVerify
<1>13. CASE FinishRemove
  <2>1. /\ finish # None /\ finish.at = "remove" /\ UNCHANGED <<recv, expired, part>>
        /\ finish' = [finish EXCEPT !.at = "rename"]
    BY <1>13 DEF FinishRemove
  <2>2. PICK g \in Finish : g = finish
    BY <1>1, <2>1
  <2>3. finish' \in Finish /\ finish'.sid = finish.sid
    BY <2>1, <2>2 DEF Finish
  <2>4. finish' # None
    BY <2>3, FileAssumption
  <2> QED BY <1>1, <1>2, <2>1, <2>3, <2>4 DEF Closing, Open
<1>14. CASE FinishRename
  <2>1. /\ finish # None /\ finish' = None /\ expired' = expired
        /\ recv' = [recv EXCEPT ![finish.sid] = None]
    BY <1>14 DEF FinishRename
  <2>2. \A t \in Open' : t \in Open /\ t # finish.sid /\ recv'[t] = recv[t]
    BY <1>1, <2>1 DEF Open, Finish
  <2>3. \A t \in Open' : recv'[t].file # None
    BY <1>2, <2>2
  <2> QED BY <1>1, <2>1, <2>3 DEF Closing
<1> QED BY <1>1, <1>7, <1>8, <1>9, <1>10, <1>11, <1>12, <1>13, <1>14, CalmStep

(* While no transfer suffers and none has ended, the .part file of every   *)
(* session is the one under that name, and a complete one is renamed.      *)
LEMMA EarlyData ==
    ASSUME TypeInv, Steady, Calm, Early, Closing, NEW f \in net, NEW ack \in BOOLEAN,
           HandleData(f, FALSE, ack), UNCHANGED work
    PROVE  Early'
<1>1. /\ f.sid \in Transfer /\ finish = None /\ recv[f.sid].file \in Inode
      /\ recv[f.sid] \in Session /\ recv'[f.sid] \in Session
      /\ recv'[f.sid].file \in {recv[f.sid].file, None}
      /\ \A u \in Transfer \ {f.sid} : recv'[u] = recv[u]
  BY DataSession
<1>2. None \notin Inode /\ None \notin Session
  BY FileAssumption DEF Inode
<1>3. f.sid \in Open /\ f.sid \in Open'
  BY <1>1, <1>2 DEF Open
<1>4. recv[f.sid].file = part /\ part # None
  BY <1>1, <1>2, <1>3 DEF Early
<1>5. UNCHANGED <<part, src, asked>>
  BY DEF HandleData
<1>6. \A t \in Open' : recv'[t].file \in {None, part'}
  <2>1. \A t \in Open' : t = f.sid \/ (t \in Open /\ recv'[t] = recv[t])
    BY <1>1 DEF Open
  <2> QED BY <1>1, <1>4, <1>5, <2>1 DEF Early
<1>7. ASSUME finish' # None PROVE Len(disk'[part]) = Len(Content[src])
  <2>1. PICK r \in Session :
          /\ r = ApplyRecvChunk(recv[f.sid], f)
          /\ recv'[f.sid].expected = r.expected /\ recv'[f.sid].pending = r.pending
          /\ recv'[f.sid].fin = r.fin /\ recv'[f.sid].size = r.size
          /\ r.size = recv[f.sid].size
          /\ \/ /\ f.off = recv[f.sid].expected /\ r.fin /\ r.expected = r.size
                /\ recv'[f.sid].file = None /\ finish' # None /\ finish'.sid = f.sid
             \/ /\ ~(f.off = recv[f.sid].expected /\ r.fin /\ r.expected = r.size)
                /\ recv'[f.sid].file = recv[f.sid].file /\ finish' = None
    BY DataApplied
  <2>2. PICK w \in Seq(Block) :
              /\ disk' = [disk EXCEPT ![recv[f.sid].file] = w]
              /\ Prefix(w, Content[src]) /\ recv'[f.sid].expected <= Len(w)
    <3>1. f.off = recv[f.sid].expected
      BY <1>7, <2>1
    <3> QED BY <3>1, DataPrefix
  <2>3. recv'[f.sid].expected = Len(Content[src])
    BY <1>3, <1>7, <2>1, CalmSizes
  <2>4. Len(w) \in Nat /\ Len(Content[src]) \in Nat
    BY VersionFile DEF TypeInv, TypeOK
  <2>5. Len(w) = Len(Content[src])
    BY <2>2, <2>3, <2>4 DEF Prefix
  <2>6. PICK i \in Inode : i = part
    BY <1>1, <1>4
  <2>7. disk'[i] = w
    BY <1>4, <2>2, <2>6 DEF TypeInv, TypeOK
  <2> QED BY <2>5, <2>6, <2>7
<1>8. Going'
  BY <1>3 DEF Going
<1> QED BY <1>4, <1>5, <1>6, <1>7, <1>8 DEF Early

(* A session opens the file under the .part name. *)
LEMMA EarlyOpened ==
    ASSUME TypeInv, Early, finish = None, UNCHANGED <<finish, src>>,
           NEW t \in Transfer, NEW p \in {part, None}, NEW size \in Offset,
           NEW sha \in Version \cup {None}, NEW over \in BOOLEAN, NEW from \in Offset,
           OpenSession(t, p, size, sha, over, from), p = part
    PROVE  Early'
<1>1. /\ recv'[t].file = part' /\ recv'[t] # None /\ part' # None
      /\ \A u \in Transfer \ {t} : recv'[u] = recv[u]
  BY SessionOpened
<1>2. part # None => part' = part
  BY OpenedFile
<1>3. \A u \in Open : recv[u].file \in {None, part}
  BY DEF Early
<1>4. \A u \in Open' : recv'[u].file \in {None, part'}
  <2>1. \A u \in Open' : u = t \/ (u \in Open /\ recv'[u] = recv[u])
    BY <1>1 DEF Open
  <2> QED BY <1>1, <1>2, <1>3, <2>1
<1>5. Going'
  BY <1>1 DEF Going, Open
<1> QED BY <1>4, <1>5 DEF Early

(* A .part file is verified. *)
LEMMA EarlyPromoted ==
    ASSUME Early, TypeInv, part # None, Len(disk[part]) = Len(Content[src]),
           UNCHANGED <<recv, part, disk, src>>, finish' # None
    PROVE  Early'
<1>1. Open' = Open
  BY DEF Open
<1>2. Going'
  BY DEF Going
<1> QED BY <1>1, <1>2 DEF Early

(* The record that promotes a file. *)
LEMMA Promoted ==
    ASSUME NEW t \in Transfer, NEW size \in Offset, NEW sha \in Version \cup {None},
           NEW over \in BOOLEAN, NEW answer \in BOOLEAN
    PROVE  Promote(t, size, sha, over, answer) # None
<1>1. Promote(t, size, sha, over, answer) \in Finish
  BY DEF Promote, Finish
<1> QED BY <1>1, FileAssumption

(* Frames that leave the consumer alone keep its only transfer going. *)
LEMMA EarlyGoesOn ==
    ASSUME Early, UNCHANGED <<recv, finish, part, disk, src>>,
           \/ asked' = asked /\ \A f \in net : f.kind \in Opening => f \in net'
           \/ \E f \in net' : f.kind \in Opening
    PROVE  Early'
<1>1. Open' = Open
  BY DEF Open
<1>2. CASE asked' = asked /\ \A f \in net : f.kind \in Opening => f \in net'
  <2>1. Going => Going'
    BY <1>1, <1>2 DEF Going
  <2> QED BY <1>1, <1>2, <2>1 DEF Early
<1>3. CASE \E f \in net' : f.kind \in Opening
  <2>1. Going'
    BY <1>3 DEF Going
  <2> QED BY <1>1, <2>1 DEF Early
<1> QED BY <1>2, <1>3

(* What is not the last answer of the provider leaves the consumer alone. *)
LEMMA EarlyProvider ==
    ASSUME TypeInv, Senders, Early, ~hurt', UNCHANGED work,
           \/ AskPull(0) \/ (part # None /\ AskPull(Len(disk[part])))
           \/ \E over \in BOOLEAN : AskOffer(over)
           \/ \E f \in net : \/ HandlePullAsProvider(f) \/ HandleWriteRespLocal(f)
                             \/ HandleAck(f)
           \/ \E t \in Transfer : SendOpen(t) \/ SendChunk(t)
    PROVE  Early'
<1>1. ASSUME NEW from, AskPull(from) PROVE Early'
  <2>1. \E g \in net' : g.kind = "read"
    <3>1. [kind |-> "read", sid |-> asked + 1, from |-> from] \in net'
      BY <1>1 DEF AskPull
    <3> QED BY <3>1
  <2> QED BY <1>1, <2>1, EarlyGoesOn DEF AskPull, consumer, provider, Opening
<1>2. ASSUME NEW over \in BOOLEAN, AskOffer(over) PROVE Early'
  <2>1. \E g \in net' : g.kind = "write"
    <3>1. [kind |-> "write", sid |-> asked + 1, over |-> over,
           size |-> Len(Content[src]), sha |-> src] \in net'
      BY <1>2 DEF AskOffer
    <3> QED BY <3>1
  <2> QED BY <1>2, <2>1, EarlyGoesOn DEF AskOffer, consumer, provider, Opening
<1>3. ASSUME NEW f \in net, HandlePullAsProvider(f) PROVE Early'
  <2>1. \E g \in net' : g.kind \in Opening
    BY <1>3, PullSent DEF Opening
  <2> QED BY <1>3, <2>1, EarlyGoesOn DEF HandlePullAsProvider, consumer
<1>4. ASSUME NEW f \in net, HandleWriteRespLocal(f) \/ HandleAck(f) PROVE Early'
  <2>1. /\ net' = net \ {f} /\ f.kind \in {"write_resp", "ack"}
        /\ UNCHANGED <<recv, finish, part, disk, src, asked>>
    BY <1>4 DEF HandleWriteRespLocal, HandleAck, consumer, history
  <2> QED BY <2>1, EarlyGoesOn DEF Opening
<1>5. ASSUME NEW t \in Transfer, SendOpen(t) PROVE Early'
  BY <1>5, EarlyGoesOn DEF SendOpen, consumer, history
<1>6. ASSUME NEW t \in Transfer, SendChunk(t) PROVE Early'
  <2>1. net \subseteq net'
    BY <1>6 DEF SendChunk
  <2> QED BY <1>6, <2>1, EarlyGoesOn DEF SendChunk, consumer, history
<1> QED BY <1>1, <1>2, <1>3, <1>4, <1>5, <1>6

(* A pull answered by the provider continues the .part file, or finds it   *)
(* complete.                                                               *)
LEMMA EarlyReadResp ==
    ASSUME TypeInv, Steady, Calm, Early, NEW f \in net, HandleReadRespLocal(f), ~hurt'
    PROVE  Early'
<1>1. /\ f.kind = "read_resp" /\ finish = None /\ UNCHANGED src
      /\ f.size = Len(Content[src])
  BY CalmSizes DEF HandleReadRespLocal, Receiving
<1>2. PICK t \in Transfer, size \in Offset, from \in Offset :
         t = f.sid /\ size = f.size /\ from = f.from
  BY <1>1, FrameFields DEF TypeInv, TypeOK
<1>3. CASE f.from = f.size
  <2>1. size >= 1 /\ size \in Nat
    BY <1>1, <1>2, VersionFile DEF TypeInv, TypeOK
  <2>2. f.from = 0 \/ (part # None /\ f.from <= Len(disk[part]))
    BY <1>1 DEF Steady, SteadyFrame
  <2>3. part # None /\ size <= Len(disk[part])
    BY <1>2, <1>3, <2>1, <2>2
  <2>4. PICK i \in Inode : i = part
    BY <2>3 DEF TypeInv, TypeOK
  <2>5. Len(disk[i]) \in Nat /\ Len(disk[i]) <= Len(Content[src])
    BY DEF Steady, Prefix, TypeInv, TypeOK
  <2>6. Len(disk[part]) = size
    BY <1>1, <1>2, <2>1, <2>3, <2>4, <2>5
  <2>7. VerifyPart(part, f.size, None)
    BY <1>2, <2>3, <2>6 DEF VerifyPart
  <2>8. /\ finish' = Promote(t, size, None, TRUE, FALSE)
        /\ UNCHANGED <<recv, part, disk>>
    BY <1>2, <1>3, <2>7 DEF HandleReadRespLocal
  <2>9. finish' # None
    BY <2>8, Promoted
  <2> QED BY <1>1, <1>2, <2>3, <2>6, <2>8, <2>9, EarlyPromoted
<1>4. CASE f.from # f.size
  <2>1. OpenSession(t, part, size, None, TRUE, from) /\ UNCHANGED finish
    BY <1>2, <1>4 DEF HandleReadRespLocal
  <2> QED BY <1>1, <2>1, EarlyOpened
<1> QED BY <1>3, <1>4

(* An offer continues the .part file, or finds it complete. *)
LEMMA EarlyOffer ==
    ASSUME TypeInv, Steady, Calm, Early, NEW f \in net, HandleOfferAsConsumer(f), ~hurt'
    PROVE  Early'
<1>1. /\ f.kind = "write" /\ finish = None /\ UNCHANGED src
      /\ f.size = Len(Content[src])
  BY CalmSizes DEF HandleOfferAsConsumer, Receiving
<1>2. PICK t \in Transfer, size \in Offset, sha \in Version, over \in BOOLEAN :
         t = f.sid /\ size = f.size /\ sha = f.sha /\ over = f.over
  BY <1>1, FrameFields DEF TypeInv, TypeOK
<1>3. UsablePart(f) = part
  <2>1. CASE part = None
    BY <2>1 DEF UsablePart
  <2>2. CASE part # None
    <3>1. PICK i \in Inode : i = part
      BY <2>2 DEF TypeInv, TypeOK
    <3>2. Len(disk[i]) <= Len(Content[src])
      BY DEF Steady, Prefix
    <3> QED BY <1>1, <3>1, <3>2 DEF UsablePart
  <2> QED BY <2>1, <2>2
<1>4. PICK from \in Offset : from = IF part = None THEN 0 ELSE Len(disk[part])
  BY ResumeOffset
<1>5. \/ /\ VerifyPart(part, size, sha) /\ UNCHANGED <<recv, part, disk>>
         /\ finish' = Promote(t, size, sha, over, TRUE)
      \/ OpenSession(t, part, size, sha, over, from) /\ UNCHANGED finish
  BY <1>2, <1>3, <1>4 DEF HandleOfferAsConsumer
<1>6. CASE /\ VerifyPart(part, size, sha) /\ UNCHANGED <<recv, part, disk>>
           /\ finish' = Promote(t, size, sha, over, TRUE)
  <2>1. part # None /\ Len(disk[part]) = Len(Content[src])
    BY <1>1, <1>2, <1>6 DEF VerifyPart
  <2>2. finish' # None
    BY <1>6, Promoted
  <2> QED BY <1>1, <1>6, <2>1, <2>2, EarlyPromoted
<1>7. CASE OpenSession(t, part, size, sha, over, from) /\ UNCHANGED finish
  BY <1>1, <1>7, EarlyOpened
<1> QED BY <1>5, <1>6, <1>7

(* A complete .part file is the source, and passes its verification. *)
LEMMA EarlyVerified ==
    ASSUME TypeInv, Named, Steady, Calm, Early, FinishVerify
    PROVE  Early'
<1>1. finish # None /\ part # None /\ Len(disk[part]) = Len(Content[src])
  BY DEF FinishVerify, Early
<1>2. PICK g \in Finish : g = finish
  BY <1>1 DEF TypeInv, TypeOK
<1>3. /\ g.sid \in Transfer /\ g.size \in Offset /\ g.sha \in Version \cup {None}
      /\ g.over \in BOOLEAN
  BY DEF Finish
<1>4. g.size = Len(Content[src])
  BY <1>1, <1>2, CalmSizes
<1>5. g.sha # None => disk[part] = Content[g.sha]
  <2>1. g.sha # None => g.sha = src
    BY <1>1, <1>2, CalmSizes DEF Named
  <2>2. PICK i \in Inode : i = part
    BY <1>1 DEF TypeInv, TypeOK
  <2>3. disk[i] \in Seq(Block) /\ Prefix(disk[i], Content[src])
    BY DEF TypeInv, TypeOK, Steady
  <2>4. Content[src] \in Seq(Block) /\ Len(Content[src]) \in Nat
    BY VersionFile DEF TypeInv, TypeOK
  <2>5. disk[i] = Content[src]
    BY <1>1, <2>2, <2>3, <2>4, WholePrefix
  <2> QED BY <2>1, <2>2, <2>5
<1>6. VerifyPart(part, finish.size, finish.sha)
  BY <1>1, <1>2, <1>4, <1>5 DEF VerifyPart
<1>7. /\ finish' = Promote(g.sid, g.size, g.sha, g.over, FALSE)
      /\ UNCHANGED <<recv, part, disk, src>>
  BY <1>2, <1>6 DEF FinishVerify, provider, files
<1>8. finish' # None
  BY <1>3, <1>7, Promoted
<1> QED BY <1>1, <1>7, <1>8, EarlyPromoted

(* While no transfer suffers, the first one to end leaves a file under the *)
(* final name, and the name is never free but between Remove and Rename.   *)
LEMMA StepHeading ==
    ASSUME TypeInv, Named, Steady, Calm, Senders, Closing, Heading, ~hurt', Next
    PROVE  Heading'
<1>1. finish \in Finish \cup {None} /\ expired = {}
  BY DEF TypeInv, TypeOK, Closing
<1>2. CASE FinishRemove
  <2>1. finish # None /\ finish' = [finish EXCEPT !.at = "rename"]
    BY <1>2 DEF FinishRemove
  <2>2. PICK g \in Finish : g = finish
    BY <1>1, <2>1
  <2>3. finish' \in Finish /\ finish'.at = "rename"
    BY <2>1, <2>2 DEF Finish
  <2>4. finish' # None
    BY <2>3, FileAssumption
  <2> QED BY <2>3, <2>4 DEF Heading
<1>3. CASE FinishRename
  <2>1. finish # None /\ finish.at = "rename" /\ final' = IF part = None THEN final ELSE part
    BY <1>3 DEF FinishRename
  <2>2. part # None
    BY <2>1 DEF Closing
  <2> QED BY <2>1, <2>2 DEF Heading
<1>4. CASE ~FinishRemove /\ ~FinishRename
  <2>1. \/ \/ AskPull(0) \/ (part # None /\ AskPull(Len(disk[part])))
           \/ \E over \in BOOLEAN : AskOffer(over)
           \/ \E f \in net : \/ HandlePullAsProvider(f) \/ HandleWriteRespLocal(f)
                             \/ HandleAck(f)
           \/ \E t \in Transfer : SendOpen(t) \/ SendChunk(t)
        \/ \E f \in net : \/ HandleReadRespLocal(f) \/ HandleOfferAsConsumer(f)
                          \/ \E ack \in BOOLEAN : HandleData(f, FALSE, ack)
        \/ FinishVerify
    BY <1>1, <1>4, CalmStep
  <2>2. UNCHANGED final
    <3>1. CASE \/ AskPull(0) \/ (part # None /\ AskPull(Len(disk[part])))
               \/ \E over \in BOOLEAN : AskOffer(over)
               \/ \E f \in net : \/ HandlePullAsProvider(f) \/ HandleWriteRespLocal(f)
                                 \/ HandleAck(f)
               \/ \E t \in Transfer : SendOpen(t) \/ SendChunk(t)
      BY <3>1 DEF AskPull, AskOffer, HandlePullAsProvider, HandleWriteRespLocal,
                  HandleAck, SendOpen, SendChunk, consumer
    <3>2. ASSUME NEW f \in net, HandleReadRespLocal(f) \/ HandleOfferAsConsumer(f)
                               \/ \E ack \in BOOLEAN : HandleData(f, FALSE, ack)
          PROVE  UNCHANGED final
      BY <3>2 DEF HandleReadRespLocal, HandleOfferAsConsumer, HandleData, files
    <3>3. CASE FinishVerify
      BY <3>3 DEF FinishVerify, files
    <3> QED BY <2>1, <3>1, <3>2, <3>3
  <2>3. CASE final # None
    BY <2>2, <2>3 DEF Heading
  <2>4. CASE finish # None /\ finish.at = "rename"
    <3>1. UNCHANGED finish
      <4>1. CASE \/ AskPull(0) \/ (part # None /\ AskPull(Len(disk[part])))
                 \/ \E over \in BOOLEAN : AskOffer(over)
                 \/ \E f \in net : \/ HandlePullAsProvider(f) \/ HandleWriteRespLocal(f)
                                   \/ HandleAck(f)
                 \/ \E t \in Transfer : SendOpen(t) \/ SendChunk(t)
        BY <4>1 DEF AskPull, AskOffer, HandlePullAsProvider, HandleWriteRespLocal,
                    HandleAck, SendOpen, SendChunk, consumer
      <4>2. ASSUME NEW f \in net, HandleReadRespLocal(f) \/ HandleOfferAsConsumer(f)
                                 \/ \E ack \in BOOLEAN : HandleData(f, FALSE, ack)
            PROVE  FALSE
        BY <2>4, <4>2 DEF HandleReadRespLocal, HandleOfferAsConsumer, HandleData, Receiving
      <4>3. CASE FinishVerify
        BY <2>4, <4>3 DEF FinishVerify
      <4> QED BY <2>1, <4>1, <4>2, <4>3
    <3> QED BY <2>4, <3>1 DEF Heading
  <2>5. CASE Early
    <3> SUFFICES Early'
      BY DEF Heading
    <3>1. ASSUME NEW f \in net, HandleReadRespLocal(f) PROVE Early'
      BY <2>5, <3>1, EarlyReadResp
    <3>2. ASSUME NEW f \in net, HandleOfferAsConsumer(f) PROVE Early'
      BY <2>5, <3>2, EarlyOffer
    <3>3. ASSUME NEW f \in net, NEW ack \in BOOLEAN, HandleData(f, FALSE, ack) PROVE Early'
      BY <2>5, <3>3, EarlyData DEF Next
    <3>4. CASE FinishVerify
      BY <2>5, <3>4, EarlyVerified
    <3>5. UNCHANGED work
      BY DEF Next
    <3>6. CASE \/ AskPull(0) \/ (part # None /\ AskPull(Len(disk[part])))
               \/ \E over \in BOOLEAN : AskOffer(over)
               \/ \E f \in net : \/ HandlePullAsProvider(f) \/ HandleWriteRespLocal(f)
                                 \/ HandleAck(f)
               \/ \E t \in Transfer : SendOpen(t) \/ SendChunk(t)
      BY <2>5, <3>5, <3>6, EarlyProvider
    <3> QED BY <2>1, <3>1, <3>2, <3>3, <3>4, <3>6
  <2> QED BY <2>3, <2>4, <2>5 DEF Heading
<1> QED BY <1>2, <1>3, <1>4

(* The initial state has no transfer. *)
LEMMA InitEnd ==
    ASSUME Init
    PROVE  Once /\ Undisturbed
<1>1. /\ Open = {} /\ net = {} /\ finish = None /\ expired = {} /\ asked = 0
      /\ \A t \in Transfer : send[t] = None /\ sending[t] = None
  BY DEF Init, Open
<1>2. Once
  BY <1>1 DEF Once
<1>3. Senders /\ Arriving /\ Closing
  BY <1>1 DEF Senders, Arriving, Closing
<1>4. Early
  BY <1>1 DEF Early
<1> QED BY <1>2, <1>3, <1>4 DEF Undisturbed, Heading

(* Every step keeps what is known of undisturbed transfers. *)
LEMMA StepEnd ==
    ASSUME Careful, FileInv, Once, Undisturbed, [Next]_vars
    PROVE  FileInv' /\ Once' /\ Undisturbed'
<1>1. FileInv' /\ Once'
  BY StepInv, StepOnce DEF FileInv
<1>2. CASE UNCHANGED vars
  BY <1>1, <1>2 DEF Undisturbed, Senders, Arriving, Arrives, Due, Offsets, Closing, Heading,
                    Early, Going, Open, vars
<1>3. CASE Next
  <2> SUFFICES ASSUME ~hurt' PROVE Senders' /\ Arriving' /\ Closing' /\ Heading'
    BY <1>1 DEF Undisturbed
  <2>1. ~hurt
    BY <1>3, HurtStays
  <2>2. Senders /\ Arriving /\ Closing /\ Heading
    BY <2>1 DEF Undisturbed
  <2>3. /\ TypeInv /\ Turns /\ Sums /\ Named /\ Steady /\ Steady'
        /\ expired = {}
    BY <1>1, <2>2 DEF FileInv, Closing
  <2>4. FixedSource(work) \/ OffersInTurn(work)
    BY <2>3 DEF Careful, TypeInv, TypeOK
  <2>5. Calm /\ Calm'
    <3>1. work' = work
      BY <1>3 DEF Next
    <3> QED BY <2>1, <2>4, <3>1 DEF Calm, FixedSource, OffersInTurn
  <2>6. work.pulls = 0 \/ ~work.overlap
    BY <2>4 DEF FixedSource, OffersInTurn
  <2>7. Senders'
    BY <1>3, <2>2, <2>3, <2>5, StepSenders
  <2>8. Arriving'
    BY <1>3, <2>2, <2>3, <2>5, <2>6, StepArriving
  <2>9. Closing'
    BY <1>3, <2>2, <2>3, StepClosing
  <2>10. Heading'
    BY <1>3, <2>2, <2>3, <2>5, StepHeading
  <2> QED BY <2>7, <2>8, <2>9, <2>10
<1> QED BY <1>2, <1>3

(* Once nothing is on its way, no session lacks anything: none is open, and *)
(* what is under the final name is the source.                             *)
LEMMA QuietEnd ==
    ASSUME Careful, FileInv, Undisturbed
    PROVE  UndisturbedTransfersEnd
<1> SUFFICES ASSUME ~hurt, asked > 0, net = {}, finish = None,
                    \A t \in Transfer : sending[t] = None
             PROVE  /\ Open = {} /\ \A t \in Transfer : send[t] = None
                    /\ Stored = src
  BY DEF UndisturbedTransfersEnd
<1>1. /\ TypeInv /\ Steady /\ Whole /\ Senders /\ Arriving /\ Closing /\ Heading
      /\ src \in Version /\ recv \in [Transfer -> Session \cup {None}]
  BY DEF FileInv, Undisturbed, TypeInv, TypeOK
<1>2. Calm
  BY <1>1 DEF Careful, Calm, TypeInv, TypeOK
<1>3. \A t \in Transfer : send[t] = None
  BY <1>1 DEF Senders
<1>4. Open = {}
  <2> SUFFICES ASSUME NEW t \in Open PROVE FALSE
    OBVIOUS
  <2>1. t \in Transfer /\ recv[t].file # None
    BY <1>1 DEF Closing, Open
  <2>2. Arrives(t) /\ recv[t].size = Len(Content[src])
    BY <1>1, <1>2, <2>1, CalmSizes DEF Arriving
  <2>3. PICK s \in Session : s = recv[t]
    BY <1>1, <2>1 DEF Open
  <2>4. PICK e \in Nat : e = s.expected
    BY FileAssumption DEF Session, Offset
  <2>5. e < Len(Content[src]) /\ e \in Chunk
    BY <1>1, <2>2, <2>3, <2>4, VersionFile DEF Arrives, Chunk
  <2>6. e \in Offsets(s) \/ Due(t, e)
    BY <2>2, <2>3, <2>4, <2>5 DEF Arrives
  <2>7. ~Due(t, e)
    BY <2>1 DEF Due
  <2>8. e \notin Offsets(s)
    BY <2>2, <2>3, <2>4 DEF Arrives
  <2> QED BY <2>6, <2>7, <2>8
<1>5. final # None
  BY <1>1, <1>4 DEF Heading, Early, Going
<1>6. Stored = src
  BY <1>1, <1>2, <1>5, StoredVersion, CalmSizes
<1> QED BY <1>3, <1>4, <1>6

(* Type correctness of every behaviour. *)
THEOREM FileTypes == Spec => []TypeOK
<1>1. Init => TypeInv
  BY InitTypes
<1>2. TypeInv /\ [Next]_vars => TypeInv'
  BY StepTypes
<1>3. TypeInv => TypeOK
  BY DEF TypeInv
<1> QED BY <1>1, <1>2, <1>3, PTL DEF Spec

(* Whatever is lost, repeated, reordered, expired, restarted or rewritten,  *)
(* with clients that take the care the code needs, a reader of the final    *)
(* name finds nothing or a whole version that was announced.                *)
THEOREM FileCopies ==
    ASSUME Careful
    PROVE  Spec => ImplementsFileCopy
<1>1. Init => FileInv
  BY InitInv
<1>2. FileInv /\ [Next]_vars => FileInv'
  BY StepInv
<1>3. Init => Copy!Init
  BY DEF Init, Stored, Copy!Init
<1>4. FileInv /\ FileInv' /\ [Next]_vars => [Copy!Next]_(Copy!vars)
  <2>1. FileInv => FixedSource(work) \/ OffersInTurn(work)
    BY DEF FileInv, TypeInv, TypeOK, Careful
  <2> QED BY <2>1, StepCopy
<1> QED BY <1>1, <1>2, <1>3, <1>4, PTL DEF Spec, ImplementsFileCopy, Copy!Spec

(* With such clients, transfers in which nothing was lost, refused,        *)
(* rewritten, expired or repeated, and no chunk came too early, succeed:   *)
(* once every frame has been handled and every goroutine has ended, no     *)
(* session is left on either side and the final name holds the source.     *)
THEOREM TransfersEnd ==
    ASSUME Careful
    PROVE  Spec => []UndisturbedTransfersEnd
<1>1. Init => FileInv /\ Once /\ Undisturbed
  BY InitInv, InitEnd
<1>2. FileInv /\ Once /\ Undisturbed /\ [Next]_vars => FileInv' /\ Once' /\ Undisturbed'
  BY StepEnd
<1>3. FileInv /\ Undisturbed => UndisturbedTransfersEnd
  BY QuietEnd
<1> QED BY <1>1, <1>2, <1>3, PTL DEF Spec

=============================================================================
