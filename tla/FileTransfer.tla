---------------------------- MODULE FileTransfer ----------------------------
(***************************************************************************)
(* The file sub-protocol (file/handler.go, file/sessions.go): transfers of *)
(* ONE file name from a provider to a consumer, by pull (the consumer's    *)
(* client asks) and by offer (the provider's client asks).                 *)
(*                                                                         *)
(* A file is a sequence of blocks and a chunk is one block; offsets count  *)
(* blocks.  Directory entries and open files are told apart, as the        *)
(* operating system does: part and final name an inode or nothing, and a   *)
(* session keeps the inode it has opened, wherever its name has gone.      *)
(*                                                                         *)
(* Each node handles one frame at a time; sendFileData and the janitor are *)
(* goroutines beside it.  Frames may overtake each other, get lost, and a  *)
(* data frame may come twice.  How control frames find their way through   *)
(* the tree of hubs is the subject of module Requests.  Not modelled: I/O  *)
(* errors, file.max_size_bytes (off by default), invalid paths.            *)
(***************************************************************************)
EXTENDS Naturals, Sequences, FiniteSets, FiniteSetsExt

CONSTANTS
    Version,      \* what the source file may hold
    Block,        \* what a block of a file may hold
    Content,      \* Content[v]: the blocks of version v
    Zero,         \* the block a file is extended with
    None,
    Workload,     \* what clients do: records
                  \*  pulls, offers: bounds on requests of each kind
                  \*  overlap:  requests may be made while a transfer is open
                  \*  kinds:    the disturbances that may happen, once each, of
                  \*            "rewrite", "lose", "repeat", "expire", "restart"
                  \*  most:     bound on disturbances
    MaxTransfers, \* bound on requests
    MaxSize,      \* bound on the size of a version
    MaxConcurrent,\* file.max_concurrent
    MaxPending    \* maxPendingBytes in chunks: 8 in the code

Transfer == 1..MaxTransfers
Offset == 0..MaxSize
Chunk == 0..MaxSize - 1            \* where a chunk may be
Inode == 1..MaxTransfers + 3       \* more than there are names and sessions

Session == [size : Offset, sha : Version \cup {None}, over : BOOLEAN,
            file : Inode \cup {None}, expected : Offset, pending : SUBSET (Chunk \X Block),
            fin : BOOLEAN]
Outgoing == [size : Offset, from : Offset, acked : Offset]
Sender == [at : {"open", "read"}, off : Offset]
Finish == [sid : Transfer, at : {"verify", "remove", "rename"}, size : Offset,
           sha : Version \cup {None}, over : BOOLEAN, answer : BOOLEAN]

ASSUME FileAssumption ==
    /\ Version # {} /\ None \notin Version /\ Workload # {}
    /\ Zero \in Block /\ Content \in [Version -> Seq(Block)]
    /\ \A v \in Version : Len(Content[v]) \in 1..MaxSize
    /\ \A v, w \in Version : Content[v] = Content[w] => v = w
    /\ MaxTransfers \in Nat /\ MaxSize \in Nat
    /\ MaxConcurrent \in Nat \ {0} /\ MaxPending \in Nat
    /\ None \notin Nat \cup Session \cup Outgoing \cup Sender \cup Finish
    /\ \A w \in Workload : /\ w.pulls \in Nat /\ w.offers \in Nat
                          /\ w.pulls + w.offers <= MaxTransfers

VARIABLES
    work,     \* what this behaviour does, of Workload
    src,      \* the provider's file
    send,     \* Handler.send of the provider
    sending,  \* the goroutine in sendFileData: [at, off], or None
    recv,     \* Handler.recv of the consumer: a session, or None
    finish,   \* a complete .part file on its way to the final name: the
              \* locals of finishRecvSession, or None
    expired,  \* sessions the janitor has closed and not yet deleted
    part,     \* the inode of the .part file, or None
    final,    \* the inode under the final name, or None
    disk,     \* the blocks of every inode
    net,      \* frames under way
    asked,    \* transfers asked for
    pulls,    \* those that are pulls
    announced,\* history: versions that were offered or answered to a pull
    faults,   \* the disturbances that have happened
    hurt      \* history: a transfer may have suffered: something was lost,
              \* refused, rewritten, expired, restarted or came too early

provider == <<src, send, sending>>
files == <<part, final, disk>>
consumer == <<recv, finish, expired, part, final, disk>>
history == <<asked, pulls, announced, faults>>
vars == <<work, src, send, sending, recv, finish, expired, part, final, disk,
          net, asked, pulls, announced, faults, hurt>>

Frame ==
    [kind : {"read"}, sid : Transfer, from : Offset]
    \cup [kind : {"write"}, sid : Transfer, size : Offset, sha : Version, over : BOOLEAN]
    \cup [kind : {"read_resp", "write_resp"}, sid : Transfer, size : Offset, from : Offset]
    \cup [kind : {"data"}, sid : Transfer, off : Chunk, block : Block, fin : BOOLEAN]
    \cup [kind : {"ack"}, sid : Transfer, off : Offset]

TypeOK ==
    /\ work \in Workload
    /\ src \in Version
    /\ send \in [Transfer -> Outgoing \cup {None}]
    /\ sending \in [Transfer -> Sender \cup {None}]
    /\ recv \in [Transfer -> Session \cup {None}]
    /\ finish \in Finish \cup {None}
    /\ expired \subseteq Transfer
    /\ part \in Inode \cup {None} /\ final \in Inode \cup {None}
    /\ disk \in [Inode -> Seq(Block)] /\ \A i \in Inode : Len(disk[i]) <= MaxSize
    /\ net \subseteq Frame
    /\ asked \in Transfer \cup {0} /\ pulls \in Nat
    /\ announced \subseteq Version
    /\ faults \subseteq work.kinds
    /\ hurt \in BOOLEAN

Init ==
    /\ work \in Workload
    /\ src \in Version
    /\ send = [t \in Transfer |-> None] /\ sending = [t \in Transfer |-> None]
    /\ recv = [t \in Transfer |-> None] /\ finish = None /\ expired = {}
    /\ part = None /\ final = None /\ disk = [i \in Inode |-> <<>>]
    /\ net = {} /\ asked = 0 /\ pulls = 0 /\ announced = {}
    /\ faults = {} /\ hurt = FALSE

Disturb(kind) ==
    /\ kind \in work.kinds \ faults /\ Cardinality(faults) < work.most
    /\ faults' = faults \cup {kind}
    /\ hurt' = TRUE

Open == {t \in Transfer : recv[t] # None}
TotalSessions(table) == Cardinality({t \in Transfer : table[t] # None})

-----------------------------------------------------------------------------
(* Files.                                                                   *)

(* Truncate: longer files lose their end, shorter ones grow by zeros.       *)
Truncated(c, n) == [i \in 1..n |-> IF i <= Len(c) THEN c[i] ELSE Zero]

(* Blocks written at the positions of an open file, pairs <<offset, block>>. *)
Written(c, blocks) ==
    LET at == {b[1] + 1 : b \in blocks}
    IN  [i \in 1..Max(at \cup {Len(c)}) |->
            IF i \in at THEN (CHOOSE b \in blocks : b[1] + 1 = i)[2]
            ELSE IF i <= Len(c) THEN c[i] ELSE Zero]

(* An inode no name and no open session refers to.                          *)
Free == Min(Inode \ ({part, final} \cup {recv[t].file : t \in Open}))

(* Mutant: the sum is not compared.                                         *)
VerifyPartSizeOnly(p, size, sha) == p # None /\ Len(disk[p]) = size

(* verifyPart: the size and, when there is one, the sum.                    *)
VerifyPart(p, size, sha) ==
    /\ p # None
    /\ Len(disk[p]) = size
    /\ (sha # None => disk[p] = Content[sha])

-----------------------------------------------------------------------------
(* Clients (external) ask for transfers, and the source file is rewritten.  *)

Idle == net = {} /\ Open = {} /\ finish = None

AskPull(from) ==
    /\ pulls < work.pulls
    /\ work.overlap \/ Idle
    /\ asked' = asked + 1 /\ pulls' = pulls + 1
    /\ net' = net \cup {[kind |-> "read", sid |-> asked + 1, from |-> from]}
    /\ UNCHANGED <<provider, consumer, announced, faults, hurt>>

AskOffer(over) ==
    /\ asked - pulls < work.offers
    /\ work.overlap \/ Idle
    /\ asked' = asked + 1
    /\ net' = net \cup {[kind |-> "write", sid |-> asked + 1, over |-> over,
                         size |-> Len(Content[src]), sha |-> src]}
    /\ announced' = announced \cup {src}
    /\ UNCHANGED <<provider, consumer, pulls, faults, hurt>>

Rewrite(v) ==
    /\ Disturb("rewrite")
    /\ v # src /\ src' = v
    /\ UNCHANGED <<send, sending, consumer, net, asked, pulls, announced>>

-----------------------------------------------------------------------------
(* The provider.                                                            *)

(* A send session is registered and its goroutine started.                  *)
StartSending(t, size, from) ==
    /\ send' = [send EXCEPT ![t] = [size |-> size, from |-> from, acked |-> 0]]
    /\ sending' = [sending EXCEPT ![t] = [at |-> "open", off |-> 0]]

(* handlePullAsProvider: a position beyond the end is taken for 0.  The     *)
(* answer has no sum, and nothing is sent when nothing is missing.          *)
HandlePullAsProvider(f) ==
    LET size == Len(Content[src])
        from == IF f.from > size THEN 0 ELSE f.from
    IN  /\ f.kind = "read"
        /\ \/ /\ TotalSessions(send) < MaxConcurrent
              /\ net' = (net \ {f}) \cup {[kind |-> "read_resp", sid |-> f.sid,
                                          size |-> size, from |-> from]}
              /\ IF from >= size THEN UNCHANGED <<send, sending>>
                 ELSE StartSending(f.sid, size, from)
              /\ announced' = announced \cup {src}
              /\ UNCHANGED hurt
           \/ /\ TotalSessions(send) >= MaxConcurrent
              /\ net' = net \ {f} /\ hurt' = TRUE
              /\ UNCHANGED <<send, sending, announced>>
    /\ UNCHANGED <<src, consumer, asked, pulls, faults>>

(* handleWriteRespLocal: the offer was accepted.                            *)
HandleWriteRespLocal(f) ==
    /\ f.kind = "write_resp"
    /\ net' = net \ {f}
    /\ \/ /\ TotalSessions(send) < MaxConcurrent
          /\ StartSending(f.sid, f.size, f.from)
          /\ UNCHANGED hurt
       \/ /\ TotalSessions(send) >= MaxConcurrent
          /\ hurt' = TRUE
          /\ UNCHANGED <<send, sending>>
    /\ UNCHANGED <<src, consumer, history>>

(* sendFileData opens the file; one whose size has changed is not sent, and *)
(* the session stays in the table.                                          *)
SendOpen(t) ==
    /\ sending[t] # None /\ sending[t].at = "open"
    /\ sending' = [sending EXCEPT ![t] =
          IF send[t] = None \/ Len(Content[src]) # send[t].size THEN None
          ELSE [at |-> "read", off |-> IF send[t].from > send[t].size THEN 0
                                       ELSE send[t].from]]
    /\ UNCHANGED <<src, send, consumer, net, history, hurt>>

(* One round of its loop: a chunk, marked FIN when it is the last one; the  *)
(* session is removed after it, or at the end of the file.                  *)
SendChunk(t) ==
    LET off == sending[t].off
        fin == off + 1 = send[t].size
        done == off >= Len(Content[src])
    IN  /\ sending[t] # None /\ sending[t].at = "read"
        /\ net' = IF done THEN net
                  ELSE net \cup {[kind |-> "data", sid |-> t, off |-> off,
                                  block |-> Content[src][off + 1], fin |-> fin]}
        /\ sending' = [sending EXCEPT ![t] = IF done \/ fin THEN None
                                             ELSE [@ EXCEPT !.off = off + 1]]
        /\ send' = IF done \/ fin THEN [send EXCEPT ![t] = None] ELSE send
        /\ UNCHANGED <<src, consumer, history, hurt>>

(* handleAck: progress is noted, and nothing else depends on it.            *)
HandleAck(f) ==
    /\ f.kind = "ack"
    /\ net' = net \ {f}
    /\ send' = IF send[f.sid] = None THEN send
               ELSE [send EXCEPT ![f.sid].acked = Max({@, f.off})]
    /\ UNCHANGED <<src, sending, consumer, history, hurt>>

-----------------------------------------------------------------------------
(* The consumer.                                                            *)

Receiving == finish = None     \* the dispatcher is not in finishRecvSession

NewSession(size, sha, over, inode, from) ==
    [size |-> size, sha |-> sha, over |-> over, file |-> inode,
     expected |-> from, pending |-> {}, fin |-> FALSE]

(* OpenFile, Truncate, Seek and addRecvSession: the .part file is the one   *)
(* other sessions may have open.                                            *)
OpenSession(t, p, size, sha, over, from) ==
    LET i == IF p = None THEN Free ELSE p
    IN  /\ part' = i
        /\ disk' = [disk EXCEPT ![i] = Truncated(IF p = None THEN <<>> ELSE @, from)]
        /\ recv' = [recv EXCEPT ![t] = NewSession(size, sha, over, i, from)]

(* The verified .part file takes the final name: Remove, if the old file is *)
(* to be replaced, then Rename, then the answer to an offer.                *)
Promote(t, size, sha, over, answer) ==
    [sid |-> t, at |-> IF over THEN "remove" ELSE "rename", size |-> size,
     sha |-> sha, over |-> over, answer |-> answer]

(* handleReadRespLocal: at the end already, the .part file is verified;     *)
(* otherwise the session begins where the provider will.                    *)
HandleReadRespLocal(f) ==
    /\ f.kind = "read_resp" /\ Receiving
    /\ net' = net \ {f}
    /\ \/ /\ TotalSessions(recv) >= MaxConcurrent
          /\ hurt' = TRUE
          /\ UNCHANGED <<recv, finish, files>>
       \/ /\ TotalSessions(recv) < MaxConcurrent /\ f.from = f.size
          /\ \/ /\ VerifyPart(part, f.size, None)
                /\ finish' = Promote(f.sid, f.size, None, TRUE, FALSE)
                /\ UNCHANGED <<part, disk>>
             \/ /\ ~VerifyPart(part, f.size, None)
                /\ part' = IF part = None THEN Free ELSE part
                /\ disk' = IF part = None THEN [disk EXCEPT ![Free] = <<>>] ELSE disk
                /\ UNCHANGED finish
          /\ UNCHANGED <<recv, final, hurt>>
       \/ /\ TotalSessions(recv) < MaxConcurrent /\ f.from # f.size
          /\ OpenSession(f.sid, part, f.size, None, TRUE, f.from)
          /\ UNCHANGED <<finish, final, hurt>>
    /\ UNCHANGED <<provider, expired, history>>

(* handleOfferAsConsumer: refused when the file must not be replaced or the *)
(* sessions are too many.  A .part file that is too long is removed, a      *)
(* shorter one is continued, and one of the right length is verified and    *)
(* renamed, or removed; the answer accepts the offer in either case.        *)
Refuses(f) == (~f.over /\ final # None) \/ TotalSessions(recv) >= MaxConcurrent

WriteResp(f, from) ==
    [kind |-> "write_resp", sid |-> f.sid, size |-> f.size, from |-> from]

UsablePart(f) == IF part # None /\ Len(disk[part]) <= f.size THEN part ELSE None

HandleOfferAsConsumer(f) ==
    LET p == UsablePart(f)
        from == IF p = None THEN 0 ELSE Len(disk[p])
    IN
    /\ f.kind = "write" /\ Receiving
    /\ \/ /\ Refuses(f)
          /\ net' = net \ {f} /\ hurt' = TRUE
          /\ UNCHANGED <<recv, finish, files>>
       \/ /\ ~Refuses(f) /\ from = f.size
          /\ \/ /\ VerifyPart(p, f.size, f.sha)
                /\ net' = net \ {f}
                /\ finish' = Promote(f.sid, f.size, f.sha, f.over, TRUE)
                /\ UNCHANGED <<part, hurt>>
             \/ /\ ~VerifyPart(p, f.size, f.sha)
                /\ part' = None /\ hurt' = TRUE
                /\ net' = (net \ {f}) \cup {WriteResp(f, from)}
                /\ UNCHANGED finish
          /\ UNCHANGED <<recv, final, disk>>
       \/ /\ ~Refuses(f) /\ from < f.size
          /\ OpenSession(f.sid, p, f.size, f.sha, f.over, from)
          /\ net' = (net \ {f}) \cup {WriteResp(f, from)}
          /\ UNCHANGED <<finish, final, hurt>>
    /\ UNCHANGED <<provider, expired, history>>

(* applyRecvChunk: in order, the chunk and what waits behind it is written; *)
(* ahead, it is kept while there is room; behind, it is dropped.  A FIN is  *)
(* noted whatever becomes of its chunk.                                     *)
Offsets(s) == {c[1] : c \in s.pending}

(* The first offset that is missing once off has been written.              *)
Reached(s, off) ==
    CHOOSE n \in off + 1..MaxSize + 1 :
        n \notin Offsets(s) /\ \A i \in off + 1..n - 1 : i \in Offsets(s)

Keeps(s, off) ==
    /\ off > s.expected
    /\ off \notin Offsets(s) /\ Cardinality(s.pending) < MaxPending

(* Mutant: a FIN counts only when its chunk is written at once.             *)
ApplyRecvChunkLateFin(s, f) ==
    LET end == Reached(s, f.off)
    IN  IF f.off = s.expected
        THEN [s EXCEPT !.expected = end, !.fin = @ \/ f.fin,
                       !.pending = {c \in @ : c[1] > end}]
        ELSE IF Keeps(s, f.off)
        THEN [s EXCEPT !.pending = @ \cup {<<f.off, f.block>>}]
        ELSE s

ApplyRecvChunk(s, f) ==
    LET seen == [s EXCEPT !.fin = @ \/ f.fin]
        end == Reached(s, f.off)
    IN  IF f.off = s.expected
        THEN [seen EXCEPT !.expected = end,
                          !.pending = {c \in @ : c[1] > end}]
        ELSE IF Keeps(s, f.off)
        THEN [seen EXCEPT !.pending = @ \cup {<<f.off, f.block>>}]
        ELSE seen

(* The blocks applyRecvChunk writes.                                        *)
Flushed(s, f) ==
    {<<f.off, f.block>>} \cup {c \in s.pending : c[1] < Reached(s, f.off)}

Listening(t) == recv[t] # None /\ recv[t].file # None

(* handleData of a frame without a session, or of one the janitor closed.   *)
DropData(f) ==
    /\ f.kind = "data" /\ Receiving
    /\ ~Listening(f.sid)
    /\ net' = net \ {f} /\ hurt' = TRUE
    /\ UNCHANGED <<provider, consumer, history>>

(* maybeSendAck: a frame that advances the file is acknowledged when enough *)
(* blocks or half a second have passed, and when the file is complete.      *)
MaybeSendAck(ack, wrote, r) == ack \in {wrote, wrote /\ r.expected = r.size}

(* handleData: once the file is complete and FIN was seen, finishRecvSession *)
(* takes over and closes it.                                                *)
HandleData(f, again, ack) ==
    LET t == f.sid
        s == recv[t]
        r == ApplyRecvChunk(s, f)
        wrote == f.off = s.expected
        complete == wrote /\ r.fin /\ r.expected = r.size
    IN
    /\ f.kind = "data" /\ Receiving /\ Listening(t)
    /\ MaybeSendAck(ack, wrote, r)
    /\ net' = (IF again THEN net ELSE net \ {f})
              \cup (IF ack THEN {[kind |-> "ack", sid |-> t, off |-> r.expected]} ELSE {})
    /\ \/ again /\ Disturb("repeat")
       \/ /\ ~again
          /\ hurt' = (hurt \/ (f.off > s.expected /\ f.off \notin Offsets(r)))
          /\ UNCHANGED faults
    /\ disk' = IF wrote THEN [disk EXCEPT ![s.file] = Written(@, Flushed(s, f))] ELSE disk
    /\ recv' = [recv EXCEPT ![t] = IF complete THEN [r EXCEPT !.file = None] ELSE r]
    /\ finish' = IF complete
                 THEN [sid |-> t, at |-> "verify", size |-> s.size, sha |-> s.sha,
                       over |-> s.over, answer |-> FALSE]
                 ELSE None
    /\ UNCHANGED <<provider, expired, part, final, asked, pulls, announced>>

(* finishRecvSession: what is under the name of the .part file is verified. *)
FinishVerify ==
    LET f == finish
        ok == VerifyPart(part, f.size, f.sha)
    IN  /\ f # None /\ f.at = "verify"
        /\ finish' = IF ok THEN Promote(f.sid, f.size, f.sha, f.over, FALSE) ELSE None
        /\ recv' = IF ok THEN recv ELSE [recv EXCEPT ![f.sid] = None]
        /\ UNCHANGED <<provider, expired, files, net, history, hurt>>

FinishRemove ==
    /\ finish # None /\ finish.at = "remove"
    /\ final' = None
    /\ finish' = [finish EXCEPT !.at = "rename"]
    /\ UNCHANGED <<provider, recv, expired, part, disk, net, history, hurt>>

(* The rename fails when the .part file has gone.                           *)
FinishRename ==
    /\ finish # None /\ finish.at = "rename"
    /\ final' = IF part = None THEN final ELSE part
    /\ part' = None
    /\ recv' = [recv EXCEPT ![finish.sid] = None]
    /\ finish' = None
    /\ net' = net \cup (IF finish.answer THEN {WriteResp(finish, finish.size)} ELSE {})
    /\ UNCHANGED <<provider, expired, disk, history, hurt>>

-----------------------------------------------------------------------------
(* The janitor, whose rounds control frames start: sessions idle for longer *)
(* than file.incomplete_ttl_sec are closed and their .part files removed    *)
(* under the read lock, then deleted under the write lock; then .part files *)
(* that have not been written for as long are removed.                      *)

MaybeJanitor == Disturb("expire")

CleanupClose(ts) ==
    /\ MaybeJanitor
    /\ expired = {} /\ ts # {}
    /\ \A t \in ts : finish # None => finish.sid # t
    /\ recv' = [t \in Transfer |-> IF t \in ts THEN [recv[t] EXCEPT !.file = None]
                                   ELSE recv[t]]
    /\ part' = None
    /\ expired' = ts
    /\ UNCHANGED <<provider, finish, final, disk, net, asked, pulls, announced>>

CleanupDelete ==
    /\ expired # {}
    /\ recv' = [t \in Transfer |-> IF t \in expired THEN None ELSE recv[t]]
    /\ expired' = {}
    /\ UNCHANGED <<provider, finish, files, net, history, hurt>>

CleanupExpiredParts ==
    /\ MaybeJanitor
    /\ part # None /\ part' = None
    /\ UNCHANGED <<provider, recv, finish, expired, final, disk, net, asked, pulls,
                   announced>>

-----------------------------------------------------------------------------
(* Faults: frames get lost (a send error is only logged), and a process     *)
(* restarts with what is on its disk.                                       *)

Lose(f) ==
    /\ Disturb("lose")
    /\ net' = net \ {f}
    /\ UNCHANGED <<provider, consumer, asked, pulls, announced>>

RestartConsumer ==
    /\ Disturb("restart")
    /\ recv' = [t \in Transfer |-> None] /\ finish' = None /\ expired' = {}
    /\ UNCHANGED <<provider, files, net, asked, pulls, announced>>

RestartProvider ==
    /\ Disturb("restart")
    /\ send' = [t \in Transfer |-> None] /\ sending' = [t \in Transfer |-> None]
    /\ UNCHANGED <<src, consumer, net, asked, pulls, announced>>

-----------------------------------------------------------------------------
Handle(f) ==
    \/ HandlePullAsProvider(f) \/ HandleWriteRespLocal(f) \/ HandleAck(f)
    \/ HandleReadRespLocal(f) \/ HandleOfferAsConsumer(f) \/ DropData(f)
    \/ \E again, ack \in BOOLEAN : HandleData(f, again, ack)

Next ==
    /\ UNCHANGED work
    /\ \/ AskPull(0) \/ (part # None /\ AskPull(Len(disk[part])))
       \/ \E over \in BOOLEAN : AskOffer(over)
       \/ \E v \in Version : Rewrite(v)
       \/ \E f \in net : Handle(f) \/ Lose(f)
       \/ \E t \in Transfer : SendOpen(t) \/ SendChunk(t)
       \/ FinishVerify \/ FinishRemove \/ FinishRename
       \/ \E ts \in SUBSET Open : CleanupClose(ts)
       \/ CleanupDelete \/ CleanupExpiredParts
       \/ RestartConsumer \/ RestartProvider

Spec == Init /\ [][Next]_vars

-----------------------------------------------------------------------------
(* Properties.                                                              *)

(* What a reader of the final name finds: a version, nothing, or Zero for   *)
(* blocks that are no version at all.                                       *)
Stored ==
    IF final = None THEN None
    ELSE IF \E v \in Version : Content[v] = disk[final]
         THEN CHOOSE v \in Version : Content[v] = disk[final]
         ELSE Zero

Copy == INSTANCE FileCopy WITH stored <- Stored

(* The transfers implement FileCopy: whatever is lost, repeated, reordered, *)
(* expired, restarted or rewritten, the final name goes from nothing or a   *)
(* whole version to nothing or a whole version that was announced.          *)
ImplementsFileCopy == Copy!Spec

(* Transfers in which nothing was lost, refused or disturbed succeed: once  *)
(* every frame has arrived and every goroutine ended, no session is left on *)
(* either side and the final name holds what the source does.               *)
UndisturbedTransfersEnd ==
    ~hurt /\ asked > 0 /\ net = {} /\ finish = None
    /\ (\A t \in Transfer : sending[t] = None)
    => /\ Open = {} /\ \A t \in Transfer : send[t] = None
       /\ Stored = src

(* What is under the final name is no fragment: it has been one of the      *)
(* versions of the source as a whole.                                       *)
FinalIsWhole == Stored # Zero
=============================================================================
