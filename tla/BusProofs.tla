----------------------------- MODULE BusProofs -----------------------------
(***************************************************************************)
(* What ManagedBus guarantees for every number of servers, clients,        *)
(* readers and starters, every batch size and every capacity, and that the *)
(* bus implements DurableLog.                                              *)
(*                                                                         *)
(* The invariant of the bus says of every snapshot that a crash may leave  *)
(* that it is a prefix of the file, is numbered from one without a gap,    *)
(* holds its batches and the parents of its offspring as a whole, and has  *)
(* every acknowledged row; and of a server that is up that its memory is   *)
(* one of these snapshots -- which makes it the only one that is up, as it *)
(* owns the lock.  The parent that a request or a publication names is in  *)
(* that memory, which only grows while the server lives.  A reader has a   *)
(* row for each number up to its cursor.                                   *)
(***************************************************************************)
EXTENDS ManagedBus, SequenceTheorems, FiniteSetTheorems, TLAPS

BusTyped ==
  /\ file \in Seq(Row)
  /\ survivors \subseteq Seq(Row)
  /\ owner \in Servers \cup {Nobody}
  /\ life \in [Servers -> {"down", "loading", "up"}]
  /\ rows \in [Servers -> Seq(Row)]
  /\ next \in [Servers -> Nat]
  /\ inflight \in [Servers -> Publication \cup {Nobody}]
  /\ requests \subseteq Request
  /\ call \in [Clients -> {"idle", "waiting", "acked"}]
  /\ tries \in [Clients -> Nat]
  /\ seen \in [Readers -> SUBSET Row]
  /\ cursor \in [Readers -> Nat]
  /\ acked \subseteq Row

(* A snapshot that is numbered, and has no batch or offspring by half.     *)
Gapless(v) == \A i \in DOMAIN v : v[i].seq = i
Whole(v) ==
  \A row \in RowsOf(v) : \A i \in 1 .. Size(row.by) :
    \E other \in RowsOf(v) : other.by = row.by /\ other.part = i
                          /\ other.seq = row.seq + i - row.part
Parented(v) ==
  \A row \in RowsOf(v) : row.parent # Nobody =>
    /\ row.parent.seq < row.seq
    /\ \E p \in RowsOf(v) : Id(p) = row.parent

SnapshotsOK ==
  /\ file \in survivors
  /\ \A v \in survivors : IsPrefix(v, file) /\ Gapless(v) /\ Whole(v) /\ Parented(v)
  /\ \A v \in survivors : acked \subseteq RowsOf(v)
  /\ \E v \in survivors : \A w \in survivors : Len(v) <= Len(w)

ServerOK(s) ==
  /\ life[s] = "up" =>
       /\ owner = s /\ next[s] = Len(rows[s]) /\ rows[s] \in survivors
       /\ file = IF Committing(s) THEN rows[s] \o inflight[s].batch ELSE rows[s]
  /\ inflight[s] # Nobody =>
       LET q == inflight[s].request IN
       /\ life[s] = "up" /\ inflight[s].batch = Numbered(s, q)
       /\ q.parent # Nobody => \E p \in RowsOf(rows[s]) : Id(p) = q.parent

RequestOK(q) ==
  q.parent # Nobody => life[q.at] = "up" /\ \E p \in RowsOf(rows[q.at]) : Id(p) = q.parent

ReaderOK(r) == \A n \in 1 .. cursor[r] : \E row \in seen[r] : row.seq = n

IInv ==
  /\ BusTyped /\ SnapshotsOK
  /\ \A s \in Servers : ServerOK(s)
  /\ \A q \in requests : RequestOK(q)
  /\ \A r \in Readers : ReaderOK(r)

(* serve_uds removes and binds the path under the lock; a starter polls a  *)
(* process that it has started.                                            *)
ManagedOK ==
  /\ stage \in [Servers -> {"off", "spawned", "tcp", "locked", "replacing", "clear",
                            "bound", "gone"}]
  /\ starter \in [Starters -> {"idle", "probing", "asking", "starting", "polling", "done"}]
  /\ peer \in [Starters -> Servers \cup {Nobody}]
  /\ \A s \in Servers :
       /\ stage[s] \in {"locked", "replacing", "clear", "bound"} => socketLock = s
       /\ stage[s] = "bound" => socket = s
  /\ \A u \in Starters : starter[u] = "polling" => peer[u] \in Servers

(* Each row of a batch's beginning was asked for: the copies of a client's *)
(* batch and its requests that are not in the snapshot are no more than    *)
(* its calls.                                                              *)
Copies(v, c) == {row \in RowsOf(v) : row.by = c /\ row.part = 1}
Open(c) == {q \in requests : q.by = c /\ \A s \in Servers : Committing(s) => inflight[s].request # q}

CallsOK ==
  /\ \A s \in Servers : inflight[s] # Nobody =>
       inflight[s].request \in requests /\ inflight[s].request.at = s
  /\ \A c \in Clients :
       /\ IsFiniteSet(Copies(file, c)) /\ IsFiniteSet(Open(c))
       /\ Cardinality(Copies(file, c)) + Cardinality(Open(c)) <= tries[c]

-----------------------------------------------------------------------------
LEMMA Initially == BusInit => IInv
<1>. SUFFICES ASSUME BusInit PROVE IInv
  OBVIOUS
<1>1. << >> \in Seq(Row) /\ RowsOf(<< >>) = {} /\ IsPrefix(<< >>, << >>)
  BY DEF RowsOf, IsPrefix
<1>2. BusTyped
  BY <1>1 DEF BusInit, BusTyped
<1>3. SnapshotsOK
  BY <1>1 DEF BusInit, SnapshotsOK, Gapless, Whole, Parented
<1>4. \A s \in Servers : ServerOK(s)
  BY DEF BusInit, ServerOK
<1>5. \A r \in Readers : ReaderOK(r)
  BY DEF BusInit, ReaderOK
<1>. QED  BY <1>2, <1>3, <1>4, <1>5 DEF BusInit, IInv

(***************************************************************************)
(* Facts about logs.                                                       *)
(***************************************************************************)
LEMMA RowOf ==
  ASSUME NEW v \in Seq(Row), NEW row \in RowsOf(v)
  PROVE  row \in Row /\ \E i \in 1 .. Len(v) : row = v[i]
BY DEF RowsOf

LEMMA GaplessRows ==
  ASSUME NEW v \in Seq(Row), Gapless(v), NEW row \in RowsOf(v)
  PROVE  row.seq \in 1 .. Len(v) /\ v[row.seq] = row
BY DEF RowsOf, Gapless

LEMMA LastOfGapless ==
  ASSUME NEW v \in Seq(Row), Gapless(v) PROVE LastSeq(v) = Len(v) /\ Len(v) \in Nat
<1>1. Len(v) \in Nat /\ DOMAIN v = 1 .. Len(v)
  OBVIOUS
<1>2. CASE v = << >>
  BY <1>2 DEF LastSeq
<1>3. CASE v # << >>
  <2>1. Len(v) > 0
    BY <1>1, <1>3, EmptySeq
  <2>. QED  BY <1>1, <1>3, <2>1 DEF LastSeq, Gapless
<1>. QED  BY <1>1, <1>2, <1>3

LEMMA PrefixRows ==
  ASSUME NEW v \in Seq(Row), NEW w \in Seq(Row), IsPrefix(v, w)
  PROVE  RowsOf(v) \subseteq RowsOf(w)
BY DEF RowsOf, IsPrefix

LEMMA SamePrefixes ==
  ASSUME NEW u \in Seq(Row), NEW v \in Seq(Row), NEW w \in Seq(Row),
         IsPrefix(u, w), IsPrefix(v, w), Len(u) <= Len(v)
  PROVE  IsPrefix(u, v)
BY DEF IsPrefix

LEMMA ConcatRows ==
  ASSUME NEW v \in Seq(Row), NEW w \in Seq(Row)
  PROVE  /\ v \o w \in Seq(Row) /\ Len(v \o w) = Len(v) + Len(w)
         /\ \A i \in 1 .. Len(v) : (v \o w)[i] = v[i]
         /\ \A i \in 1 .. Len(w) : (v \o w)[Len(v) + i] = w[i]
         /\ RowsOf(v \o w) = RowsOf(v) \cup RowsOf(w)
         /\ \A u \in Seq(Row) : IsPrefix(u, v) => IsPrefix(u, v \o w)
<1>1. /\ v \o w \in Seq(Row) /\ Len(v \o w) = Len(v) + Len(w)
      /\ \A i \in 1 .. Len(v) + Len(w) :
           (v \o w)[i] = IF i <= Len(v) THEN v[i] ELSE w[i - Len(v)]
  BY ConcatProperties
<1>2. Len(v) \in Nat /\ Len(w) \in Nat /\ DOMAIN v = 1 .. Len(v) /\ DOMAIN w = 1 .. Len(w)
      /\ DOMAIN (v \o w) = 1 .. Len(v) + Len(w)
  BY <1>1
<1>3. /\ \A i \in 1 .. Len(v) : (v \o w)[i] = v[i]
      /\ \A i \in 1 .. Len(w) : (v \o w)[Len(v) + i] = w[i]
  BY <1>1, <1>2
<1>4. RowsOf(v \o w) \subseteq RowsOf(v) \cup RowsOf(w)
  <2>. SUFFICES ASSUME NEW i \in 1 .. Len(v) + Len(w)
                PROVE  (v \o w)[i] \in RowsOf(v) \cup RowsOf(w)
    BY <1>2 DEF RowsOf
  <2>1. CASE i <= Len(v)
    BY <1>1, <1>2, <2>1 DEF RowsOf
  <2>2. CASE i > Len(v)
    <3>1. i - Len(v) \in 1 .. Len(w) /\ (v \o w)[i] = w[i - Len(v)]
      BY <1>1, <1>2, <2>2
    <3>. QED  BY <1>2, <3>1 DEF RowsOf
  <2>. QED  BY <1>2, <2>1, <2>2
<1>5. RowsOf(v) \subseteq RowsOf(v \o w)
  BY <1>2, <1>3 DEF RowsOf
<1>6. RowsOf(w) \subseteq RowsOf(v \o w)
  <2>. SUFFICES ASSUME NEW i \in 1 .. Len(w) PROVE w[i] \in RowsOf(v \o w)
    BY <1>2 DEF RowsOf
  <2>1. Len(v) + i \in 1 .. Len(v) + Len(w) /\ (v \o w)[Len(v) + i] = w[i]
    BY <1>2, <1>3
  <2>. QED  BY <1>2, <2>1 DEF RowsOf
<1>7. ASSUME NEW u \in Seq(Row), IsPrefix(u, v) PROVE IsPrefix(u, v \o w)
  BY <1>1, <1>2, <1>3, <1>7 DEF IsPrefix
<1>. QED  BY <1>1, <1>3, <1>4, <1>5, <1>6, <1>7

(***************************************************************************)
(* The snapshot has one owner.                                             *)
(***************************************************************************)
LEMMA OneServer ==
  ASSUME IInv, NEW s \in Servers, life[s] = "up", NEW r \in Servers, r # s
  PROVE  life[r] # "up" /\ inflight[r] = Nobody
BY DEF IInv, ServerOK

LEMMA UpServer ==
  ASSUME IInv, NEW s \in Servers, life[s] = "up"
  PROVE  /\ rows[s] \in Seq(Row) /\ rows[s] \in survivors /\ next[s] = Len(rows[s])
         /\ Len(rows[s]) \in Nat /\ owner = s
         /\ Gapless(rows[s]) /\ Whole(rows[s]) /\ Parented(rows[s])
         /\ LastSeq(rows[s]) = Len(rows[s])
<1>1. /\ rows[s] \in Seq(Row) /\ rows[s] \in survivors /\ next[s] = Len(rows[s]) /\ owner = s
      /\ Gapless(rows[s]) /\ Whole(rows[s]) /\ Parented(rows[s])
  BY DEF IInv, BusTyped, ServerOK, SnapshotsOK
<1>. QED  BY <1>1, LastOfGapless

LEMMA Publishing ==
  ASSUME IInv, NEW s \in Servers, inflight[s] # Nobody
  PROVE  /\ life[s] = "up" /\ inflight[s] \in Publication
         /\ inflight[s].request \in Request /\ inflight[s].batch \in Seq(Row)
         /\ inflight[s].batch = Numbered(s, inflight[s].request)
         /\ Len(inflight[s].batch) = Size(inflight[s].request.by)
         /\ Size(inflight[s].request.by) \in Nat \ {0}
<1>1. /\ life[s] = "up" /\ inflight[s] \in Publication
      /\ inflight[s].batch = Numbered(s, inflight[s].request)
  BY DEF IInv, ServerOK, BusTyped
<1>2. inflight[s].request \in Request /\ inflight[s].batch \in Seq(Row)
  BY <1>1 DEF Publication
<1>3. Size(inflight[s].request.by) \in Nat \ {0}
  BY <1>2, BusAssumption DEF Size, Request, Clients
<1>4. Len(inflight[s].batch) = Size(inflight[s].request.by)
  BY <1>1, <1>3 DEF Numbered
<1>. QED  BY <1>1, <1>2, <1>3, <1>4

LEMMA Answered ==
  ASSUME IInv, NEW q, q.by \in Clients, NEW outcome \in {"idle", "waiting", "acked"},
         Answer(q, outcome)
  PROVE  /\ requests' \subseteq requests /\ tries' = tries
         /\ call' \in [Clients -> {"idle", "waiting", "acked"}]
BY DEF Answer, IInv, BusTyped

-----------------------------------------------------------------------------
(***************************************************************************)
(* Steps that change no log.                                               *)
(***************************************************************************)
LEMMA Quiet ==
  ASSUME IInv, BusTyped', UNCHANGED <<disk, server, acked>>,
         \A q \in requests' : RequestOK(q), \A r \in Readers : ReaderOK(r)'
  PROVE  IInv'
<1>1. /\ file' = file /\ survivors' = survivors /\ owner' = owner /\ life' = life
      /\ rows' = rows /\ next' = next /\ inflight' = inflight /\ acked' = acked
  BY DEF disk, server
<1>2. SnapshotsOK'
  BY <1>1 DEF IInv, SnapshotsOK
<1>3. \A s \in Servers : ServerOK(s)'
  BY <1>1 DEF IInv, ServerOK, Committing, Numbered
<1>4. \A q \in requests' : RequestOK(q)'
  BY <1>1 DEF RequestOK
<1>. QED  BY <1>2, <1>3, <1>4 DEF IInv

LEMMA ReadersStay ==
  ASSUME IInv, UNCHANGED reader PROVE \A r \in Readers : ReaderOK(r)'
BY DEF IInv, ReaderOK, reader

LEMMA SendStep ==
  ASSUME IInv, NEW c \in Clients, NEW s \in Servers, Send(c, s) PROVE IInv'
<1>. DEFINE q == [by |-> c, try |-> tries[c] + 1, at |-> s, parent |-> Nobody]
<1>1. /\ UNCHANGED <<disk, server, reader, acked>> /\ requests' = requests \cup {q}
      /\ tries' = [tries EXCEPT ![c] = @ + 1] /\ call' = [call EXCEPT ![c] = "waiting"]
  BY DEF Send
<1>2. BusTyped /\ tries[c] \in Nat
  BY DEF IInv, BusTyped
<1>3. q \in Request /\ RequestOK(q)
  BY <1>2 DEF Request, RequestOK
<1>. HIDE DEF q
<1>4. BusTyped'
  BY <1>1, <1>2, <1>3 DEF BusTyped, disk, server, reader
<1>5. \A x \in requests' : RequestOK(x)
  BY <1>1, <1>3 DEF IInv
<1>. QED  BY <1>1, <1>4, <1>5, ReadersStay, Quiet

LEMMA GiveUpStep ==
  ASSUME IInv, NEW c \in Clients, GiveUp(c) PROVE IInv'
<1>1. UNCHANGED <<disk, server, requests, tries, reader, acked>>
      /\ call' = [call EXCEPT ![c] = "idle"]
  BY DEF GiveUp
<1>2. BusTyped'
  BY <1>1 DEF IInv, BusTyped, disk, server, reader
<1>3. \A x \in requests' : RequestOK(x)
  BY <1>1 DEF IInv
<1>. QED  BY <1>1, <1>2, <1>3, ReadersStay, Quiet

(***************************************************************************)
(* A reader has been given a row for every number up to its cursor.        *)
(***************************************************************************)
LEMMA GetStep ==
  ASSUME IInv, NEW r \in Readers, NEW s \in Servers, Get(r, s) PROVE IInv'
<1>. DEFINE answer == {row \in RowsOf(rows[s]) : row.seq > cursor[r]}
<1>1. /\ life[s] = "up" /\ seen' = [seen EXCEPT ![r] = @ \cup answer]
      /\ cursor' = [cursor EXCEPT ![r] = LastSeq(rows[s])]
      /\ UNCHANGED <<disk, server, client, acked>>
  BY DEF Get
<1>2. /\ BusTyped /\ rows[s] \in Seq(Row) /\ Gapless(rows[s])
      /\ LastSeq(rows[s]) = Len(rows[s]) /\ Len(rows[s]) \in Nat
      /\ cursor[r] \in Nat /\ seen[r] \in SUBSET Row
  BY <1>1, UpServer DEF IInv, BusTyped
<1>3. answer \subseteq Row
  BY <1>2, RowOf
<1>. HIDE DEF answer
<1>4. BusTyped'
  BY <1>1, <1>2, <1>3 DEF BusTyped, disk, server, client
<1>5. ASSUME NEW x \in Readers PROVE ReaderOK(x)'
  <2>1. ReaderOK(x)
    BY DEF IInv
  <2>2. CASE x # r
    BY <1>1, <1>2, <2>1, <2>2 DEF ReaderOK, BusTyped
  <2>3. CASE x = r
    <3>1. cursor'[r] = Len(rows[s]) /\ seen'[r] = seen[r] \cup answer
      BY <1>1, <1>2 DEF BusTyped
    <3>2. ASSUME NEW n \in 1 .. Len(rows[s]) PROVE \E row \in seen'[r] : row.seq = n
      <4>1. CASE n <= cursor[r]
        BY <1>2, <2>1, <2>3, <3>1, <4>1 DEF ReaderOK
      <4>2. CASE n > cursor[r]
        <5>1. rows[s][n] \in RowsOf(rows[s]) /\ rows[s][n].seq = n
          BY <1>2 DEF RowsOf, Gapless
        <5>2. rows[s][n] \in answer
          BY <4>2, <5>1 DEF answer
        <5>. QED  BY <3>1, <5>1, <5>2
      <4>. QED  BY <1>2, <4>1, <4>2
    <3>. QED  BY <2>3, <3>1, <3>2 DEF ReaderOK
  <2>. QED  BY <2>2, <2>3
<1>6. requests' = requests /\ UNCHANGED <<disk, server, acked>>
  BY <1>1 DEF client
<1>7. \A x \in requests' : RequestOK(x)
  BY <1>6 DEF IInv
<1>. QED  BY <1>4, <1>5, <1>6, <1>7, Quiet

LEMMA BreedStep ==
  ASSUME IInv, NEW s \in Servers, NEW q \in requests, Breed(s, q) PROVE IInv'
<1>1. /\ q \in Request /\ q.at = s /\ life[s] = "up" /\ UNCHANGED <<disk, server, reader, acked>>
      /\ BusTyped
  BY DEF Breed, IInv, BusTyped
<1>2. CASE Answer(q, "idle")
  <2>1. /\ requests' \subseteq requests /\ tries' = tries
        /\ call' \in [Clients -> {"idle", "waiting", "acked"}]
    BY <1>1, <1>2, Answered DEF Request
  <2>2. BusTyped'
    BY <1>1, <2>1 DEF BusTyped, disk, server, reader
  <2>3. \A x \in requests' : RequestOK(x)
    BY <2>1 DEF IInv
  <2>. QED  BY <1>1, <2>2, <2>3, ReadersStay, Quiet
<1>3. ASSUME NEW parent \in RowsOf(rows[s]), UNCHANGED <<call, tries>>,
             requests' = (requests \ {q}) \cup {[q EXCEPT !.parent = Id(parent)]}
      PROVE  IInv'
  <2>. DEFINE bred == [q EXCEPT !.parent = Id(parent)]
  <2>1. parent \in Row /\ Id(parent) \in RowId
    BY <1>1, UpServer, RowOf DEF Row, RowId, Id
  <2>2. bred \in Request /\ bred.at = s /\ bred.parent = Id(parent)
    BY <1>1, <2>1 DEF Request
  <2>3. requests' = (requests \ {q}) \cup {bred}
    BY <1>3
  <2>. HIDE DEF bred
  <2>4. BusTyped'
    BY <1>1, <1>3, <2>2, <2>3 DEF BusTyped, disk, server, reader
  <2>5. RequestOK(bred)
    BY <1>1, <2>2 DEF RequestOK
  <2>6. \A x \in requests' : RequestOK(x)
    BY <2>3, <2>5 DEF IInv
  <2>. QED  BY <1>1, <2>4, <2>6, ReadersStay, Quiet
<1>. QED  BY <1>2, <1>3 DEF Breed

LEMMA RefuseStep ==
  ASSUME IInv, NEW s \in Servers, NEW q \in requests, Refuse(s, q) PROVE IInv'
<1>1. /\ q \in Request /\ UNCHANGED <<disk, server, reader, acked>> /\ BusTyped /\ Answer(q, "idle")
  BY DEF Refuse, IInv, BusTyped
<1>2. /\ requests' \subseteq requests /\ tries' = tries
      /\ call' \in [Clients -> {"idle", "waiting", "acked"}]
  BY <1>1, Answered DEF Request
<1>3. BusTyped'
  BY <1>1, <1>2 DEF BusTyped, disk, server, reader
<1>4. \A x \in requests' : RequestOK(x)
  BY <1>2 DEF IInv
<1>. QED  BY <1>1, <1>3, <1>4, ReadersStay, Quiet

-----------------------------------------------------------------------------
(***************************************************************************)
(* Servers start and stop.                                                 *)
(***************************************************************************)
LEMMA StartStep ==
  ASSUME IInv, NEW s \in Servers, Start(s) PROVE IInv'
<1>1. /\ life[s] = "down" /\ life' = [life EXCEPT ![s] = "loading"]
      /\ file' = file /\ survivors' = survivors /\ owner' = owner /\ rows' = rows /\ next' = next
      /\ inflight' = inflight /\ acked' = acked /\ requests' = requests
      /\ call' = call /\ tries' = tries /\ seen' = seen /\ cursor' = cursor
  BY DEF Start, disk, client, reader
<1>2. BusTyped'
  BY <1>1 DEF IInv, BusTyped
<1>3. SnapshotsOK'
  BY <1>1 DEF IInv, SnapshotsOK
<1>4. \A r \in Servers : life'[r] = IF r = s THEN "loading" ELSE life[r]
  BY <1>1 DEF IInv, BusTyped
<1>5. ASSUME NEW r \in Servers PROVE ServerOK(r)'
  <2>1. ServerOK(r)
    BY DEF IInv
  <2>3. life'[r] = "up" <=> life[r] = "up"
    BY <1>1, <1>4
  <2>4. r = s => inflight[r] = Nobody
    BY <1>1, <2>1 DEF ServerOK
  <2>2. (r # s => life'[r] = life[r])
    BY <1>4
  <2>. QED  BY <1>1, <2>1, <2>2, <2>3, <2>4 DEF ServerOK, Committing, Numbered
<1>6. \A q \in requests' : RequestOK(q)'
  BY <1>1, <1>4 DEF IInv, RequestOK, BusTyped, Request
<1>7. \A r \in Readers : ReaderOK(r)'
  BY <1>1, ReadersStay DEF reader
<1>. QED  BY <1>2, <1>3, <1>5, <1>6, <1>7 DEF IInv

LEMMA LoadStep ==
  ASSUME IInv, NEW s \in Servers, Load(s) PROVE IInv'
<1>1. /\ life[s] = "loading" /\ owner = Nobody /\ owner' = s
      /\ rows' = [rows EXCEPT ![s] = file] /\ next' = [next EXCEPT ![s] = LastSeq(file)]
      /\ life' = [life EXCEPT ![s] = "up"]
      /\ file' = file /\ survivors' = survivors /\ inflight' = inflight /\ acked' = acked
      /\ requests' = requests
      /\ call' = call /\ tries' = tries /\ seen' = seen /\ cursor' = cursor
  BY DEF Load, disk, client, reader
<1>2. file \in Seq(Row) /\ file \in survivors /\ LastSeq(file) = Len(file) /\ Len(file) \in Nat
  BY LastOfGapless DEF IInv, BusTyped, SnapshotsOK
<1>3. BusTyped'
  BY <1>1, <1>2 DEF IInv, BusTyped
<1>4. SnapshotsOK'
  BY <1>1 DEF IInv, SnapshotsOK
<1>5. /\ life'[s] = "up" /\ rows'[s] = file /\ next'[s] = Len(file)
      /\ \A r \in Servers \ {s} : life'[r] = life[r] /\ rows'[r] = rows[r] /\ next'[r] = next[r]
  BY <1>1, <1>2 DEF IInv, BusTyped
<1>6. \A r \in Servers : life[r] # "up" /\ inflight[r] = Nobody
  BY <1>1, BusAssumption DEF IInv, ServerOK
<1>7. ASSUME NEW r \in Servers PROVE ServerOK(r)'
  <2>1. inflight'[r] = Nobody /\ life[r] # "up"
    BY <1>1, <1>6
  <2>2. CASE r = s
    BY <1>1, <1>2, <1>5, <2>1, <2>2 DEF ServerOK, Committing
  <2>3. CASE r # s
    <3>1. life'[r] # "up"
      BY <1>5, <2>1, <2>3
    <3>. QED  BY <2>1, <3>1 DEF ServerOK
  <2>. QED  BY <2>2, <2>3
<1>8. \A q \in requests : q.parent = Nobody
  BY <1>6 DEF IInv, RequestOK, BusTyped, Request
<1>9. \A q \in requests' : RequestOK(q)'
  BY <1>1, <1>8 DEF RequestOK
<1>10. \A r \in Readers : ReaderOK(r)'
  BY <1>1, ReadersStay DEF reader
<1>. QED  BY <1>3, <1>4, <1>7, <1>9, <1>10 DEF IInv

(***************************************************************************)
(* Whatever stops, what is on disk needs to be in order only.              *)
(***************************************************************************)
LEMMA GoneStep ==
  ASSUME IInv, NEW dead \in SUBSET Servers, Gone(dead),
         \/ file' = file /\ survivors' = survivors
         \/ dead = Servers /\ file' \in survivors /\ survivors' = {file'},
         UNCHANGED <<call, tries, reader, acked>>
  PROVE  IInv'
<1>1. BusTyped /\ SnapshotsOK
  BY DEF IInv
<1>2. /\ \A s \in dead : life'[s] = "down" /\ inflight'[s] = Nobody
      /\ \A s \in Servers \ dead : life'[s] = life[s] /\ inflight'[s] = inflight[s]
                                /\ rows'[s] = rows[s] /\ next'[s] = next[s]
      /\ owner \notin dead => owner' = owner
      /\ requests' = {q \in requests : q.at \notin dead}
  BY DEF Gone
<1>3. /\ life' \in [Servers -> {"down", "loading", "up"}]
      /\ rows' \in [Servers -> Seq(Row)] /\ next' \in [Servers -> Nat]
      /\ inflight' \in [Servers -> Publication \cup {Nobody}]
      /\ owner' \in Servers \cup {Nobody}
  <2>1. << >> \in Seq(Row)
    OBVIOUS
  <2>2. /\ life \in [Servers -> {"down", "loading", "up"}]
        /\ rows \in [Servers -> Seq(Row)] /\ next \in [Servers -> Nat]
        /\ inflight \in [Servers -> Publication \cup {Nobody}]
        /\ owner \in Servers \cup {Nobody}
    BY <1>1 DEF BusTyped
  <2>3. life' \in [Servers -> {"down", "loading", "up"}]
    BY <2>2 DEF Gone
  <2>4. rows' \in [Servers -> Seq(Row)]
    BY <2>1, <2>2 DEF Gone
  <2>5. next' \in [Servers -> Nat]
    BY <2>2 DEF Gone
  <2>6. inflight' \in [Servers -> Publication \cup {Nobody}]
    BY <2>2 DEF Gone
  <2>7. owner' \in Servers \cup {Nobody}
    BY <2>2 DEF Gone
  <2>. QED  BY <2>3, <2>4, <2>5, <2>6, <2>7
<1>4. file' \in Seq(Row) /\ survivors' \subseteq Seq(Row)
  BY <1>1 DEF BusTyped
<1>5. BusTyped'
  BY <1>1, <1>2, <1>3, <1>4 DEF BusTyped, reader
<1>6. SnapshotsOK'
  <2>1. CASE file' = file /\ survivors' = survivors
    BY <1>1, <2>1 DEF SnapshotsOK
  <2>2. CASE file' \in survivors /\ survivors' = {file'}
    <3>1. Len(file') \in Nat /\ IsPrefix(file', file') /\ Len(file') <= Len(file')
      BY <1>4 DEF IsPrefix
    <3>. QED  BY <1>1, <2>2, <3>1 DEF SnapshotsOK
  <2>. QED  BY <2>1, <2>2
<1>7. ASSUME NEW s \in Servers PROVE ServerOK(s)'
  <2>1. CASE s \in dead
    BY <1>2, <2>1 DEF ServerOK
  <2>2. CASE s \notin dead
    <3>1. file' = file /\ survivors' = survivors
      BY <2>2
    <3>2. /\ life'[s] = life[s] /\ inflight'[s] = inflight[s]
          /\ rows'[s] = rows[s] /\ next'[s] = next[s]
      BY <1>2, <2>2
    <3>3. ServerOK(s) /\ (life[s] = "up" => owner' = owner)
      BY <1>2, <2>2 DEF IInv, ServerOK
    <3>. QED  BY <3>1, <3>2, <3>3 DEF ServerOK, Committing, Numbered
  <2>. QED  BY <2>1, <2>2
<1>8. ASSUME NEW q \in requests' PROVE RequestOK(q)'
  <2>1. q \in requests /\ q.at \in Servers \ dead /\ RequestOK(q)
    BY <1>1, <1>2 DEF IInv, BusTyped, Request
  <2>. QED  BY <1>2, <2>1 DEF RequestOK
<1>9. \A r \in Readers : ReaderOK(r)'
  BY ReadersStay
<1>. QED  BY <1>5, <1>6, <1>7, <1>8, <1>9 DEF IInv

LEMMA ExitStep ==
  ASSUME IInv, NEW s \in Servers, Exit(s) PROVE IInv'
<1>1. Gone({s}) /\ file' = file /\ survivors' = survivors /\ UNCHANGED <<call, tries, reader, acked>>
  BY DEF Exit, disk
<1>. QED  BY <1>1, GoneStep

LEMMA PowerLossStep == ASSUME IInv, PowerLoss PROVE IInv'
BY GoneStep DEF PowerLoss

-----------------------------------------------------------------------------
(***************************************************************************)
(* A publication.                                                          *)
(***************************************************************************)
LEMMA AllocateStep ==
  ASSUME IInv, NEW s \in Servers, NEW q \in requests, Allocate(s, q) PROVE IInv'
<1>. DEFINE chosen == [request |-> q, batch |-> Numbered(s, q), renamed |-> FALSE]
<1>1. /\ q.at = s /\ life[s] = "up" /\ inflight[s] = Nobody
      /\ inflight' = [inflight EXCEPT ![s] = chosen]
      /\ file' = file /\ survivors' = survivors /\ owner' = owner /\ life' = life
      /\ rows' = rows /\ next' = next /\ acked' = acked /\ requests' = requests
      /\ call' = call /\ tries' = tries /\ seen' = seen /\ cursor' = cursor
  BY DEF Allocate, Ready, disk, client, reader
<1>2. BusTyped /\ q \in Request /\ RequestOK(q) /\ ServerOK(s)
  BY DEF IInv, BusTyped
<1>3. Numbered(s, q) \in Seq(Row)
  <2>1. Size(q.by) \in Nat /\ next[s] \in Nat /\ q.by \in Clients /\ q.parent \in RowId \cup {Nobody}
    BY <1>2, BusAssumption DEF Size, Clients, Request, BusTyped
  <2>2. \A i \in 1 .. Size(q.by) :
          [seq |-> next[s] + i, by |-> q.by, part |-> i, parent |-> q.parent] \in Row
    BY <2>1 DEF Row
  <2>. QED  BY <2>1, <2>2 DEF Numbered
<1>4. chosen \in Publication
  BY <1>2, <1>3 DEF Publication
<1>5. chosen.request = q /\ chosen.batch = Numbered(s, q) /\ ~chosen.renamed
  OBVIOUS
<1>. HIDE DEF chosen
<1>6. BusTyped'
  BY <1>1, <1>2, <1>4 DEF BusTyped
<1>7. SnapshotsOK'
  BY <1>1 DEF IInv, SnapshotsOK
<1>8. inflight'[s] = chosen /\ \A r \in Servers \ {s} : inflight'[r] = inflight[r]
  BY <1>1, <1>2 DEF BusTyped
<1>9. ASSUME NEW r \in Servers PROVE ServerOK(r)'
  <2>1. CASE r = s
    <3>1. ~Committing(s) /\ ~Committing(s)'
      BY <1>1, <1>5, <1>8 DEF Committing
    <3>2. /\ owner' = s /\ next'[s] = Len(rows'[s]) /\ rows'[s] \in survivors' /\ file' = rows'[s]
      BY <1>1, <1>2, <3>1 DEF ServerOK
    <3>3. q.parent # Nobody => \E p \in RowsOf(rows'[s]) : Id(p) = q.parent
      BY <1>1, <1>2 DEF RequestOK
    <3>4. chosen.batch = Numbered(s, q)'
      BY <1>1, <1>5 DEF Numbered
    <3>. QED  BY <1>1, <1>5, <1>8, <2>1, <3>1, <3>2, <3>3, <3>4 DEF ServerOK
  <2>2. CASE r # s
    <3>1. ServerOK(r) /\ inflight'[r] = inflight[r]
      BY <1>8, <2>2 DEF IInv
    <3>. QED  BY <1>1, <3>1 DEF ServerOK, Committing, Numbered
  <2>. QED  BY <2>1, <2>2
<1>10. \A x \in requests' : RequestOK(x)'
  BY <1>1 DEF IInv, RequestOK
<1>11. \A r \in Readers : ReaderOK(r)'
  BY <1>1, ReadersStay DEF reader
<1>. QED  BY <1>6, <1>7, <1>9, <1>10, <1>11 DEF IInv

LEMMA WriteFailsStep ==
  ASSUME IInv, NEW s \in Servers, WriteFails(s) PROVE IInv'
<1>1. /\ inflight[s] # Nobody /\ ~inflight[s].renamed
      /\ inflight' = [inflight EXCEPT ![s] = Nobody]
      /\ Answer(inflight[s].request, "idle")
      /\ file' = file /\ survivors' = survivors /\ owner' = owner /\ life' = life
      /\ rows' = rows /\ next' = next /\ acked' = acked
      /\ seen' = seen /\ cursor' = cursor
  BY DEF WriteFails, disk, reader
<1>2. /\ requests' \subseteq requests /\ tries' = tries
      /\ call' \in [Clients -> {"idle", "waiting", "acked"}]
  BY <1>1, Publishing, Answered DEF Request
<1>3. BusTyped'
  BY <1>1, <1>2 DEF IInv, BusTyped
<1>4. SnapshotsOK'
  BY <1>1 DEF IInv, SnapshotsOK
<1>5. inflight'[s] = Nobody /\ \A r \in Servers \ {s} : inflight'[r] = inflight[r]
  BY <1>1 DEF IInv, BusTyped
<1>6. ASSUME NEW r \in Servers PROVE ServerOK(r)'
  <2>1. ServerOK(r)
    BY DEF IInv
  <2>2. CASE r = s
    BY <1>1, <1>5, <2>1, <2>2 DEF ServerOK, Committing
  <2>3. CASE r # s
    <3>1. inflight'[r] = inflight[r]
      BY <1>5, <2>3
    <3>. QED  BY <1>1, <2>1, <3>1 DEF ServerOK, Committing, Numbered
  <2>. QED  BY <2>2, <2>3
<1>7. \A x \in requests' : RequestOK(x)'
  BY <1>1, <1>2 DEF IInv, RequestOK
<1>8. \A r \in Readers : ReaderOK(r)'
  BY <1>1, ReadersStay DEF reader
<1>. QED  BY <1>3, <1>4, <1>6, <1>7, <1>8 DEF IInv

(***************************************************************************)
(* The new snapshot is in order as the old one was: its numbers go on, its *)
(* last batch is there as a whole, and so is the parent it was bred from.  *)
(***************************************************************************)
LEMMA NewSnapshot ==
  ASSUME IInv, NEW s \in Servers, inflight[s] # Nobody
  PROVE  /\ rows[s] \o inflight[s].batch \in Seq(Row)
         /\ Gapless(rows[s] \o inflight[s].batch)
         /\ Whole(rows[s] \o inflight[s].batch)
         /\ Parented(rows[s] \o inflight[s].batch)
<1>. DEFINE old == rows[s]  batch == inflight[s].batch  q == inflight[s].request
            new == old \o batch
<1>1. /\ life[s] = "up" /\ batch \in Seq(Row) /\ q \in Request
      /\ batch = Numbered(s, q) /\ Len(batch) = Size(q.by) /\ Size(q.by) \in Nat \ {0}
  BY Publishing
<1>2. /\ old \in Seq(Row) /\ next[s] = Len(old) /\ Len(old) \in Nat
      /\ Gapless(old) /\ Whole(old) /\ Parented(old)
  BY <1>1, UpServer
<1>3. \A i \in 1 .. Size(q.by) :
        batch[i].seq = Len(old) + i /\ batch[i].by = q.by /\ batch[i].part = i
        /\ batch[i].parent = q.parent
  BY <1>1, <1>2 DEF Numbered
<1>4. q.parent # Nobody => \E p \in RowsOf(old) : Id(p) = q.parent
  BY DEF IInv, ServerOK
<1>. HIDE DEF old, batch, q, new
<1>5. /\ new \in Seq(Row) /\ Len(new) = Len(old) + Len(batch)
      /\ \A i \in 1 .. Len(old) : new[i] = old[i]
      /\ \A i \in 1 .. Len(batch) : new[Len(old) + i] = batch[i]
      /\ RowsOf(new) = RowsOf(old) \cup RowsOf(batch)
  BY <1>1, <1>2, ConcatRows DEF new
<1>6. ASSUME NEW row \in RowsOf(batch) PROVE \E i \in 1 .. Size(q.by) : row = batch[i]
  BY <1>1, RowOf
<1>7. Gapless(new)
  <2>. SUFFICES ASSUME NEW i \in 1 .. Len(old) + Len(batch) PROVE new[i].seq = i
    BY <1>5 DEF Gapless
  <2>1. CASE i <= Len(old)
    BY <1>2, <1>5, <2>1 DEF Gapless
  <2>2. CASE i > Len(old)
    <3>1. i - Len(old) \in 1 .. Len(batch) /\ i = Len(old) + (i - Len(old))
      BY <1>1, <1>2, <2>2
    <3>. QED  BY <1>1, <1>3, <1>5, <3>1
  <2>. QED  BY <1>2, <2>1, <2>2
<1>8. Whole(new)
  <2>1. ASSUME NEW row \in RowsOf(old), NEW i \in 1 .. Size(row.by)
        PROVE  \E other \in RowsOf(new) : other.by = row.by /\ other.part = i
                                       /\ other.seq = row.seq + i - row.part
    BY <1>2, <1>5 DEF Whole
  <2>2. ASSUME NEW row \in RowsOf(batch), NEW i \in 1 .. Size(row.by)
        PROVE  \E other \in RowsOf(new) : other.by = row.by /\ other.part = i
                                       /\ other.seq = row.seq + i - row.part
    <3>1. PICK j \in 1 .. Size(q.by) : row = batch[j]
      BY <1>6
    <3>2. i \in 1 .. Size(q.by) /\ batch[i] \in RowsOf(batch)
      BY <1>1, <1>3, <3>1 DEF RowsOf
    <3>3. /\ batch[i].by = row.by /\ batch[i].part = i
          /\ batch[i].seq = row.seq + i - row.part
      BY <1>1, <1>2, <1>3, <3>1, <3>2
    <3>. QED  BY <1>5, <3>2, <3>3
  <2>. QED  BY <1>5, <2>1, <2>2 DEF Whole
<1>9. Parented(new)
  <2>1. ASSUME NEW row \in RowsOf(old), row.parent # Nobody
        PROVE  row.parent.seq < row.seq /\ \E p \in RowsOf(new) : Id(p) = row.parent
    BY <1>2, <1>5, <2>1 DEF Parented
  <2>2. ASSUME NEW row \in RowsOf(batch), row.parent # Nobody
        PROVE  row.parent.seq < row.seq /\ \E p \in RowsOf(new) : Id(p) = row.parent
    <3>1. PICK j \in 1 .. Size(q.by) : row = batch[j]
      BY <1>6
    <3>2. row.parent = q.parent /\ row.seq = Len(old) + j
      BY <1>3, <3>1
    <3>3. PICK p \in RowsOf(old) : Id(p) = q.parent
      BY <1>4, <2>2, <3>2
    <3>4. p.seq \in 1 .. Len(old) /\ row.parent.seq = p.seq
      BY <1>2, <3>2, <3>3, GaplessRows DEF Id
    <3>5. row.parent.seq < row.seq
      BY <1>1, <1>2, <3>1, <3>2, <3>4
    <3>. QED  BY <1>5, <3>2, <3>3, <3>5
  <2>. QED  BY <1>5, <2>1, <2>2 DEF Parented
<1>. QED  BY <1>5, <1>7, <1>8, <1>9 DEF new, old, batch

LEMMA RenameStep ==
  ASSUME IInv, NEW s \in Servers, Rename(s) PROVE IInv'
<1>. DEFINE new == rows[s] \o inflight[s].batch
<1>1. /\ inflight[s] # Nobody /\ ~inflight[s].renamed
      /\ file' = new /\ survivors' = survivors \cup {new}
      /\ inflight' = [inflight EXCEPT ![s].renamed = TRUE]
      /\ owner' = owner /\ life' = life
      /\ rows' = rows /\ next' = next /\ acked' = acked /\ requests' = requests
      /\ call' = call /\ tries' = tries /\ seen' = seen /\ cursor' = cursor
  BY DEF Rename, client, reader
<1>2. BusTyped /\ SnapshotsOK /\ ServerOK(s)
  BY DEF IInv
<1>3. /\ life[s] = "up" /\ inflight[s] \in Publication /\ inflight[s].batch \in Seq(Row)
      /\ Len(inflight[s].batch) \in Nat
  BY <1>1, Publishing
<1>4. rows[s] \in Seq(Row) /\ Len(rows[s]) \in Nat
  BY <1>3, UpServer
<1>5. file = rows[s]
  BY <1>1, <1>2, <1>3 DEF ServerOK, Committing
<1>6. new \in Seq(Row) /\ Gapless(new) /\ Whole(new) /\ Parented(new)
  BY <1>1, NewSnapshot
<1>7. /\ Len(new) = Len(file) + Len(inflight[s].batch)
      /\ RowsOf(file) \subseteq RowsOf(new)
      /\ \A u \in Seq(Row) : IsPrefix(u, file) => IsPrefix(u, new)
  BY <1>3, <1>4, <1>5, ConcatRows
<1>. HIDE DEF new
<1>8. inflight'[s] = [inflight[s] EXCEPT !.renamed = TRUE]
      /\ \A r \in Servers \ {s} : inflight'[r] = inflight[r]
  BY <1>1, <1>2 DEF BusTyped
<1>9. /\ inflight'[s] \in Publication /\ inflight'[s].renamed
      /\ inflight'[s].batch = inflight[s].batch /\ inflight'[s].request = inflight[s].request
  BY <1>3, <1>8 DEF Publication
<1>10. BusTyped'
  <2>1. inflight' \in [Servers -> Publication \cup {Nobody}]
    BY <1>1, <1>2, <1>8, <1>9 DEF BusTyped
  <2>. QED  BY <1>1, <1>2, <1>6, <2>1 DEF BusTyped
<1>11. SnapshotsOK'
  <2>1. ASSUME NEW v \in survivors
        PROVE  IsPrefix(v, new) /\ acked \subseteq RowsOf(v) /\ Gapless(v) /\ Whole(v) /\ Parented(v)
    BY <1>2, <1>7 DEF SnapshotsOK, BusTyped
  <2>2. IsPrefix(new, new) /\ acked \subseteq RowsOf(new)
    BY <1>2, <1>6, <1>7 DEF SnapshotsOK, IsPrefix
  <2>3. PICK v \in survivors : \A w \in survivors : Len(v) <= Len(w)
    BY <1>2 DEF SnapshotsOK
  <2>4. Len(v) <= Len(new)
    BY <2>1, <2>3 DEF IsPrefix
  <2>. QED  BY <1>1, <1>6, <2>1, <2>2, <2>3, <2>4 DEF SnapshotsOK
<1>12. ASSUME NEW r \in Servers PROVE ServerOK(r)'
  <2>1. CASE r = s
    <3>1. Committing(s)'
      BY <1>3, <1>9, BusAssumption DEF Committing
    <3>2. owner' = s /\ next'[s] = Len(rows'[s]) /\ rows'[s] \in survivors'
          /\ file' = rows'[s] \o inflight'[s].batch
      BY <1>1, <1>2, <1>3, <1>9 DEF ServerOK, new
    <3>3. /\ life'[s] = "up" /\ inflight'[s].batch = Numbered(s, inflight[s].request)'
          /\ inflight'[s].request.parent # Nobody =>
               \E p \in RowsOf(rows'[s]) : Id(p) = inflight'[s].request.parent
      <4>1. /\ inflight[s].batch = Numbered(s, inflight[s].request)
            /\ inflight[s].request.parent # Nobody =>
                 \E p \in RowsOf(rows[s]) : Id(p) = inflight[s].request.parent
        BY <1>1, <1>2 DEF ServerOK
      <4>2. Numbered(s, inflight[s].request)' = Numbered(s, inflight[s].request)
        BY <1>1, <1>9 DEF Numbered
      <4>. QED  BY <1>1, <1>3, <1>9, <4>1, <4>2
    <3>. QED  BY <2>1, <3>1, <3>2, <3>3 DEF ServerOK
  <2>2. CASE r # s
    <3>1. life'[r] # "up" /\ inflight'[r] = Nobody
      BY <1>1, <1>3, <1>8, <2>2, OneServer
    <3>. QED  BY <3>1 DEF ServerOK
  <2>. QED  BY <2>1, <2>2
<1>13. \A x \in requests' : RequestOK(x)'
  BY <1>1 DEF IInv, RequestOK
<1>14. \A r \in Readers : ReaderOK(r)'
  BY <1>1, ReadersStay DEF reader
<1>. QED  BY <1>10, <1>11, <1>12, <1>13, <1>14 DEF IInv

(***************************************************************************)
(* The end of a publication, whether or not its directory was flushed.     *)
(***************************************************************************)
LEMMA Extended ==
  ASSUME IInv, NEW s \in Servers, Committing(s), Extend(s),
         NEW outcome \in {"idle", "acked"}, Answer(inflight[s].request, outcome),
         UNCHANGED <<file, reader>>,
         acked' \subseteq acked \cup RowsOf(inflight[s].batch),
         \/ survivors' = survivors /\ acked' = acked
         \/ survivors' = {file}
  PROVE  IInv'
<1>. DEFINE new == rows[s] \o inflight[s].batch
<1>1. /\ inflight[s] # Nobody /\ rows' = [rows EXCEPT ![s] = new]
      /\ next' = [next EXCEPT ![s] = @ + Len(inflight[s].batch)]
      /\ inflight' = [inflight EXCEPT ![s] = Nobody]
      /\ owner' = owner /\ life' = life /\ file' = file /\ seen' = seen /\ cursor' = cursor
  BY DEF Extend, Committing, reader
<1>2. BusTyped /\ SnapshotsOK /\ ServerOK(s)
  BY DEF IInv
<1>3. /\ life[s] = "up" /\ inflight[s].batch \in Seq(Row) /\ Len(inflight[s].batch) \in Nat
      /\ inflight[s].request \in Request
  BY <1>1, Publishing
<1>4. rows[s] \in Seq(Row) /\ Len(rows[s]) \in Nat /\ next[s] = Len(rows[s]) /\ owner = s
  BY <1>3, UpServer
<1>5. file = new
  BY <1>2, <1>3 DEF ServerOK
<1>6. /\ new \in Seq(Row) /\ Len(new) = Len(rows[s]) + Len(inflight[s].batch)
      /\ RowsOf(new) = RowsOf(rows[s]) \cup RowsOf(inflight[s].batch)
  BY <1>3, <1>4, ConcatRows
<1>. HIDE DEF new
<1>7. /\ rows'[s] = new /\ next'[s] = Len(new) /\ inflight'[s] = Nobody
      /\ \A r \in Servers \ {s} : rows'[r] = rows[r] /\ next'[r] = next[r] /\ inflight'[r] = inflight[r]
  BY <1>1, <1>2, <1>4, <1>6 DEF BusTyped
<1>8. /\ requests' \subseteq requests /\ tries' = tries
      /\ call' \in [Clients -> {"idle", "waiting", "acked"}]
  BY <1>3, Answered DEF Request
<1>9. RowsOf(inflight[s].batch) \subseteq Row
  BY <1>3, RowOf
<1>10. survivors' \subseteq survivors /\ file \in survivors'
  BY <1>2 DEF SnapshotsOK
<1>11. BusTyped'
  <2>1. rows' \in [Servers -> Seq(Row)]
    BY <1>1, <1>2, <1>6 DEF BusTyped
  <2>2. next' \in [Servers -> Nat]
    BY <1>1, <1>2, <1>3 DEF BusTyped
  <2>3. inflight' \in [Servers -> Publication \cup {Nobody}]
    BY <1>1, <1>2 DEF BusTyped
  <2>. QED  BY <1>1, <1>2, <1>8, <1>9, <1>10, <2>1, <2>2, <2>3 DEF BusTyped
<1>12. SnapshotsOK'
  <2>1. \A v \in survivors' : acked' \subseteq RowsOf(v)
    BY <1>2, <1>5, <1>6 DEF SnapshotsOK
  <2>2. \E v \in survivors' : \A w \in survivors' : Len(v) <= Len(w)
    <3>1. CASE survivors' = survivors
      BY <1>2, <3>1 DEF SnapshotsOK
    <3>2. CASE survivors' = {file}
      BY <1>5, <1>6, <3>2
    <3>. QED  BY <3>1, <3>2
  <2>. QED  BY <1>1, <1>2, <1>10, <2>1, <2>2 DEF SnapshotsOK
<1>13. ASSUME NEW r \in Servers PROVE ServerOK(r)'
  <2>1. CASE r = s
    BY <1>1, <1>4, <1>5, <1>7, <1>10, <2>1 DEF ServerOK, Committing
  <2>2. CASE r # s
    <3>1. life'[r] # "up" /\ inflight'[r] = Nobody
      BY <1>1, <1>3, <1>7, <2>2, OneServer
    <3>. QED  BY <3>1 DEF ServerOK
  <2>. QED  BY <2>1, <2>2
<1>14. ASSUME NEW x \in requests' PROVE RequestOK(x)'
  <2>1. x \in requests /\ x.at \in Servers /\ RequestOK(x)
    BY <1>2, <1>8 DEF IInv, BusTyped, Request
  <2>2. RowsOf(rows[x.at]) \subseteq RowsOf(rows'[x.at])
    BY <1>6, <1>7, <2>1
  <2>. QED  BY <1>1, <2>1, <2>2 DEF RequestOK
<1>15. \A r \in Readers : ReaderOK(r)'
  BY ReadersStay
<1>. QED  BY <1>11, <1>12, <1>13, <1>14, <1>15 DEF IInv

LEMMA FlushStep == ASSUME IInv, NEW s \in Servers, Flush(s) PROVE IInv'
<1>1. /\ Committing(s) /\ Extend(s) /\ Answer(inflight[s].request, "acked")
      /\ UNCHANGED <<file, reader>> /\ survivors' = {file}
      /\ acked' = acked \cup RowsOf(inflight[s].batch)
  BY DEF Flush, Committing
<1>. QED  BY <1>1, Extended

LEMMA FlushFailsStep == ASSUME IInv, NEW s \in Servers, FlushFails(s) PROVE IInv'
<1>1. /\ Committing(s) /\ Extend(s) /\ Answer(inflight[s].request, "idle")
      /\ UNCHANGED <<file, reader>> /\ survivors' = survivors /\ acked' = acked
  BY DEF FlushFails, Committing, disk
<1>. QED  BY <1>1, Extended

LEMMA Stuttering == ASSUME IInv, UNCHANGED busVars PROVE IInv'
<1>1. UNCHANGED <<disk, server, acked, requests, call, tries, seen, cursor>>
  BY DEF busVars, disk, server
<1>2. BusTyped'
  BY <1>1 DEF IInv, BusTyped, disk, server
<1>3. \A q \in requests' : RequestOK(q)
  BY <1>1 DEF IInv
<1>4. UNCHANGED reader
  BY <1>1 DEF reader
<1>. QED  BY <1>1, <1>2, <1>3, <1>4, ReadersStay, Quiet

LEMMA BusStep == IInv /\ [BusNext]_busVars => IInv'
<1>. SUFFICES ASSUME IInv, [BusNext]_busVars PROVE IInv'
  OBVIOUS
<1>1. ASSUME NEW s \in Servers, Start(s) \/ Load(s) \/ Exit(s) PROVE IInv'
  BY <1>1, StartStep, LoadStep, ExitStep
<1>2. ASSUME NEW s \in Servers, Serve(s) PROVE IInv'
  BY <1>2, BreedStep, RefuseStep, AllocateStep, WriteFailsStep, RenameStep, FlushStep,
     FlushFailsStep DEF Serve
<1>3. CASE Use
  BY <1>3, SendStep, GiveUpStep, GetStep DEF Use
<1>4. CASE PowerLoss
  BY <1>4, PowerLossStep
<1>5. CASE UNCHANGED busVars
  BY <1>5, Stuttering
<1>. QED  BY <1>1, <1>2, <1>3, <1>4, <1>5 DEF BusNext

-----------------------------------------------------------------------------
(***************************************************************************)
(* How the bus comes to be served: each step is one of the bus, or leaves  *)
(* it alone.                                                               *)
(***************************************************************************)
LEMMA ManagedInitially == Init => ManagedOK
BY DEF Init, ManagedOK

LEMMA Closed ==
  ASSUME ManagedOK, NEW dead \in SUBSET Servers, Close(dead)
  PROVE  /\ stage' \in [Servers -> {"off", "spawned", "tcp", "locked", "replacing", "clear",
                                    "bound", "gone"}]
         /\ \A s \in Servers :
              /\ stage'[s] \in {"locked", "replacing", "clear", "bound"} => socketLock' = s
              /\ stage'[s] = "bound" => socket' = s
BY DEF ManagedOK, Close

LEMMA EnsureStep ==
  ASSUME ManagedOK, NEW u \in Starters, Ensure(u)
  PROVE  ManagedOK' /\ (BusNext \/ UNCHANGED busVars)
<1>. USE DEF ManagedOK
<1>1. CASE LockStartup(u)
  BY <1>1 DEF LockStartup, endpoint
<1>2. CASE GiveIn(u)
  BY <1>2 DEF GiveIn, Leave, endpoint
<1>3. CASE Probe(u)
  BY <1>3 DEF Probe, Listening, endpoint
<1>4. CASE Ask(u)
  BY <1>4 DEF Ask, Leave, endpoint
<1>5. ASSUME NEW s \in Servers, StartChild(u, s) PROVE ManagedOK' /\ BusNext
  <2>1. BusNext
    BY <1>5 DEF StartChild, Spawn, BusNext
  <2>. QED  BY <1>5, <2>1 DEF StartChild, Spawn, ToStage
<1>6. CASE Poll(u)
  BY <1>6 DEF Poll, Leave, endpoint
<1>7. CASE KillChild(u)
  <2>1. peer[u] \in Servers /\ Leave(u)
    BY <1>7 DEF KillChild
  <2>2. CASE UNCHANGED <<busVars, endpoint>>
    BY <2>1, <2>2 DEF Leave, endpoint
  <2>3. CASE Exit(peer[u]) /\ Close({peer[u]})
    <3>1. BusNext
      BY <2>1, <2>3 DEF BusNext
    <3>2. {peer[u]} \in SUBSET Servers
      BY <2>1
    <3>3. /\ stage' \in [Servers -> {"off", "spawned", "tcp", "locked", "replacing", "clear",
                                    "bound", "gone"}]
         /\ \A s \in Servers :
              /\ stage'[s] \in {"locked", "replacing", "clear", "bound"} => socketLock' = s
              /\ stage'[s] = "bound" => socket' = s
      BY <2>3, <3>2, Closed
    <3>. QED  BY <2>1, <3>1, <3>3 DEF Leave
  <2>. QED  BY <1>7, <2>2, <2>3 DEF KillChild
<1>. QED  BY <1>1, <1>2, <1>3, <1>4, <1>5, <1>6, <1>7 DEF Ensure

LEMMA ServeSocketStep ==
  ASSUME ManagedOK, NEW s \in Servers, ServeSocket(s)
  PROVE  ManagedOK' /\ (BusNext \/ UNCHANGED busVars)
<1>. USE DEF ManagedOK
<1>1. CASE LockSocket(s)
  BY <1>1, BusAssumption DEF LockSocket, ToStage, starting
<1>2. CASE CheckSocket(s)
  BY <1>2 DEF CheckSocket, ToStage, starting
<1>3. CASE RemoveSocket(s)
  BY <1>3 DEF RemoveSocket, ToStage, starting
<1>4. CASE Bind(s)
  BY <1>4 DEF Bind, ToStage, starting
<1>5. CASE LoadSnapshot(s)
  <2>1. BusNext
    BY <1>5 DEF LoadSnapshot, BusNext
  <2>. QED  BY <1>5, <2>1 DEF LoadSnapshot, endpoint, starting
<1>6. CASE Die(s)
  <2>1. BusNext
    BY <1>6 DEF Die, BusNext
  <2>2. Close({s}) /\ UNCHANGED starting /\ {s} \in SUBSET Servers
    BY <1>6 DEF Die
  <2>3. /\ stage' \in [Servers -> {"off", "spawned", "tcp", "locked", "replacing", "clear",
                                  "bound", "gone"}]
        /\ \A r \in Servers :
             /\ stage'[r] \in {"locked", "replacing", "clear", "bound"} => socketLock' = r
             /\ stage'[r] = "bound" => socket' = r
    BY <2>2, Closed
  <2>. QED  BY <2>1, <2>2, <2>3 DEF starting
<1>7. CASE StartByHand(s)
  <2>1. BusNext
    BY <1>7 DEF StartByHand, BusNext
  <2>. QED  BY <1>7, <2>1 DEF StartByHand, ToStage, starting
<1>. QED  BY <1>1, <1>2, <1>3, <1>4, <1>5, <1>6, <1>7 DEF ServeSocket

LEMMA ManagedStep ==
  ManagedOK /\ [Next]_vars => ManagedOK' /\ [BusNext]_busVars
<1>. SUFFICES ASSUME ManagedOK, [Next]_vars PROVE ManagedOK' /\ [BusNext]_busVars
  OBVIOUS
<1>1. CASE \E u \in Starters : Ensure(u)
  BY <1>1, EnsureStep
<1>2. CASE \E s \in Servers : ServeSocket(s)
  BY <1>2, ServeSocketStep
<1>3. CASE Used
  <2>1. BusNext
    BY <1>3 DEF Used, BusNext, Use
  <2>. QED  BY <1>3, <2>1 DEF Used, ManagedOK, endpoint, starting
<1>4. CASE Blackout
  <2>1. BusNext
    BY <1>4 DEF Blackout, BusNext
  <2>2. Close({s \in Servers : stage[s] # "off"}) /\ {s \in Servers : stage[s] # "off"} \in SUBSET Servers
    BY <1>4 DEF Blackout
  <2>3. /\ stage' \in [Servers -> {"off", "spawned", "tcp", "locked", "replacing", "clear",
                                  "bound", "gone"}]
        /\ \A r \in Servers :
             /\ stage'[r] \in {"locked", "replacing", "clear", "bound"} => socketLock' = r
             /\ stage'[r] = "bound" => socket' = r
    BY <2>2, Closed
  <2>. QED  BY <1>4, <2>1, <2>3 DEF Blackout, ManagedOK
<1>5. CASE UNCHANGED vars
  BY <1>5 DEF vars, endpoint, starting, ManagedOK
<1>. QED  BY <1>1, <1>2, <1>3, <1>4, <1>5 DEF Next

(***************************************************************************)
(* The invariant of the bus, and of the processes that come to serve it.   *)
(***************************************************************************)
THEOREM Invariant == Spec => [](IInv /\ ManagedOK)
<1>1. Init => IInv /\ ManagedOK
  BY Initially, ManagedInitially DEF Init
<1>2. IInv /\ ManagedOK /\ [Next]_vars => (IInv /\ ManagedOK)'
  BY ManagedStep, BusStep
<1>. QED  BY <1>1, <1>2, PTL DEF Spec

(***************************************************************************)
(* A server that is bound to the socket's path keeps the path: serve_uds   *)
(* removes a path and binds it under the lock that the bound server holds. *)
(***************************************************************************)
THEOREM SocketIsKept == Spec => []NobodyStranded
<1>1. ManagedOK => NobodyStranded
  BY DEF ManagedOK, NobodyStranded
<1>. QED  BY <1>1, Invariant, PTL

(***************************************************************************)
(* A row whose publication was acknowledged is in every snapshot that a    *)
(* crash of the server or of the machine may leave (append_durable).       *)
(***************************************************************************)
THEOREM AcknowledgedSurvives == Spec => []AckedIsDurable
<1>1. IInv => AckedIsDurable
  BY DEF IInv, SnapshotsOK, AckedIsDurable
<1>. QED  BY <1>1, Invariant, PTL

(***************************************************************************)
(* The parent of an offspring survives whatever its offspring survives,    *)
(* although evolve chooses it from a copy of the rows.                     *)
(***************************************************************************)
THEOREM ParentsSurvive == Spec => []OffspringKeepParents
<1>1. IInv => OffspringKeepParents
  BY DEF IInv, SnapshotsOK, Parented, OffspringKeepParents
<1>. QED  BY <1>1, Invariant, PTL

(***************************************************************************)
(* Memory and snapshot agree, snapshots are prefixes of each other with    *)
(* numbers that go up from one, and batches are published as a whole.      *)
(***************************************************************************)
THEOREM SnapshotIsMemory == Spec => []BusInv
<1>1. ASSUME IInv PROVE BusInv
  <2>1. BusTyped /\ SnapshotsOK
    BY <1>1 DEF IInv
  <2>2. SurvivorsArePrefixes
    BY <2>1 DEF SnapshotsOK, SurvivorsArePrefixes
  <2>3. BatchesAreWhole
    BY <2>1 DEF SnapshotsOK, Whole, BatchesAreWhole
  <2>4. ASSUME NEW s \in Servers, inflight[s] # Nobody
        PROVE  /\ inflight[s].batch # << >>
               /\ IsPrefix(rows[s], rows[s] \o inflight[s].batch)
               /\ \A i \in DOMAIN inflight[s].batch : inflight[s].batch[i].seq = next[s] + i
    <3>1. /\ life[s] = "up" /\ inflight[s].batch \in Seq(Row)
          /\ inflight[s].batch = Numbered(s, inflight[s].request)
          /\ Len(inflight[s].batch) = Size(inflight[s].request.by)
          /\ Size(inflight[s].request.by) \in Nat \ {0}
      BY <1>1, <2>4, Publishing
    <3>2. rows[s] \in Seq(Row) /\ IsPrefix(rows[s], rows[s])
      BY <1>1, <3>1, UpServer DEF IsPrefix
    <3>3. IsPrefix(rows[s], rows[s] \o inflight[s].batch)
      BY <3>1, <3>2, ConcatRows
    <3>4. inflight[s].batch # << >>
      BY <3>1
    <3>5. \A i \in DOMAIN inflight[s].batch : inflight[s].batch[i].seq = next[s] + i
      BY <3>1 DEF Numbered
    <3>. QED  BY <3>3, <3>4, <3>5
  <2>5. MemoryIsSnapshot
    BY <1>1, <2>4 DEF IInv, ServerOK, MemoryIsSnapshot
  <2>6. Numbering
    BY <2>1, <2>4 DEF SnapshotsOK, Gapless, Numbering
  <2>. QED  BY <2>2, <2>3, <2>5, <2>6 DEF BusInv
<1>. QED  BY <1>1, Invariant, PTL

(***************************************************************************)
(* A reader that follows the numbers with a cursor (since_seq of do_get)   *)
(* misses no acknowledged row.                                             *)
(***************************************************************************)
THEOREM NothingPassedBy == Spec => []CursorTellsAll
<1>1. ASSUME IInv PROVE CursorTellsAll
  <2>. SUFFICES ASSUME NEW r \in Readers, NEW row \in acked, row.seq <= cursor[r], row \notin seen[r]
                PROVE  \E other \in seen[r] \ acked : other.seq = row.seq
    BY DEF CursorTellsAll
  <2>1. file \in Seq(Row) /\ Gapless(file) /\ acked \subseteq RowsOf(file)
    BY <1>1 DEF IInv, BusTyped, SnapshotsOK
  <2>2. row.seq \in 1 .. Len(file) /\ file[row.seq] = row /\ Len(file) \in Nat
    BY <2>1, GaplessRows
  <2>3. cursor[r] \in Nat
    BY <1>1 DEF IInv, BusTyped
  <2>4. PICK other \in seen[r] : other.seq = row.seq
    BY <1>1, <2>2, <2>3 DEF IInv, ReaderOK
  <2>5. other \notin acked
    BY <2>1, <2>4, GaplessRows
  <2>. QED  BY <2>4, <2>5
<1>. QED  BY <1>1, Invariant, PTL

-----------------------------------------------------------------------------
(***************************************************************************)
(* The bus implements the log.                                             *)
(***************************************************************************)
LEMMA ShortestOf ==
  ASSUME IInv
  PROVE  /\ Shortest \in Nat /\ Shortest \in {Len(v) : v \in survivors}
         /\ \A v \in survivors : Shortest <= Len(v)
<1>1. survivors \subseteq Seq(Row) /\ \E v \in survivors : \A w \in survivors : Len(v) <= Len(w)
  BY DEF IInv, BusTyped, SnapshotsOK
<1>2. \E n \in {Len(v) : v \in survivors} : \A v \in survivors : n <= Len(v)
  BY <1>1
<1>3. Shortest \in {Len(v) : v \in survivors} /\ \A v \in survivors : Shortest <= Len(v)
  BY <1>2 DEF Shortest
<1>. QED  BY <1>1, <1>3

LEMMA NextShortest ==
  ASSUME IInv', NEW n \in {Len(v) : v \in survivors'}, \A v \in survivors' : n <= Len(v)
  PROVE  Shortest' = n
<1>1. survivors' \subseteq Seq(Row)
  BY DEF IInv, BusTyped
<1>2. Shortest' \in {Len(v) : v \in survivors'} /\ \A v \in survivors' : Shortest' <= Len(v)
  BY DEF Shortest
<1>. QED  BY <1>1, <1>2

LEMMA SameLog ==
  ASSUME UNCHANGED <<disk, acked>>
  PROVE  UNCHANGED <<file, Shortest, LastAcked>>
BY DEF disk, Shortest, LastAcked

LEMMA PrefixIsStart ==
  ASSUME NEW v \in Seq(Row), NEW w \in Seq(Row), IsPrefix(v, w)
  PROVE  v = SubSeq(w, 1, Len(v))
<1>. DEFINE n == Len(v)
<1>1. n \in Nat /\ \A i \in 1 .. n : w[i] = v[i] /\ v[i] \in Row
  BY DEF IsPrefix
<1>. HIDE DEF n
<1>2. \A i \in 1 .. n : w[i] \in Row
  BY <1>1
<1>3. /\ SubSeq(w, 1, n) \in Seq(Row)
      /\ Len(SubSeq(w, 1, n)) = IF 1 <= n THEN n - 1 + 1 ELSE 0
      /\ \A i \in 1 .. n - 1 + 1 : SubSeq(w, 1, n)[i] = w[1 + i - 1]
  BY ONLY <1>1, <1>2, SubSeqProperties
<1>4. SubSeq(w, 1, n) \in Seq(Row) /\ Len(SubSeq(w, 1, n)) = n
      /\ \A i \in 1 .. n : SubSeq(w, 1, n)[i] = v[i]
  BY <1>1, <1>3
<1>5. \A i \in 1 .. Len(v) : v[i] = SubSeq(w, 1, n)[i]
  BY <1>4 DEF n
<1>. QED  BY <1>4, <1>5, SeqEqual DEF n

LEMMA Longer ==
  ASSUME NEW v \in Seq(Row), NEW w \in Seq(Row), Len(w) # 0
  PROVE  /\ v \o w \in Seq(Row) /\ IsPrefix(v, v \o w)
         /\ Len(v) \in Nat /\ Len(v \o w) \in Nat /\ Len(v \o w) > Len(v)
         /\ (v \o w)[Len(v \o w)] = w[Len(w)] /\ w[Len(w)] \in RowsOf(w)
<1>. DEFINE u == v \o w  m == Len(v)  n == Len(w)
<1>1. m \in Nat /\ n \in Nat /\ n # 0 /\ n \in DOMAIN w
  OBVIOUS
<1>2. /\ u \in Seq(Row) /\ Len(u) = m + n /\ \A i \in 1 .. n : u[m + i] = w[i]
      /\ IsPrefix(v, v) => IsPrefix(v, u)
  BY ConcatRows
<1>3. IsPrefix(v, v)
  BY DEF IsPrefix
<1>4. w[n] \in RowsOf(w)
  BY <1>1 DEF RowsOf
<1>. HIDE DEF u, m, n
<1>5. n \in 1 .. n
  BY <1>1
<1>6. u[m + n] = w[n] /\ m + n \in Nat /\ m + n > m
  BY <1>1, <1>2, <1>5
<1>7. Len(u) \in Nat /\ Len(u) > m /\ u[Len(u)] = w[n]
  BY <1>2, <1>6
<1>. QED  BY <1>1, <1>2, <1>3, <1>4, <1>7 DEF u, m, n

LEMMA Committed ==
  ASSUME IInv, NEW s \in Servers, inflight[s] # Nobody
  PROVE  /\ rows[s] \in Seq(Row) /\ inflight[s].batch \in Seq(Row) /\ Len(inflight[s].batch) # 0
         /\ file = IF inflight[s].renamed THEN rows[s] \o inflight[s].batch ELSE rows[s]
<1>1. /\ life[s] = "up" /\ inflight[s].batch \in Seq(Row) /\ Len(inflight[s].batch) # 0
  BY Publishing
<1>. QED  BY <1>1, UpServer DEF IInv, ServerOK, Committing

LEMMA RenamePublishes ==
  ASSUME IInv, IInv', NEW s \in Servers, Rename(s) PROVE DurableLog!Publish
<1>1. /\ inflight[s] # Nobody /\ ~inflight[s].renamed
      /\ file' = rows[s] \o inflight[s].batch /\ survivors' = survivors \cup {file'}
      /\ acked' = acked
  BY DEF Rename
<1>2. /\ file = rows[s] /\ rows[s] \in Seq(Row) /\ inflight[s].batch \in Seq(Row)
      /\ Len(inflight[s].batch) # 0
  BY <1>1, Committed
<1>3. /\ file' \in Seq(Row) /\ file \in Seq(Row) /\ IsPrefix(file, file')
      /\ Len(file) \in Nat /\ Len(file') \in Nat /\ Len(file') > Len(file)
  BY <1>1, <1>2, Longer
<1>4. SubSeq(file', 1, Len(file)) = file
  BY <1>3, PrefixIsStart
<1>5. Shortest' = Shortest
  <2>1. /\ Shortest \in Nat /\ Shortest <= Len(file)
        /\ Shortest \in {Len(v) : v \in survivors'} /\ \A v \in survivors : Shortest <= Len(v)
    BY <1>1, ShortestOf DEF IInv, SnapshotsOK
  <2>2. Shortest <= Len(file')
    BY <1>3, <2>1
  <2>3. \A v \in survivors' : Shortest <= Len(v)
    BY <1>1, <2>1, <2>2
  <2>. QED  BY <2>1, <2>3, NextShortest
<1>6. LastAcked' = LastAcked
  BY <1>1 DEF LastAcked
<1>. QED  BY <1>3, <1>4, <1>5, <1>6 DEF DurableLog!Publish

(***************************************************************************)
(* Once the directory is flushed the last number of the snapshot is the    *)
(* last one that was acknowledged.                                         *)
(***************************************************************************)
LEMMA FlushPromises ==
  ASSUME IInv, IInv', NEW s \in Servers, Flush(s) PROVE DurableLog!Promise
<1>1. /\ inflight[s] # Nobody /\ inflight[s].renamed /\ file' = file /\ survivors' = {file}
      /\ acked' = acked \cup RowsOf(inflight[s].batch)
  BY DEF Flush
<1>2. /\ file = rows[s] \o inflight[s].batch
      /\ rows[s] \in Seq(Row) /\ inflight[s].batch \in Seq(Row) /\ Len(inflight[s].batch) # 0
  BY <1>1, Committed
<1>3. /\ file \in Seq(Row) /\ Len(file) \in Nat /\ Len(rows[s]) \in Nat /\ Len(file) > Len(rows[s])
      /\ file[Len(file)] \in RowsOf(inflight[s].batch)
  BY <1>2, Longer
<1>4. Gapless(file)
  BY DEF IInv, SnapshotsOK
<1>5. Len(file) # 0
  BY <1>3
<1>6. file[Len(file)].seq = Len(file)
  BY <1>3, <1>4, <1>5 DEF Gapless
<1>7. Shortest' = Len(file)
  <2>1. Len(file) \in {Len(v) : v \in survivors'} /\ \A v \in survivors' : Len(file) <= Len(v)
    BY <1>1, <1>3
  <2>. QED  BY <2>1, NextShortest
<1>8. LastAcked' = Len(file)
  <2>1. file[Len(file)] \in acked'
    BY <1>1, <1>3
  <2>2. acked' \subseteq RowsOf(file)
    BY <1>1 DEF IInv, SnapshotsOK
  <2>3. \A row \in acked' : row.seq \in 1 .. Len(file)
    BY <1>3, <1>4, <2>2, GaplessRows
  <2>4. Len(file) \in {row.seq : row \in acked'} /\ \A row \in acked' : row.seq <= Len(file)
    BY <1>3, <1>6, <2>1, <2>3
  <2>5. ASSUME NEW n \in {row.seq : row \in acked'}, \A row \in acked' : row.seq <= n
        PROVE  n = Len(file)
    BY <1>3, <2>3, <2>4, <2>5
  <2>. QED  BY <2>1, <2>4, <2>5 DEF LastAcked
<1>. QED  BY <1>1, <1>7, <1>8 DEF DurableLog!Promise

LEMMA PowerLossLoses ==
  ASSUME IInv, IInv', PowerLoss PROVE DurableLog!Lose
<1>1. file' \in survivors /\ survivors' = {file'} /\ acked' = acked
  BY DEF PowerLoss
<1>2. /\ file' \in Seq(Row) /\ file \in Seq(Row) /\ Len(file') \in Nat /\ Len(file) \in Nat
      /\ IsPrefix(file', file)
  BY <1>1 DEF IInv, BusTyped, SnapshotsOK
<1>3. Len(file') \in Shortest .. Len(file)
  BY <1>1, <1>2, ShortestOf DEF IsPrefix
<1>4. file' = SubSeq(file, 1, Len(file'))
  BY <1>2, PrefixIsStart
<1>5. Shortest' = Len(file')
  <2>1. Len(file') \in {Len(v) : v \in survivors'} /\ \A v \in survivors' : Len(file') <= Len(v)
    BY <1>1, <1>2
  <2>. QED  BY <2>1, NextShortest
<1>6. LastAcked' = LastAcked
  BY <1>1 DEF LastAcked
<1>. QED  BY <1>3, <1>4, <1>5, <1>6 DEF DurableLog!Lose

LEMMA Mapping ==
  ASSUME IInv, IInv', [BusNext]_busVars
  PROVE  [DurableLog!Next]_(DurableLog!vars)
<1>1. ASSUME UNCHANGED <<disk, acked>> PROVE UNCHANGED DurableLog!vars
  BY <1>1, SameLog DEF DurableLog!vars
<1>2. ASSUME NEW s \in Servers, Start(s) \/ Load(s) \/ Exit(s) PROVE UNCHANGED <<disk, acked>>
  BY <1>2 DEF Start, Load, Exit
<1>3. ASSUME NEW s \in Servers, Serve(s)
      PROVE  UNCHANGED <<disk, acked>> \/ Rename(s) \/ Flush(s)
  BY <1>3 DEF Serve, Breed, Refuse, Allocate, WriteFails, FlushFails
<1>4. ASSUME Use PROVE UNCHANGED <<disk, acked>>
  BY <1>4 DEF Use, Send, GiveUp, Get
<1>5. ASSUME UNCHANGED busVars PROVE UNCHANGED <<disk, acked>>
  BY <1>5 DEF busVars, disk
<1>6. ASSUME NEW s \in Servers, Rename(s) PROVE DurableLog!Next
  BY <1>6, RenamePublishes DEF DurableLog!Next
<1>7. ASSUME NEW s \in Servers, Flush(s) PROVE DurableLog!Next
  BY <1>7, FlushPromises DEF DurableLog!Next
<1>8. ASSUME PowerLoss PROVE DurableLog!Next
  BY <1>8, PowerLossLoses DEF DurableLog!Next
<1>. QED  BY <1>1, <1>2, <1>3, <1>4, <1>5, <1>6, <1>7, <1>8 DEF BusNext

(***************************************************************************)
(* The bus implements the log: a rename publishes, a flush promises, a     *)
(* loss of power loses rows that were not promised, and nothing else does. *)
(***************************************************************************)
THEOREM BusImplementsLog == Spec => ImplementsLog
<1>1. BusInit => DurableLog!Init
  <2>. SUFFICES ASSUME BusInit PROVE DurableLog!Init
    OBVIOUS
  <2>1. file = << >> /\ survivors = {<< >>} /\ acked = {}
    BY DEF BusInit
  <2>2. LastAcked = 0
    BY <2>1 DEF LastAcked
  <2>3. Shortest = 0
    BY <2>1, Initially, ShortestOf
  <2>. QED  BY <2>1, <2>2, <2>3 DEF DurableLog!Init
<1>2. Init => DurableLog!Init
  BY <1>1 DEF Init
<1>3. ManagedOK /\ IInv /\ IInv' /\ [Next]_vars => [DurableLog!Next]_(DurableLog!vars)
  BY ManagedStep, Mapping
<1>. QED  BY <1>2, <1>3, Invariant, PTL DEF Spec, ImplementsLog, DurableLog!Spec

-----------------------------------------------------------------------------
(***************************************************************************)
(* No copy of a batch without a call.                                      *)
(***************************************************************************)
LEMMA Counting ==
  ASSUME NEW A, NEW B, IsFiniteSet(A), IsFiniteSet(B), NEW n \in Nat,
         Cardinality(A) + Cardinality(B) <= n,
         NEW X \in SUBSET A, NEW Y \in SUBSET B
  PROVE  IsFiniteSet(X) /\ IsFiniteSet(Y) /\ Cardinality(X) + Cardinality(Y) <= n
<1>1. /\ IsFiniteSet(X) /\ Cardinality(X) <= Cardinality(A) /\ Cardinality(X) \in Nat
      /\ Cardinality(A) \in Nat
  BY FS_Subset, FS_CardinalityType
<1>2. /\ IsFiniteSet(Y) /\ Cardinality(Y) <= Cardinality(B) /\ Cardinality(Y) \in Nat
      /\ Cardinality(B) \in Nat
  BY FS_Subset, FS_CardinalityType
<1>. QED  BY <1>1, <1>2

LEMMA CountingOneMore ==
  ASSUME NEW A, NEW B, IsFiniteSet(A), IsFiniteSet(B), NEW n \in Nat,
         Cardinality(A) + Cardinality(B) <= n, NEW z
  PROVE  IsFiniteSet(B \cup {z}) /\ Cardinality(A) + Cardinality(B \cup {z}) <= n + 1
<1>1. Cardinality(A) \in Nat /\ Cardinality(B) \in Nat
  BY FS_CardinalityType
<1>2. IsFiniteSet(B \cup {z})
      /\ Cardinality(B \cup {z}) = IF z \in B THEN Cardinality(B) ELSE Cardinality(B) + 1
  BY FS_AddElement
<1>. QED  BY <1>1, <1>2

LEMMA CountingExchange ==
  ASSUME NEW A, NEW B, IsFiniteSet(A), IsFiniteSet(B), NEW n \in Nat,
         Cardinality(A) + Cardinality(B) <= n, NEW b \in B, NEW z
  PROVE  /\ IsFiniteSet(B \ {b}) /\ IsFiniteSet(A \cup {z}) /\ IsFiniteSet((B \ {b}) \cup {z})
         /\ Cardinality(A \cup {z}) + Cardinality(B \ {b}) <= n
         /\ Cardinality(A) + Cardinality((B \ {b}) \cup {z}) <= n
<1>1. Cardinality(A) \in Nat /\ Cardinality(B) \in Nat
  BY FS_CardinalityType
<1>2. IsFiniteSet(B \ {b}) /\ Cardinality(B \ {b}) = Cardinality(B) - 1
  BY FS_RemoveElement
<1>3. IsFiniteSet(A \cup {z})
      /\ Cardinality(A \cup {z}) = IF z \in A THEN Cardinality(A) ELSE Cardinality(A) + 1
  BY FS_AddElement
<1>. DEFINE C == B \ {b}
<1>4. IsFiniteSet(C \cup {z})
      /\ Cardinality(C \cup {z}) = IF z \in C THEN Cardinality(C) ELSE Cardinality(C) + 1
  BY <1>2, FS_AddElement
<1>. HIDE DEF C
<1>5. Cardinality(A \cup {z}) <= Cardinality(A) + 1 /\ Cardinality(A \cup {z}) \in Nat
  BY <1>1, <1>3
<1>6. Cardinality(C) = Cardinality(B) - 1 /\ Cardinality(C \cup {z}) <= Cardinality(C) + 1
      /\ Cardinality(C \cup {z}) \in Nat
  <2>1. Cardinality(C) = Cardinality(B) - 1 /\ Cardinality(C) \in Nat
    BY <1>2, FS_CardinalityType DEF C
  <2>. QED  BY <1>4, <2>1
<1>7. /\ Cardinality(A \cup {z}) + Cardinality(C) <= n
      /\ Cardinality(A) + Cardinality(C \cup {z}) <= n
  BY <1>1, <1>5, <1>6
<1>. QED  BY <1>2, <1>3, <1>4, <1>7 DEF C

(* What a step leaves of the copies and the open requests is as it was.    *)
LEMMA CallsStay ==
  ASSUME IInv, CallsOK, tries' = tries,
         requests' \subseteq requests,
         \A c \in Clients : Copies(file', c) \subseteq Copies(file, c),
         \A s \in Servers : inflight'[s] # Nobody =>
           inflight'[s].request \in requests' /\ inflight'[s].request.at = s,
         \A s \in Servers : Committing(s) /\ inflight[s].request \in requests' =>
           Committing(s)' /\ inflight'[s].request = inflight[s].request
  PROVE  CallsOK'
<1>1. ASSUME NEW c \in Clients
      PROVE  /\ IsFiniteSet(Copies(file', c)) /\ IsFiniteSet(Open(c)')
             /\ Cardinality(Copies(file', c)) + Cardinality(Open(c)') <= tries'[c]
  <2>1. Open(c)' \subseteq Open(c)
    BY DEF Open
  <2>2. Copies(file', c) \subseteq Copies(file, c) /\ tries[c] \in Nat /\ tries'[c] = tries[c]
    BY DEF IInv, BusTyped
  <2>3. /\ IsFiniteSet(Copies(file, c)) /\ IsFiniteSet(Open(c))
        /\ Cardinality(Copies(file, c)) + Cardinality(Open(c)) <= tries[c]
    BY DEF CallsOK
  <2>. QED  BY <2>1, <2>2, <2>3, Counting
<1>. QED  BY <1>1 DEF CallsOK

LEMMA CallsSame ==
  ASSUME IInv, CallsOK, tries' = tries, UNCHANGED <<file, inflight, requests>>
  PROVE  CallsOK'
BY DEF CallsOK, Open, Committing

LEMMA CallsInitially == BusInit => CallsOK
<1>. SUFFICES ASSUME BusInit PROVE CallsOK
  OBVIOUS
<1>1. /\ file = << >> /\ requests = {} /\ \A s \in Servers : inflight[s] = Nobody
      /\ \A c \in Clients : tries[c] = 0
  BY DEF BusInit
<1>2. ASSUME NEW c \in Clients PROVE Copies(file, c) = {} /\ Open(c) = {}
  BY <1>1 DEF Copies, Open, RowsOf
<1>3. IsFiniteSet({}) /\ Cardinality({}) = 0
  BY FS_EmptySet
<1>4. ASSUME NEW c \in Clients
      PROVE  /\ IsFiniteSet(Copies(file, c)) /\ IsFiniteSet(Open(c))
             /\ Cardinality(Copies(file, c)) + Cardinality(Open(c)) <= tries[c]
  <2>1. Copies(file, c) = {} /\ Open(c) = {} /\ tries[c] = 0
    BY <1>1, <1>2
  <2>2. 0 + 0 <= 0
    OBVIOUS
  <2>. QED  BY <1>3, <2>1, <2>2
<1>. QED  BY <1>1, <1>4 DEF CallsOK

LEMMA SendCalls ==
  ASSUME IInv, CallsOK, NEW c \in Clients, NEW s \in Servers, Send(c, s) PROVE CallsOK'
<1>1. PICK q : q.by = c /\ requests' = requests \cup {q}
  BY DEF Send
<1>2. /\ file' = file /\ inflight' = inflight
      /\ tries'[c] = tries[c] + 1 /\ \A d \in Clients \ {c} : tries'[d] = tries[d]
  BY DEF Send, IInv, BusTyped, disk, server
<1>3. ASSUME NEW d \in Clients
      PROVE  /\ IsFiniteSet(Copies(file', d)) /\ IsFiniteSet(Open(d)')
             /\ Cardinality(Copies(file', d)) + Cardinality(Open(d)') <= tries'[d]
  <2>1. /\ IsFiniteSet(Copies(file, d)) /\ IsFiniteSet(Open(d)) /\ tries[d] \in Nat
        /\ Cardinality(Copies(file, d)) + Cardinality(Open(d)) <= tries[d]
    BY DEF CallsOK, IInv, BusTyped
  <2>2. Copies(file', d) = Copies(file, d)
    BY <1>2
  <2>3. d # c => Open(d)' = Open(d)
    BY <1>1, <1>2 DEF Open, Committing
  <2>4. Open(d)' = Open(d) \/ Open(d)' = Open(d) \cup {q}
    BY <1>1, <1>2 DEF Open, Committing
  <2>5. tries'[d] = tries[d] \/ (d = c /\ tries'[d] = tries[d] + 1)
    BY <1>2
  <2>6. /\ IsFiniteSet(Open(d) \cup {q})
        /\ Cardinality(Copies(file, d)) + Cardinality(Open(d) \cup {q}) <= tries[d] + 1
        /\ Cardinality(Copies(file, d)) \in Nat /\ Cardinality(Open(d)) \in Nat
    BY <2>1, CountingOneMore, FS_CardinalityType
  <2>7. CASE d # c
    BY <2>1, <2>2, <2>3, <2>5, <2>7
  <2>8. CASE d = c
    BY <1>2, <2>1, <2>2, <2>4, <2>6, <2>8
  <2>. QED  BY <2>7, <2>8
<1>. QED  BY <1>1, <1>2, <1>3 DEF CallsOK

LEMMA BreedCalls ==
  ASSUME IInv, CallsOK, NEW s \in Servers, NEW q \in requests, Breed(s, q) PROVE CallsOK'
<1>1. /\ q.at = s /\ inflight[s] = Nobody /\ file' = file /\ inflight' = inflight
      /\ q \in Request /\ q.by \in Clients
  BY DEF Breed, disk, server, IInv, BusTyped, Request
<1>2. \A r \in Servers : inflight[r] # Nobody => inflight[r].request \in requests \ {q}
  BY <1>1 DEF CallsOK
<1>3. CASE Answer(q, "idle")
  BY <1>1, <1>2, <1>3, CallsStay DEF Answer, CallsOK, Committing
<1>4. ASSUME NEW parent \in RowsOf(rows[s]), UNCHANGED <<call, tries>>,
             requests' = (requests \ {q}) \cup {[q EXCEPT !.parent = Id(parent)]}
      PROVE  CallsOK'
  <2>1. PICK z : z.by = q.by /\ requests' = (requests \ {q}) \cup {z}
    BY <1>1, <1>4 DEF Request
  <2>2. ASSUME NEW d \in Clients
        PROVE  /\ IsFiniteSet(Open(d)')
               /\ Cardinality(Copies(file, d)) + Cardinality(Open(d)') <= tries[d]
    <3>1. /\ IsFiniteSet(Copies(file, d)) /\ IsFiniteSet(Open(d)) /\ tries[d] \in Nat
          /\ Cardinality(Copies(file, d)) + Cardinality(Open(d)) <= tries[d]
      BY DEF CallsOK, IInv, BusTyped
    <3>2. CASE d # q.by
      <4>1. Open(d)' \subseteq Open(d)
        BY <1>1, <2>1, <3>2 DEF Open, Committing
      <4>. QED  BY <3>1, <4>1, Counting
    <3>3. CASE d = q.by
      <4>1. q \in Open(d) /\ q \notin Open(d) \ {q}
        BY <1>2, <3>3 DEF Open, Committing
      <4>2. Open(d)' \subseteq (Open(d) \ {q}) \cup {z}
        BY <1>1, <2>1 DEF Open, Committing
      <4>3. /\ IsFiniteSet((Open(d) \ {q}) \cup {z})
            /\ Cardinality(Copies(file, d)) + Cardinality((Open(d) \ {q}) \cup {z}) <= tries[d]
        BY <3>1, <4>1, CountingExchange
      <4>. QED  BY <3>1, <4>2, <4>3, Counting
    <3>. QED  BY <3>2, <3>3
  <2>. QED  BY <1>1, <1>2, <1>4, <2>1, <2>2 DEF CallsOK
<1>. QED  BY <1>3, <1>4 DEF Breed

LEMMA RefuseCalls ==
  ASSUME IInv, CallsOK, NEW s \in Servers, NEW q \in requests, Refuse(s, q) PROVE CallsOK'
<1>1. /\ q.at = s /\ inflight[s] = Nobody /\ file' = file /\ inflight' = inflight
      /\ requests' = requests \ {q} /\ tries' = tries
  BY DEF Refuse, Ready, Answer, disk, server
<1>. QED  BY <1>1, CallsStay DEF CallsOK, Committing

LEMMA AllocateCalls ==
  ASSUME IInv, CallsOK, NEW s \in Servers, NEW q \in requests, Allocate(s, q) PROVE CallsOK'
<1>1. /\ q.at = s /\ inflight[s] = Nobody /\ file' = file /\ requests' = requests /\ tries' = tries
  BY DEF Allocate, Ready, disk, client
<1>2. /\ inflight'[s].request = q /\ \A r \in Servers \ {s} : inflight'[r] = inflight[r]
  BY DEF Allocate, IInv, BusTyped
<1>. QED  BY <1>1, <1>2, CallsStay DEF CallsOK, Committing

LEMMA RenameCalls ==
  ASSUME IInv, CallsOK, NEW s \in Servers, Rename(s) PROVE CallsOK'
<1>. DEFINE q == inflight[s].request  batch == inflight[s].batch
<1>1. /\ inflight[s] # Nobody /\ ~inflight[s].renamed
      /\ file' = rows[s] \o batch /\ inflight' = [inflight EXCEPT ![s].renamed = TRUE]
      /\ requests' = requests /\ tries' = tries
  BY DEF Rename, client
<1>2. /\ life[s] = "up" /\ inflight[s] \in Publication /\ batch \in Seq(Row)
      /\ batch = Numbered(s, q) /\ Len(batch) = Size(q.by) /\ Size(q.by) \in Nat \ {0}
  BY <1>1, Publishing
<1>3. /\ file = rows[s] /\ file \in Seq(Row) /\ q \in requests /\ q.at = s
  BY <1>1, Committed DEF CallsOK
<1>4. /\ inflight'[s] \in Publication /\ inflight'[s] # Nobody /\ inflight'[s].renamed
      /\ inflight'[s].request = q
      /\ \A r \in Servers \ {s} : inflight'[r] = inflight[r] /\ inflight[r] = Nobody
  <2>1. inflight'[s] = [inflight[s] EXCEPT !.renamed = TRUE]
        /\ \A r \in Servers \ {s} : inflight'[r] = inflight[r]
    BY <1>1 DEF IInv, BusTyped
  <2>2. inflight'[s] \in Publication /\ inflight'[s].renamed /\ inflight'[s].request = q
    BY <1>2, <2>1 DEF Publication
  <2>. QED  BY <1>2, <2>1, <2>2, OneServer, BusAssumption
<1>5. RowsOf(file') = RowsOf(file) \cup RowsOf(batch)
  BY <1>1, <1>2, <1>3, ConcatRows
<1>6. ASSUME NEW row \in RowsOf(batch) PROVE row.by = q.by /\ (row.part = 1 => row = batch[1])
  <2>1. PICK i \in 1 .. Len(batch) : row = batch[i]
    BY <1>2, RowOf
  <2>. QED  BY <1>2, <2>1 DEF Numbered
<1>. HIDE DEF q, batch
<1>7. ASSUME NEW c \in Clients
      PROVE  /\ IsFiniteSet(Copies(file', c)) /\ IsFiniteSet(Open(c)')
             /\ Cardinality(Copies(file', c)) + Cardinality(Open(c)') <= tries[c]
  <2>1. /\ IsFiniteSet(Copies(file, c)) /\ IsFiniteSet(Open(c)) /\ tries[c] \in Nat
        /\ Cardinality(Copies(file, c)) + Cardinality(Open(c)) <= tries[c]
    BY DEF CallsOK, IInv, BusTyped
  <2>2. Open(c)' \subseteq Open(c) \ {q}
    BY <1>1, <1>4 DEF Open, Committing, q
  <2>3. CASE c # q.by
    <3>1. Copies(file', c) \subseteq Copies(file, c)
      BY <1>5, <1>6, <2>3 DEF Copies
    <3>. QED  BY <2>1, <2>2, <3>1, Counting
  <2>4. CASE c = q.by
    <3>1. q \in Open(c)
      BY <1>1, <1>3, <1>4, <2>4 DEF Open, Committing
    <3>2. Copies(file', c) \subseteq Copies(file, c) \cup {batch[1]}
      BY <1>5, <1>6 DEF Copies
    <3>3. /\ IsFiniteSet(Copies(file, c) \cup {batch[1]}) /\ IsFiniteSet(Open(c) \ {q})
          /\ Cardinality(Copies(file, c) \cup {batch[1]}) + Cardinality(Open(c) \ {q}) <= tries[c]
      BY <2>1, <3>1, CountingExchange
    <3>. QED  BY <2>1, <2>2, <3>2, <3>3, Counting
  <2>. QED  BY <2>3, <2>4
<1>. QED  BY <1>1, <1>3, <1>4, <1>7 DEF CallsOK, q

LEMMA EndCalls ==
  ASSUME IInv, CallsOK, NEW s \in Servers, inflight[s] # Nobody, file' = file, tries' = tries,
         inflight' = [inflight EXCEPT ![s] = Nobody],
         requests' = requests \ {inflight[s].request}
  PROVE  CallsOK'
<1>1. life[s] = "up"
  BY Publishing
<1>2. inflight'[s] = Nobody /\ \A r \in Servers \ {s} : inflight'[r] = Nobody /\ inflight[r] = Nobody
  BY <1>1, OneServer DEF IInv, BusTyped
<1>. QED  BY <1>2, CallsStay DEF Committing

LEMMA GoneCalls ==
  ASSUME IInv, CallsOK, NEW dead \in SUBSET Servers, Gone(dead), tries' = tries,
         file' \in survivors
  PROVE  CallsOK'
<1>1. /\ \A s \in dead : inflight'[s] = Nobody
      /\ \A s \in Servers \ dead : inflight'[s] = inflight[s]
      /\ requests' = {q \in requests : q.at \notin dead}
  BY DEF Gone
<1>2. \A c \in Clients : Copies(file', c) \subseteq Copies(file, c)
  <2>1. RowsOf(file') \subseteq RowsOf(file)
    BY PrefixRows DEF IInv, BusTyped, SnapshotsOK
  <2>. QED  BY <2>1 DEF Copies
<1>3. \A s \in Servers : inflight'[s] # Nobody =>
        inflight'[s].request \in requests' /\ inflight'[s].request.at = s
  BY <1>1 DEF CallsOK
<1>4. \A s \in Servers : Committing(s) /\ inflight[s].request \in requests' =>
        Committing(s)' /\ inflight'[s].request = inflight[s].request
  BY <1>1 DEF CallsOK, Committing
<1>. QED  BY <1>1, <1>2, <1>3, <1>4, CallsStay

LEMMA CallsStep ==
  ASSUME IInv, CallsOK, [BusNext]_busVars PROVE CallsOK'
<1>1. file \in survivors
  BY DEF IInv, SnapshotsOK
<1>2. ASSUME NEW s \in Servers, Start(s) \/ Load(s) PROVE CallsOK'
  BY <1>2, CallsSame DEF Start, Load, disk, client
<1>3. ASSUME NEW s \in Servers, Exit(s) PROVE CallsOK'
  <2>1. Gone({s}) /\ tries' = tries /\ file' = file /\ {s} \in SUBSET Servers
    BY <1>3 DEF Exit, disk
  <2>. QED  BY <1>1, <2>1, GoneCalls
<1>4. ASSUME NEW s \in Servers, WriteFails(s) PROVE CallsOK'
  BY <1>4, EndCalls DEF WriteFails, Answer, disk
<1>5. ASSUME NEW s \in Servers, Flush(s) \/ FlushFails(s) PROVE CallsOK'
  BY <1>5, EndCalls DEF Flush, FlushFails, Extend, Answer, disk
<1>6. ASSUME NEW s \in Servers, Serve(s) PROVE CallsOK'
  BY <1>4, <1>5, <1>6, BreedCalls, RefuseCalls, AllocateCalls, RenameCalls DEF Serve
<1>7. CASE Use
  <2>1. ASSUME NEW c \in Clients, GiveUp(c) PROVE CallsOK'
    BY <2>1, CallsSame DEF GiveUp, disk, server
  <2>2. ASSUME NEW r \in Readers, NEW s \in Servers, Get(r, s) PROVE CallsOK'
    BY <2>2, CallsSame DEF Get, disk, server, client
  <2>. QED  BY <1>7, <2>1, <2>2, SendCalls DEF Use
<1>8. CASE PowerLoss
  BY <1>8, GoneCalls DEF PowerLoss
<1>9. CASE UNCHANGED busVars
  BY <1>9, CallsSame DEF busVars
<1>. QED  BY <1>2, <1>3, <1>6, <1>7, <1>8, <1>9 DEF BusNext

(***************************************************************************)
(* A batch is in no snapshot more often than its publisher called.         *)
(***************************************************************************)
THEOREM CopiesWereAsked == Spec => []NoCopyWithoutCall
<1>1. Init => CallsOK
  BY CallsInitially DEF Init
<1>2. ManagedOK /\ IInv /\ CallsOK /\ [Next]_vars => CallsOK'
  BY ManagedStep, CallsStep
<1>3. ASSUME IInv, CallsOK PROVE NoCopyWithoutCall
  <2>. SUFFICES ASSUME NEW v \in survivors, NEW c \in Clients
                PROVE  Cardinality(Copies(v, c)) <= tries[c]
    BY DEF NoCopyWithoutCall, Copies
  <2>1. RowsOf(v) \subseteq RowsOf(file)
    BY <1>3, PrefixRows DEF IInv, BusTyped, SnapshotsOK
  <2>2. Copies(v, c) \subseteq Copies(file, c)
    BY <2>1 DEF Copies
  <2>3. /\ IsFiniteSet(Copies(file, c)) /\ IsFiniteSet(Open(c)) /\ tries[c] \in Nat
        /\ Cardinality(Copies(file, c)) + Cardinality(Open(c)) <= tries[c]
    BY <1>3 DEF CallsOK, IInv, BusTyped
  <2>4. Cardinality(Copies(v, c)) <= Cardinality(Copies(file, c))
    BY <2>2, <2>3, FS_Subset
  <2>5. Cardinality(Copies(v, c)) \in Nat /\ Cardinality(Copies(file, c)) \in Nat
        /\ Cardinality(Open(c)) \in Nat
    BY <2>2, <2>3, FS_Subset, FS_CardinalityType
  <2>. QED  BY <2>3, <2>4, <2>5
<1>. QED  BY <1>1, <1>2, <1>3, Invariant, PTL DEF Spec
=============================================================================
