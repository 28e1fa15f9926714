-------------------------------- MODULE Bus --------------------------------
(***************************************************************************)
(* The semantic bus of src/crates/leio-harness/src/bus.rs: a server that   *)
(* keeps every published row in memory and in one snapshot file, which it  *)
(* replaces as a whole for each publication, and its clients.              *)
(*                                                                         *)
(* A publication holds the mutexes of the rows and of the next number from *)
(* the choice of its numbers to its reply; the rename of the new snapshot  *)
(* and the flush of its directory are steps of their own, between which    *)
(* the server or the machine may stop.  Vectors are left out: a row is its *)
(* number, who published it and its place in the batch.                    *)
(***************************************************************************)
EXTENDS Naturals, Sequences, FiniteSets

CONSTANTS
  Servers,     \* processes that may serve the snapshot
  Publishers,  \* clients that publish a batch
  Evolvers,    \* clients that ask for an offspring of the lane
  Readers,     \* clients that read the rows after a cursor
  Nobody,      \* no server, no request
  BatchSize,   \* the rows in the batch of each publisher
  Capacity,    \* the rows that fit (128 MiB)
  MaxTries     \* bound: the requests each client makes

Clients == Publishers \cup Evolvers

(* A row, named by what it was published as; a request, and a publication. *)
RowId == [seq : Nat, by : Clients, part : Nat]
Row == [seq : Nat, by : Clients, part : Nat, parent : RowId \cup {Nobody}]
Request == [by : Clients, try : Nat, at : Servers, parent : RowId \cup {Nobody}]
Publication == [request : Request, batch : Seq(Row), renamed : BOOLEAN]

ASSUME BusAssumption ==
  /\ Publishers \cap Evolvers = {}
  /\ BatchSize \in [Publishers -> Nat \ {0}]
  /\ Capacity \in Nat
  /\ MaxTries \in [Clients -> Nat]
  /\ Nobody \notin Servers \cup RowId \cup Publication

VARIABLES
  file,       \* the rows of the snapshot that the path names
  survivors,  \* the snapshots that a loss of power may leave there
  owner,      \* the process that holds the snapshot's lock
  life,       \* of each server: "down", "loading" or "up"
  rows, next, \* of each server: rows and next_seq
  inflight,   \* of each server: the publication that holds its mutexes
  requests,   \* what servers have received and not answered
  call, tries,\* of each client: "idle", "waiting" or "acked"; its calls
  seen, cursor,\* of each reader: the rows it was given, and the last number
  acked       \* history: the rows whose publication was acknowledged

disk == <<file, survivors>>
server == <<owner, life, rows, next, inflight>>
client == <<requests, call, tries>>
reader == <<seen, cursor>>
busVars == <<file, survivors, owner, life, rows, next, inflight, requests, call,
             tries, seen, cursor, acked>>

BusInit ==
  /\ file = << >>
  /\ survivors = {<< >>}
  /\ owner = Nobody
  /\ life = [s \in Servers |-> "down"]
  /\ rows = [s \in Servers |-> << >>]
  /\ next = [s \in Servers |-> 0]
  /\ inflight = [s \in Servers |-> Nobody]
  /\ requests = {}
  /\ call = [c \in Clients |-> "idle"]
  /\ tries = [c \in Clients |-> 0]
  /\ seen = [r \in Readers |-> {}]
  /\ cursor = [r \in Readers |-> 0]
  /\ acked = {}

RowsOf(log) == {log[i] : i \in DOMAIN log}
Id(row) == [seq |-> row.seq, by |-> row.by, part |-> row.part]
LastSeq(log) == IF log = << >> THEN 0 ELSE log[Len(log)].seq

-----------------------------------------------------------------------------
(* The server's process.                                                   *)

Start(s) ==
  /\ life[s] = "down"
  /\ life' = [life EXCEPT ![s] = "loading"]
  /\ UNCHANGED <<disk, owner, rows, next, inflight, client, reader, acked>>

(* The numbers start again, as without the largest number of the snapshot. *)
LoadRestartsNumbers(s) ==
  /\ life[s] = "loading"
  /\ owner = Nobody
  /\ owner' = s
  /\ rows' = [rows EXCEPT ![s] = file]
  /\ life' = [life EXCEPT ![s] = "up"]
  /\ UNCHANGED <<disk, next, inflight, client, reader, acked>>

(* load_or_default: the lock is tried once; a missing snapshot is empty.   *)
Load(s) ==
  /\ life[s] = "loading"
  /\ owner = Nobody
  /\ owner' = s
  /\ rows' = [rows EXCEPT ![s] = file]
  /\ next' = [next EXCEPT ![s] = LastSeq(file)]
  /\ life' = [life EXCEPT ![s] = "up"]
  /\ UNCHANGED <<disk, inflight, client, reader, acked>>

Gone(dead) ==
  /\ life' = [s \in Servers |-> IF s \in dead THEN "down" ELSE life[s]]
  /\ owner' = IF owner \in dead THEN Nobody ELSE owner
  /\ rows' = [s \in Servers |-> IF s \in dead THEN << >> ELSE rows[s]]
  /\ next' = [s \in Servers |-> IF s \in dead THEN 0 ELSE next[s]]
  /\ inflight' = [s \in Servers |-> IF s \in dead THEN Nobody ELSE inflight[s]]
  /\ requests' = {q \in requests : q.at \notin dead}

(* The process exits -- the snapshot is owned by another -- or is killed.  *)
Exit(s) ==
  /\ life[s] # "down"
  /\ Gone({s})
  /\ UNCHANGED <<disk, call, tries, reader, acked>>

(* The machine stops; a rename whose directory was not flushed may be lost.*)
PowerLoss ==
  /\ Gone(Servers)
  /\ file' \in survivors
  /\ survivors' = {file'}
  /\ UNCHANGED <<call, tries, reader, acked>>

-----------------------------------------------------------------------------
(* Clients.  A call may be given up at any time: a lost reply, a broken    *)
(* connection and the client's timeout look alike.  The client does not    *)
(* retry, but its caller may publish the batch again until it is acked.     *)

Send(c, s) ==
  /\ call[c] = "idle" /\ tries[c] < MaxTries[c]
  /\ life[s] = "up"
  /\ tries' = [tries EXCEPT ![c] = @ + 1]
  /\ call' = [call EXCEPT ![c] = "waiting"]
  /\ requests' = requests \cup
       {[by |-> c, try |-> tries[c] + 1, at |-> s, parent |-> Nobody]}
  /\ UNCHANGED <<disk, server, reader, acked>>

GiveUp(c) ==
  /\ call[c] = "waiting"
  /\ call' = [call EXCEPT ![c] = "idle"]
  /\ UNCHANGED <<disk, server, requests, tries, reader, acked>>

(* The request is answered, and served again.                              *)
AnswerKeepsRequest(q, outcome) ==
  /\ call' = IF call[q.by] = "waiting" /\ tries[q.by] = q.try
             THEN [call EXCEPT ![q.by] = outcome] ELSE call
  /\ UNCHANGED <<requests, tries>>

Answer(q, outcome) ==
  /\ requests' = requests \ {q}
  /\ call' = IF call[q.by] = "waiting" /\ tries[q.by] = q.try
             THEN [call EXCEPT ![q.by] = outcome] ELSE call
  /\ UNCHANGED tries

(* do_get with since_seq: a copy of the rows, taken under their mutex.     *)
Get(r, s) ==
  /\ life[s] = "up" /\ inflight[s] = Nobody
  /\ LET answer == {row \in RowsOf(rows[s]) : row.seq > cursor[r]}
     IN  /\ answer # {}
         /\ seen' = [seen EXCEPT ![r] = @ \cup answer]
  /\ cursor' = [cursor EXCEPT ![r] = LastSeq(rows[s])]
  /\ UNCHANGED <<disk, server, client, acked>>

-----------------------------------------------------------------------------
(* evolve: the parent is taken from a copy of the rows, and the offspring  *)
(* is published later, without the mutex in between.                       *)

Breed(s, q) ==
  /\ q \in requests /\ q.at = s
  /\ q.by \in Evolvers /\ q.parent = Nobody
  /\ life[s] = "up" /\ inflight[s] = Nobody
  /\ \/ /\ rows[s] # << >>
        /\ \E parent \in RowsOf(rows[s]) :  \* the latest one, or an explicit parent_seq
             requests' = (requests \ {q}) \cup {[q EXCEPT !.parent = Id(parent)]}
        /\ UNCHANGED <<call, tries>>
     \/ rows[s] = << >> /\ Answer(q, "idle")
  /\ UNCHANGED <<disk, server, reader, acked>>

-----------------------------------------------------------------------------
(* append_durable.                                                         *)

Size(c) == IF c \in Publishers THEN BatchSize[c] ELSE 1

Numbered(s, q) ==
  [i \in 1 .. Size(q.by) |->
     [seq |-> next[s] + i, by |-> q.by, part |-> i, parent |-> q.parent]]

Ready(s, q) ==
  /\ q \in requests /\ q.at = s
  /\ life[s] = "up" /\ inflight[s] = Nobody
  /\ q.by \in Evolvers => q.parent # Nobody

(* The bus is full.                                                        *)
Refuse(s, q) ==
  /\ Ready(s, q)
  /\ Len(rows[s]) + Size(q.by) > Capacity
  /\ Answer(q, "idle")
  /\ UNCHANGED <<disk, server, reader, acked>>

Allocate(s, q) ==
  /\ Ready(s, q)
  /\ Len(rows[s]) + Size(q.by) <= Capacity
  /\ inflight' = [inflight EXCEPT
       ![s] = [request |-> q, batch |-> Numbered(s, q), renamed |-> FALSE]]
  /\ UNCHANGED <<disk, owner, life, rows, next, client, reader, acked>>

(* The temporary file cannot be written or renamed: nothing has changed.   *)
WriteFails(s) ==
  /\ inflight[s] # Nobody /\ ~inflight[s].renamed
  /\ inflight' = [inflight EXCEPT ![s] = Nobody]
  /\ Answer(inflight[s].request, "idle")
  /\ UNCHANGED <<disk, owner, life, rows, next, reader, acked>>

Rename(s) ==
  /\ inflight[s] # Nobody /\ ~inflight[s].renamed
  /\ file' = rows[s] \o inflight[s].batch
  /\ survivors' = survivors \cup {file'}
  /\ inflight' = [inflight EXCEPT ![s].renamed = TRUE]
  /\ UNCHANGED <<owner, life, rows, next, client, reader, acked>>

(* The rows become visible, and the next publication may begin.            *)
Extend(s) ==
  /\ rows' = [rows EXCEPT ![s] = @ \o inflight[s].batch]
  /\ next' = [next EXCEPT ![s] = @ + Len(inflight[s].batch)]
  /\ inflight' = [inflight EXCEPT ![s] = Nobody]
  /\ UNCHANGED <<owner, life>>

(* The directory is not flushed, and the caller is not told.               *)
FlushSkipped(s) ==
  /\ inflight[s] # Nobody /\ inflight[s].renamed
  /\ Extend(s)
  /\ Answer(inflight[s].request, "acked")
  /\ acked' = acked \cup RowsOf(inflight[s].batch)
  /\ UNCHANGED <<disk, reader>>

Flush(s) ==
  /\ inflight[s] # Nobody /\ inflight[s].renamed
  /\ survivors' = {file}
  /\ Extend(s)
  /\ Answer(inflight[s].request, "acked")
  /\ acked' = acked \cup RowsOf(inflight[s].batch)
  /\ UNCHANGED <<file, reader>>

(* Memory is left as it was, as after a failed write.                      *)
FlushForgets(s) ==
  /\ inflight[s] # Nobody /\ inflight[s].renamed
  /\ inflight' = [inflight EXCEPT ![s] = Nobody]
  /\ Answer(inflight[s].request, "idle")
  /\ UNCHANGED <<disk, owner, life, rows, next, reader, acked>>

(* The directory cannot be flushed: the rows stay, unacknowledged.         *)
FlushFails(s) ==
  /\ inflight[s] # Nobody /\ inflight[s].renamed
  /\ Extend(s)
  /\ Answer(inflight[s].request, "idle")
  /\ UNCHANGED <<disk, reader, acked>>

-----------------------------------------------------------------------------
Serve(s) ==
  \/ \E q \in requests : Breed(s, q) \/ Refuse(s, q) \/ Allocate(s, q)
  \/ WriteFails(s) \/ Rename(s) \/ Flush(s) \/ FlushFails(s)

Use ==
  \/ \E c \in Clients, s \in Servers : Send(c, s)
  \/ \E c \in Clients : GiveUp(c)
  \/ \E r \in Readers, s \in Servers : Get(r, s)

BusNext ==
  \/ \E s \in Servers : Start(s) \/ Load(s) \/ Exit(s) \/ Serve(s)
  \/ Use
  \/ PowerLoss

BusSpec == BusInit /\ [][BusNext]_busVars
-----------------------------------------------------------------------------
(* Properties.                                                             *)

IsPrefix(v, w) == Len(v) <= Len(w) /\ \A i \in DOMAIN v : v[i] = w[i]
Committing(s) == inflight[s] # Nobody /\ inflight[s].renamed

(***************************************************************************)
(* The snapshots a crash may leave are prefixes of the current one.        *)
(***************************************************************************)
SurvivorsArePrefixes ==
  /\ file \in survivors
  /\ \A v \in survivors : IsPrefix(v, file)

(***************************************************************************)
(* What a server shows is what its snapshot holds: in between the rename   *)
(* and the reply the snapshot is ahead by the batch, and never otherwise.  *)
(***************************************************************************)
MemoryIsSnapshot ==
  \A s \in Servers : life[s] = "up" =>
    /\ owner = s
    /\ next[s] = Len(rows[s])
    /\ file = IF Committing(s) THEN rows[s] \o inflight[s].batch ELSE rows[s]
    /\ inflight[s] # Nobody => /\ inflight[s].batch # << >>
                               /\ IsPrefix(rows[s], rows[s] \o inflight[s].batch)

(***************************************************************************)
(* The rows of a snapshot are numbered from one without a gap, so that no  *)
(* number is given twice.                                                  *)
(***************************************************************************)
Numbering ==
  /\ \A i \in DOMAIN file : file[i].seq = i
  /\ \A s \in Servers : inflight[s] # Nobody =>
       \A i \in DOMAIN inflight[s].batch : inflight[s].batch[i].seq = next[s] + i

(***************************************************************************)
(* A row whose publication was acknowledged is in every snapshot that a    *)
(* crash of the server or of the machine may leave.                        *)
(***************************************************************************)
AckedIsDurable == \A v \in survivors : acked \subseteq RowsOf(v)

(***************************************************************************)
(* A batch is published as a whole: in no snapshot, copy or answer is a    *)
(* part of it there and another part missing.                              *)
(***************************************************************************)
BatchesAreWhole ==
  \A v \in survivors :
    \A row \in RowsOf(v) : \A i \in 1 .. Size(row.by) :
      \E other \in RowsOf(v) : other.by = row.by /\ other.part = i
                            /\ other.seq = row.seq + i - row.part

(***************************************************************************)
(* What the bus keeps, on disk and in memory.                              *)
(***************************************************************************)
BusInv == SurvivorsArePrefixes /\ MemoryIsSnapshot /\ Numbering /\ BatchesAreWhole

(***************************************************************************)
(* An offspring's parent is in every snapshot that has the offspring, at   *)
(* the number by which the bus named it, and before it -- although the     *)
(* parent was chosen from a copy and may never have been acknowledged.     *)
(***************************************************************************)
OffspringKeepParents ==
  \A v \in survivors : \A row \in RowsOf(v) : row.parent # Nobody =>
    /\ row.parent.seq < row.seq
    /\ \E p \in RowsOf(v) : Id(p) = row.parent

(***************************************************************************)
(* A reader that follows the numbers with a cursor is given every          *)
(* acknowledged row: it passes one by only if it had been given a row with *)
(* that number that was never acknowledged, and was lost with the power.   *)
(***************************************************************************)
CursorTellsAll ==
  \A r \in Readers : \A row \in acked :
    row.seq <= cursor[r] /\ row \notin seen[r] =>
      \E other \in seen[r] \ acked : other.seq = row.seq

(***************************************************************************)
(* A batch is in the snapshot at most once for each call its publisher     *)
(* made, although a call whose reply was lost may have been served: what   *)
(* is duplicated was asked for again.                                      *)
(***************************************************************************)
NoCopyWithoutCall ==
  \A v \in survivors : \A c \in Clients :
    Cardinality({row \in RowsOf(v) : row.by = c /\ row.part = 1}) <= tries[c]

-----------------------------------------------------------------------------
(* The bus implements the log.                                             *)

Shortest == CHOOSE n \in {Len(v) : v \in survivors} :
              \A v \in survivors : n <= Len(v)
LastAcked == IF acked = {} THEN 0
             ELSE CHOOSE n \in {row.seq : row \in acked} :
                    \A row \in acked : row.seq <= n

DurableLog == INSTANCE DurableLog
                WITH log <- file, safe <- Shortest, promised <- LastAcked
ImplementsLog == DurableLog!Spec
=============================================================================
