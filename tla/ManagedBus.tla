----------------------------- MODULE ManagedBus -----------------------------
(***************************************************************************)
(* How the bus comes to be served: ensure of managed_bus.rs, by which each *)
(* command finds or starts the default bus, and serve_uds of bus.rs, by    *)
(* which a server takes over the socket's path.  The servers are those of  *)
(* Bus; some are started by hand, on the default socket or over TCP with   *)
(* the same snapshot.  A server is one process and is started once.        *)
(***************************************************************************)
EXTENDS Bus

CONSTANTS Starters,  \* commands that call ensure
          MaxPolls   \* bound: the polls for a started server (100 in the code)

ASSUME ManagedAssumption == MaxPolls \in Nat

VARIABLES
  stage,      \* of each server: how far serve_uds has come
  socket,     \* the socket's path: "none", "stale", or the process listening
  socketLock, \* the process that holds socket.lock
  starter,    \* of each starter: its step in ensure
  peer,       \* of each starter: the server it has started, or asks for health
  polls,      \* of each starter: how often it has polled
  startLock   \* the starter that holds startup.lock

endpoint == <<stage, socket, socketLock>>
starting == <<starter, peer, polls, startLock>>
vars == <<busVars, endpoint, starting>>

Init ==
  /\ BusInit
  /\ stage = [s \in Servers |-> "off"]
  /\ socket \in {"none", "stale"}
  /\ socketLock = Nobody
  /\ starter = [u \in Starters |-> "idle"]
  /\ peer = [u \in Starters |-> Nobody]
  /\ polls = [u \in Starters |-> 0]
  /\ startLock = Nobody

Listening == socket \in Servers
ToStage(s, x) == stage' = [stage EXCEPT ![s] = x]

-----------------------------------------------------------------------------
(* serve_uds.                                                              *)

Spawn(s) ==
  /\ stage[s] = "off"
  /\ Start(s)
  /\ ToStage(s, "spawned")
  /\ UNCHANGED <<socket, socketLock>>

(* The socket's lock is not taken.                                         *)
SkipSocketLock(s) ==
  /\ stage[s] = "spawned"
  /\ ToStage(s, "locked")
  /\ UNCHANGED <<busVars, socket, socketLock, starting>>

LockSocket(s) ==
  /\ stage[s] = "spawned"
  /\ socketLock = Nobody
  /\ socketLock' = s
  /\ ToStage(s, "locked")
  /\ UNCHANGED <<busVars, socket, starting>>

(* A connection is refused: the socket was left by a server that is gone.  *)
CheckSocket(s) ==
  /\ stage[s] = "locked"
  /\ ~Listening
  /\ ToStage(s, IF socket = "stale" THEN "replacing" ELSE "clear")
  /\ UNCHANGED <<busVars, socket, socketLock, starting>>

(* remove_file removes what has the path's name by now.                    *)
RemoveSocket(s) ==
  /\ stage[s] = "replacing"
  /\ socket' = "none"
  /\ ToStage(s, "clear")
  /\ UNCHANGED <<busVars, socketLock, starting>>

Bind(s) ==
  /\ stage[s] = "clear"
  /\ socket = "none"
  /\ socket' = s
  /\ ToStage(s, "bound")
  /\ UNCHANGED <<busVars, socketLock, starting>>

LoadSnapshot(s) ==
  /\ stage[s] \in {"bound", "tcp"}
  /\ Load(s)
  /\ UNCHANGED <<endpoint, starting>>

(* The process is gone; its path stays behind.                             *)
Close(dead) ==
  /\ stage' = [s \in Servers |-> IF s \in dead THEN "gone" ELSE stage[s]]
  /\ socket' = IF socket \in dead THEN "stale" ELSE socket
  /\ socketLock' = IF socketLock \in dead THEN Nobody ELSE socketLock

(* It is killed, or ends by itself: the socket's lock is held or a server  *)
(* listens, the path cannot be bound, or the snapshot is owned by another. *)
Die(s) ==
  /\ stage[s] \notin {"off", "gone"}
  /\ Exit(s)
  /\ Close({s})
  /\ UNCHANGED starting

StartByHand(s) ==
  /\ stage[s] = "off"
  /\ Start(s)
  /\ \E x \in {"spawned", "tcp"} : ToStage(s, x)
  /\ UNCHANGED <<socket, socketLock, starting>>

-----------------------------------------------------------------------------
(* ensure, with the default address.                                       *)

(* It returns the address or an error, or the command is interrupted; a    *)
(* server it has started lives on.                                         *)
Leave(u) ==
  /\ starter' = [starter EXCEPT ![u] = "done"]
  /\ peer' = [peer EXCEPT ![u] = Nobody]
  /\ polls' = [polls EXCEPT ![u] = 0]
  /\ startLock' = IF startLock = u THEN Nobody ELSE startLock

LockStartup(u) ==
  /\ starter[u] = "idle"
  /\ startLock = Nobody
  /\ startLock' = u
  /\ starter' = [starter EXCEPT ![u] = "probing"]
  /\ UNCHANGED <<busVars, endpoint, peer, polls>>

(* Ten seconds pass while another starter has the lock, or it is           *)
(* interrupted, here or later.                                             *)
GiveIn(u) ==
  /\ starter[u] # "done"
  /\ Leave(u)
  /\ UNCHANGED <<busVars, endpoint>>

Probe(u) ==
  /\ starter[u] = "probing"
  /\ starter' = [starter EXCEPT ![u] = IF Listening THEN "asking" ELSE "starting"]
  /\ peer' = [peer EXCEPT ![u] = IF Listening THEN socket ELSE Nobody]
  /\ UNCHANGED <<busVars, endpoint, polls, startLock>>

(* The health of the server found; it is not answered before it is up, and *)
(* it is an error that the server ends or takes 30 seconds.                *)
Ask(u) ==
  /\ starter[u] = "asking"
  /\ life[peer[u]] = "up"
  /\ Leave(u)
  /\ UNCHANGED <<busVars, endpoint>>

StartChild(u, s) ==
  /\ starter[u] = "starting"
  /\ Spawn(s)
  /\ peer' = [peer EXCEPT ![u] = s]
  /\ starter' = [starter EXCEPT ![u] = "polling"]
  /\ UNCHANGED <<polls, startLock>>

Answers == Listening /\ life[socket] = "up"

(* The child has ended, or some server answers; or there is another poll.  *)
Poll(u) ==
  /\ starter[u] = "polling" /\ polls[u] < MaxPolls
  /\ IF stage[peer[u]] = "gone" \/ Answers
     THEN Leave(u)
     ELSE /\ polls' = [polls EXCEPT ![u] = @ + 1]
          /\ UNCHANGED <<starter, peer, startLock>>
  /\ UNCHANGED <<busVars, endpoint>>

(* The last poll has failed: the child is killed.                          *)
KillChild(u) ==
  /\ starter[u] = "polling" /\ polls[u] = MaxPolls
  /\ IF stage[peer[u]] = "gone" THEN UNCHANGED <<busVars, endpoint>>
     ELSE Exit(peer[u]) /\ Close({peer[u]})
  /\ Leave(u)

Blackout ==
  /\ PowerLoss
  /\ Close({s \in Servers : stage[s] # "off"})
  /\ starter' = [u \in Starters |-> IF starter[u] = "idle" THEN "idle" ELSE "done"]
  /\ peer' = [u \in Starters |-> Nobody]
  /\ polls' = [u \in Starters |-> 0]
  /\ startLock' = Nobody

-----------------------------------------------------------------------------
Reaches(s) == socket = s \/ stage[s] = "tcp"

Used ==
  /\ \/ \E c \in Clients, s \in Servers : Reaches(s) /\ Send(c, s)
     \/ \E c \in Clients : GiveUp(c)
     \/ \E r \in Readers, s \in Servers : Reaches(s) /\ Get(r, s)
     \/ \E s \in Servers : Serve(s)
  /\ UNCHANGED <<endpoint, starting>>

Ensure(u) ==
  \/ LockStartup(u) \/ GiveIn(u) \/ Probe(u) \/ Ask(u)
  \/ \E s \in Servers : StartChild(u, s)
  \/ Poll(u) \/ KillChild(u)

ServeSocket(s) ==
  \/ LockSocket(s) \/ CheckSocket(s) \/ RemoveSocket(s) \/ Bind(s)
  \/ LoadSnapshot(s) \/ Die(s) \/ StartByHand(s)

Next ==
  \/ \E u \in Starters : Ensure(u)
  \/ \E s \in Servers : ServeSocket(s)
  \/ Used
  \/ Blackout

Spec == Init /\ [][Next]_vars

-----------------------------------------------------------------------------
(* Properties.                                                             *)

(***************************************************************************)
(* A server that listens on the socket can be reached by its path: no      *)
(* other server takes the path away from it, although each removes what it *)
(* believes to be left by a server that is gone.                           *)
(***************************************************************************)
NobodyStranded == \A s \in Servers : stage[s] = "bound" => socket = s
=============================================================================
