----------------------------- MODULE Connections -----------------------------
(***************************************************************************)
(* The hub's registry of connections (internal/ws/hub.go): register with   *)
(* its eviction of an account's older connection, unregister, Drop, the    *)
(* two pumps of a connection, and the fan-out of frames by a goroutine     *)
(* that works from an earlier copy of the registry (clientList, or the     *)
(* connection looked up in bySteam).                                       *)
(*                                                                         *)
(* Hub.mu makes each registry section one step; closing a send channel     *)
(* after the section, starting the pumps, and every enqueue are steps of   *)
(* their own.  A send on a closed Go channel panics, so what matters of a  *)
(* channel is whether it is closed and how much it holds.                  *)
(***************************************************************************)
EXTENDS Integers, FiniteSets

CONSTANTS Account, Conn,
          Owner,     \* the account a connection authenticated as
          SendBuf,   \* capacity of Client.send
          None       \* no connection

ASSUME ConnAssumption ==
         /\ Owner \in [Conn -> Account]
         /\ SendBuf \in Nat \ {0}
         /\ None \notin Conn

VARIABLES clients,   \* Hub.clients
          bySteam,   \* Hub.bySteam
          closed,    \* connections whose sendClosed is set
          held,      \* how many frames Client.send holds
          sock,      \* connections whose socket is open
          reader,    \* ServeClient and readPump of a connection
          writer,    \* its writePump
          fan        \* connections the broadcaster has yet to enqueue to

vars == <<clients, bySteam, closed, held, sock, reader, writer, fan>>

-----------------------------------------------------------------------------
Init ==
  /\ clients = {}
  /\ bySteam = [a \in Account |-> None]
  /\ closed = {}
  /\ held = [c \in Conn |-> 0]
  /\ sock = {}
  /\ reader = [c \in Conn |-> "new"]
  /\ writer = [c \in Conn |-> "new"]
  /\ fan = {}

\* Mutants: the evicted connection stays in the crowd, or keeps its channel.
StayingClients(old) == clients
StayingOpen(old)    == closed

\* What is left of clients and what is closed once old has been evicted.
WithoutOld(old) == clients \ {old}
ClosedBy(old)   == IF old = None THEN closed ELSE closed \cup {old}

\* Hub.register: evict the account's previous connection and close its
\* channel, all under the lock.
Register(c) ==
  LET old == bySteam[Owner[c]]
  IN  /\ reader[c] = "new"
      /\ reader' = [reader EXCEPT ![c] = "registered"]
      /\ sock' = sock \cup {c}
      /\ clients' = WithoutOld(old) \cup {c}
      /\ bySteam' = [bySteam EXCEPT ![Owner[c]] = c]
      /\ closed' = ClosedBy(old)
      /\ UNCHANGED <<held, writer, fan>>

\* Mutant: no test for a closed channel.
TakesClosed(c) == held[c] < SendBuf

\* Client.enqueue: a frame for a closed or a full channel is dropped.
Takes(c)   == c \notin closed /\ held[c] < SendBuf
Enqueue(c) == held' = IF Takes(c) THEN [held EXCEPT ![c] = @ + 1] ELSE held

\* The rest of ServeClient: hello, and the pumps start.
StartPumps(c) ==
  /\ reader[c] = "registered"
  /\ reader' = [reader EXCEPT ![c] = "reading"]
  /\ writer' = [writer EXCEPT ![c] = "writing"]
  /\ Enqueue(c)
  /\ UNCHANGED <<clients, bySteam, closed, sock, fan>>

\* The peer goes away or Drop closes the socket.
Hangup(c) ==
  /\ c \in sock
  /\ sock' = sock \ {c}
  /\ UNCHANGED <<clients, bySteam, closed, held, reader, writer, fan>>

Drop(a) == bySteam[a] # None /\ Hangup(bySteam[a])

\* Mutant: the account is struck off whichever connection is leaving.
StrikeAny(c) == [bySteam EXCEPT ![Owner[c]] = None]

\* The account is struck off only by its current connection.
StrikeOff(c) ==
  IF bySteam[Owner[c]] = c THEN [bySteam EXCEPT ![Owner[c]] = None] ELSE bySteam

\* readPump returns: Hub.unregister's locked section ...
Unregister(c) ==
  /\ reader[c] = "reading" /\ c \notin sock
  /\ reader' = [reader EXCEPT ![c] = "leaving"]
  /\ clients' = clients \ {c}
  /\ bySteam' = StrikeOff(c)
  /\ UNCHANGED <<closed, held, sock, writer, fan>>

\* ... and closeSend, after the lock is released.
CloseSend(c) ==
  /\ reader[c] = "leaving"
  /\ reader' = [reader EXCEPT ![c] = "done"]
  /\ closed' = closed \cup {c}
  /\ UNCHANGED <<clients, bySteam, held, sock, writer, fan>>

\* writePump writes a frame; a failed write ends it, closing the socket.
Write(c) ==
  /\ writer[c] = "writing" /\ held[c] > 0
  /\ held' = [held EXCEPT ![c] = @ - 1]
  /\ IF c \in sock
     THEN UNCHANGED writer
     ELSE writer' = [writer EXCEPT ![c] = "done"]
  /\ UNCHANGED <<clients, bySteam, closed, sock, reader, fan>>

\* Mutant: the pump does not notice that its channel was closed.
DrainedIgnored(c) == FALSE

Drained(c) == c \in closed /\ held[c] = 0

\* The channel is closed and empty: a close message, and the socket closes.
\* (A failed keepalive ping ends the pump in the same way.)
EndWriter(c) ==
  /\ writer[c] = "writing"
  /\ Drained(c) \/ c \notin sock
  /\ writer' = [writer EXCEPT ![c] = "done"]
  /\ sock' = sock \ {c}
  /\ UNCHANGED <<clients, bySteam, closed, held, reader, fan>>

\* A broadcast copies the registry, or looks one account up ...
Snapshot ==
  /\ fan = {}
  /\ \/ fan' = clients
     \/ \E a \in Account : bySteam[a] # None /\ fan' = {bySteam[a]}
  /\ UNCHANGED <<clients, bySteam, closed, held, sock, reader, writer>>

\* ... and enqueues to the copy's connections, which may have gone since.  A
\* frame is withheld from a parked or a silently banned one.
Send(c) ==
  /\ c \in fan
  /\ fan' = fan \ {c}
  /\ Enqueue(c) \/ UNCHANGED held
  /\ UNCHANGED <<clients, bySteam, closed, sock, reader, writer>>

Next ==
  \/ \E c \in Conn :
       \/ Register(c)
       \/ StartPumps(c)
       \/ Hangup(c)
       \/ Unregister(c)
       \/ CloseSend(c)
       \/ Write(c)
       \/ EndWriter(c)
       \/ Send(c)
  \/ \E a \in Account : Drop(a)
  \/ Snapshot

Spec == Init /\ [][Next]_vars

-----------------------------------------------------------------------------
(***************************************************************************)
(* Properties                                                              *)
(***************************************************************************)
TypeOK ==
  /\ clients \subseteq Conn
  /\ bySteam \in [Account -> Conn \cup {None}]
  /\ closed \subseteq Conn
  /\ held \in [Conn -> 0..SendBuf]
  /\ sock \subseteq Conn
  /\ reader \in [Conn -> {"new", "registered", "reading", "leaving", "done"}]
  /\ writer \in [Conn -> {"new", "writing", "done"}]
  /\ fan \subseteq Conn

\* The connections of an account in the crowd.
Of(a) == {c \in clients : Owner[c] = a}

\* Both maps of the hub name the same connections, so an account has at most
\* one connection in the crowd: it can not be counted twice, and a frame
\* addressed to it reaches the connection the crowd counts.
OneConnectionPerAccount ==
  \A a \in Account :
    Of(a) = IF bySteam[a] = None THEN {} ELSE {bySteam[a]}

\* A connection that is in the crowd has a channel frames still go into;
\* one that has left it, evicted or disconnected, is closed or about to be.
CrowdIsOpen ==
  \A c \in Conn :
    /\ c \in clients => c \notin closed
    /\ reader[c] # "new" /\ c \notin clients => c \in closed \/ reader[c] = "leaving"

\* No frame is put into a channel that is closed (in Go, a panic that takes
\* the server down), although broadcasts work from a stale copy.
NeverSendOnClosed ==
  [][\A c \in Conn : held'[c] > held[c] => c \notin closed]_vars

\* An account loses its registered connection only to a newer one, or because
\* that very connection ended: the late unregister of an evicted connection
\* does not take its successor out.
NewestStays ==
  [][\A a \in Account :
       bySteam'[a] # bySteam[a] /\ bySteam[a] # None =>
         \/ bySteam'[a] # None /\ reader[bySteam'[a]] = "new"
         \/ bySteam'[a] = None /\ reader'[bySteam[a]] = "leaving"]_vars

\* A connection that was evicted ends completely: its socket is closed and
\* both its pumps return, whatever the peer does.
EvictedGoesAway ==
  \A c \in Conn :
    (c \in closed) ~> (c \notin sock /\ reader[c] = "done" /\ writer[c] = "done")
==============================================================================
