------------------------------ MODULE Admission ------------------------------
(***************************************************************************)
(* The way into the hub: a ticket minted by /auth (api/tickets.go,         *)
(* handler.auth), presented to /ws (handler.wsConnect), where it is taken, *)
(* the account is looked up among the silently banned, the socket is       *)
(* upgraded, and the connection enters the registry, which Connections     *)
(* has in full.  The host bans and unbans accounts and drops connections   *)
(* meanwhile (admin.go, adminShadowban and adminDropConnection).           *)
(*                                                                         *)
(* Requests run concurrently, so each call of wsConnect is a step of its   *)
(* own.  Steam and the database are what they answer; a ticket's time may  *)
(* be up at any moment.                                                    *)
(***************************************************************************)
EXTENDS Connections

CONSTANTS Ticket,
          MaxBan    \* bound: bans

ASSUME AdmissionAssumption == MaxBan \in Nat

VARIABLES tickets,   \* ticketStore.m: account and whether it has expired, or None
          door,      \* where the request of a connection stands in wsConnect
          shown,     \* history: the ticket each request was let in by
          bans,      \* the table shadowbans
          marked,    \* Client.Shadowbanned
          dropped,   \* history: accounts dropped since they were banned
          excused,   \* history: requests whose lookup failed, or that were past
                     \* it and not yet registered when their account was dropped
          nbans

doorVars == <<door, shown>>
banVars == <<bans, marked, dropped, excused, nbans>>
admissionVars == <<tickets, doorVars, banVars>>
allVars == <<vars, admissionVars>>

AdmissionInit ==
  /\ Init
  /\ tickets = [t \in Ticket |-> None]
  /\ door = [c \in Conn |-> "outside"]
  /\ shown = [c \in Conn |-> None]
  /\ bans = {} /\ marked = {} /\ dropped = {} /\ excused = {} /\ nbans = 0

-----------------------------------------------------------------------------
Expired(t) == tickets[t] # None /\ tickets[t].expired

\* wsTicketTTL passes.
Expire(t) ==
  /\ tickets[t] # None /\ ~Expired(t)
  /\ tickets' = [tickets EXCEPT ![t].expired = TRUE]
  /\ UNCHANGED <<vars, doorVars, banVars>>

\* ticketStore.Put sweeps what has expired and files the ticket.
Put(t, a) ==
  [u \in Ticket |-> IF u = t THEN [account |-> a, expired |-> FALSE]
                    ELSE IF Expired(u) THEN None ELSE tickets[u]]

\* handler.auth, once Steam has vouched for the account, mints a fresh ticket.
Auth(a, t) ==
  /\ tickets[t] = None /\ \A c \in Conn : shown[c] # t
  /\ tickets' = Put(t, a)
  /\ UNCHANGED <<vars, doorVars, banVars>>

\* Mutant: a ticket that was read stays.
Kept(t) == tickets

\* Take removes the ticket it reads.
Spent(t) == [tickets EXCEPT ![t] = None]

\* wsConnect: ticketStore.Take.
Present(c, t) ==
  /\ door[c] = "outside"
  /\ tickets[t] # None => tickets[t].account = Owner[c]
  /\ tickets' = Spent(t)
  /\ IF tickets[t] = None \/ Expired(t)
     THEN door' = [door EXCEPT ![c] = "refused"] /\ UNCHANGED shown
     ELSE door' = [door EXCEPT ![c] = "named"] /\ shown' = [shown EXCEPT ![c] = t]
  /\ UNCHANGED <<vars, banVars>>

\* IsShadowbanned, before the upgrade ...
LookUp(c) ==
  /\ door[c] = "named"
  /\ door' = [door EXCEPT ![c] = "looked"]
  /\ marked' = IF Owner[c] \in bans THEN marked \cup {c} ELSE marked
  /\ UNCHANGED <<vars, tickets, shown, bans, dropped, excused, nbans>>

\* ... which lets everybody in if the database does not answer.
LookUpFails(c) ==
  /\ door[c] = "named"
  /\ door' = [door EXCEPT ![c] = "looked"]
  /\ excused' = excused \cup {c}
  /\ UNCHANGED <<vars, tickets, shown, bans, marked, dropped, nbans>>

UpgradeFails(c) ==
  /\ door[c] = "looked"
  /\ door' = [door EXCEPT ![c] = "refused"]
  /\ UNCHANGED <<vars, tickets, shown, banVars>>

\* The upgrade succeeds and ServeClient registers the connection.
Enter(c) ==
  /\ door[c] = "looked"
  /\ door' = [door EXCEPT ![c] = "in"]
  /\ Register(c)
  /\ UNCHANGED <<tickets, shown, banVars>>

-----------------------------------------------------------------------------
Ban(a) ==
  /\ nbans < MaxBan
  /\ nbans' = nbans + 1
  /\ bans' = bans \cup {a}
  /\ UNCHANGED <<vars, tickets, doorVars, marked, dropped, excused>>

Unban(a) ==
  /\ a \in bans
  /\ bans' = bans \ {a} /\ dropped' = dropped \ {a}
  /\ UNCHANGED <<vars, tickets, doorVars, marked, excused, nbans>>

\* adminDropConnection: a no-op if the account has no socket open.
AdminDrop(a) ==
  /\ \/ Drop(a)
     \/ bySteam[a] = None /\ UNCHANGED vars
     \/ bySteam[a] # None /\ bySteam[a] \notin sock /\ UNCHANGED vars
  /\ dropped' = IF a \in bans THEN dropped \cup {a} ELSE dropped
  /\ excused' = excused \cup {c \in Conn : Owner[c] = a /\ door[c] = "looked"}
  /\ UNCHANGED <<tickets, doorVars, bans, marked, nbans>>

\* What a connection does once it is in.
Inside ==
  /\ Snapshot \/ \E c \in Conn :
       \/ StartPumps(c) \/ Hangup(c) \/ Unregister(c) \/ CloseSend(c)
       \/ Write(c) \/ EndWriter(c) \/ Send(c)
  /\ UNCHANGED admissionVars

AdmissionNext ==
  \/ Inside \/ \E t \in Ticket : Expire(t)
  \/ \E a \in Account :
       \/ Ban(a) \/ Unban(a) \/ AdminDrop(a)
       \/ \E t \in Ticket : Auth(a, t)
  \/ \E c \in Conn :
       \/ LookUp(c) \/ LookUpFails(c) \/ UpgradeFails(c) \/ Enter(c)
       \/ \E t \in Ticket : Present(c, t)

\* Goroutines that can run do; no peer is obliged to hang up, and nothing
\* obliges the engine to broadcast, a player to come or the host to act.
AdmissionSpec ==
  /\ AdmissionInit /\ [][AdmissionNext]_allVars
  /\ \A c \in Conn :
       /\ WF_vars(StartPumps(c) /\ UNCHANGED admissionVars)
       /\ WF_vars(Unregister(c) /\ UNCHANGED admissionVars)
       /\ WF_vars(CloseSend(c) /\ UNCHANGED admissionVars)
       /\ WF_vars(Write(c) /\ UNCHANGED admissionVars)
       /\ WF_vars(EndWriter(c) /\ UNCHANGED admissionVars)

-----------------------------------------------------------------------------
(***************************************************************************)
(* Properties                                                              *)
(***************************************************************************)

\* A ticket opens one connection, and only while it is valid: however many
\* requests present it, the second and the late one are refused.
TicketOpensOnce ==
  \A c, d \in Conn : shown[c] # None /\ shown[c] = shown[d] => c = d

\* "Paired with a saved shadowban, this is how a ban is made to take effect
\* immediately" (admin.go, adminDropConnection): once a banned account has been
\* dropped, whoever is connected to it is marked, on its way out, or had its
\* lookup fail or behind it when the drop came.
BanTakesHold ==
  \A c \in sock :
    Owner[c] \in bans \cap dropped => c \in marked \cup closed \cup excused
==============================================================================
