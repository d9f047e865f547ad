--------------------------- MODULE AdmissionProofs ---------------------------
(***************************************************************************)
(* Theorems about the hub's registry of connections (Connections), for any *)
(* accounts, connections and capacity of the send channels; and about the  *)
(* door in front of it (Admission), which implements Connections, so what  *)
(* is proved of the registry holds behind the door as well.  On that rest  *)
(* the two promises of the door: a ticket opens one connection, and a ban  *)
(* made with a drop leaves no socket of the account unmarked.              *)
(***************************************************************************)
EXTENDS Admission, TLAPS

-----------------------------------------------------------------------------
(* The registry.                                                           *)

\* A connection counts in the crowd only between register and unregister, and
\* a channel is closed only after its connection was registered.
CrowdIsServed ==
  \A c \in Conn :
    /\ c \in clients => reader[c] \in {"registered", "reading"}
    /\ c \in closed => reader[c] # "new"

\* The inductive invariant.
ConnInv ==
  /\ TypeOK
  /\ OneConnectionPerAccount
  /\ CrowdIsOpen
  /\ CrowdIsServed

LEMMA InitHolds == Init => ConnInv
BY ConnAssumption
   DEF Init, ConnInv, TypeOK, OneConnectionPerAccount, CrowdIsOpen, CrowdIsServed,
       Of, ConnAssumption

\* Enqueue keeps what a channel holds within its capacity.
LEMMA EnqueueType ==
  ASSUME TypeOK, NEW c \in Conn, Enqueue(c)
  PROVE  held' \in [Conn -> 0..SendBuf]
<1>1. held[c] \in 0..SendBuf /\ SendBuf \in Nat
  BY ConnAssumption DEF TypeOK, ConnAssumption
<1>2. CASE Takes(c)
  <2>1. held' = [held EXCEPT ![c] = @ + 1] /\ held[c] + 1 \in 0..SendBuf
    BY <1>1, <1>2 DEF Enqueue, Takes
  <2> QED BY <2>1 DEF TypeOK
<1>3. CASE ~Takes(c)
  BY <1>3 DEF TypeOK, Enqueue
<1> QED BY <1>2, <1>3

LEMMA NextType ==
  ASSUME TypeOK, [Next]_vars
  PROVE  TypeOK'
<1> USE ConnAssumption DEF ConnAssumption
<1>1. ASSUME NEW c \in Conn, Register(c) PROVE TypeOK'
  BY <1>1 DEF TypeOK, Register, WithoutOld, ClosedBy
<1>2. ASSUME NEW c \in Conn, StartPumps(c) PROVE TypeOK'
  <2>1. held' \in [Conn -> 0..SendBuf]
    BY <1>2, EnqueueType DEF StartPumps
  <2> QED BY <1>2, <2>1 DEF TypeOK, StartPumps
<1>3. ASSUME NEW c \in Conn, Hangup(c) PROVE TypeOK'
  BY <1>3 DEF TypeOK, Hangup
<1>4. ASSUME NEW c \in Conn, Unregister(c) PROVE TypeOK'
  BY <1>4 DEF TypeOK, Unregister, StrikeOff
<1>5. ASSUME NEW c \in Conn, CloseSend(c) PROVE TypeOK'
  BY <1>5 DEF TypeOK, CloseSend
<1>6. ASSUME NEW c \in Conn, Write(c) PROVE TypeOK'
  <2>1. held[c] - 1 \in 0..SendBuf
    BY <1>6 DEF TypeOK, Write
  <2>2. held' \in [Conn -> 0..SendBuf]
    BY <1>6, <2>1 DEF TypeOK, Write
  <2>3. writer' \in [Conn -> {"new", "writing", "done"}]
    BY <1>6 DEF TypeOK, Write
  <2> QED BY <1>6, <2>2, <2>3 DEF TypeOK, Write
<1>7. ASSUME NEW c \in Conn, EndWriter(c) PROVE TypeOK'
  BY <1>7 DEF TypeOK, EndWriter
<1>8. ASSUME NEW c \in Conn, Send(c) PROVE TypeOK'
  <2>1. held' \in [Conn -> 0..SendBuf]
    <3>1. CASE Enqueue(c)
      BY <3>1, EnqueueType
    <3>2. CASE UNCHANGED held
      BY <3>2 DEF TypeOK
    <3> QED BY <1>8, <3>1, <3>2 DEF Send
  <2> QED BY <1>8, <2>1 DEF TypeOK, Send
<1>9. ASSUME NEW a \in Account, Drop(a) PROVE TypeOK'
  BY <1>9 DEF TypeOK, Drop, Hangup
<1>10. CASE Snapshot
  BY <1>10 DEF TypeOK, Snapshot
<1>11. CASE UNCHANGED vars
  BY <1>11 DEF TypeOK, vars
<1> QED
  BY <1>1, <1>2, <1>3, <1>4, <1>5, <1>6, <1>7, <1>8, <1>9, <1>10, <1>11 DEF Next

\* What the registry's parts say is untouched by a step that leaves the maps
\* and the closed channels alone and starts a reader at most.
LEMMA Undisturbed ==
  ASSUME ConnInv, UNCHANGED <<clients, bySteam, closed>>,
         \A c \in Conn : \/ reader'[c] = reader[c]
                         \/ reader[c] = "registered" /\ reader'[c] = "reading"
  PROVE  OneConnectionPerAccount' /\ CrowdIsOpen' /\ CrowdIsServed'
<1>1. OneConnectionPerAccount'
  BY DEF ConnInv, OneConnectionPerAccount, Of
<1>2. CrowdIsOpen' /\ CrowdIsServed'
  BY DEF ConnInv, CrowdIsOpen, CrowdIsServed
<1> QED BY <1>1, <1>2

\* A connection arrives: whatever connection the account had is evicted.
LEMMA RegisterKeeps ==
  ASSUME ConnInv, NEW c \in Conn, Register(c)
  PROVE  OneConnectionPerAccount' /\ CrowdIsOpen' /\ CrowdIsServed'
<1> DEFINE old == bySteam[Owner[c]]
<1>1. /\ c \notin clients /\ c \notin closed /\ c # old
      /\ Owner[c] \in Account /\ None \notin Conn
      /\ old = None \/ (old \in clients /\ Owner[old] = Owner[c])
  <2>1. c \notin clients /\ c \notin closed /\ Owner[c] \in Account /\ None \notin Conn
    BY ConnAssumption DEF ConnInv, CrowdIsServed, Register, ConnAssumption
  <2>2. old = None \/ old \in Of(Owner[c])
    BY <2>1 DEF ConnInv, OneConnectionPerAccount
  <2> QED BY <2>1, <2>2 DEF Of
<1>2. /\ clients' = (clients \ {old}) \cup {c}
      /\ closed' = IF old = None THEN closed ELSE closed \cup {old}
      /\ bySteam' = [bySteam EXCEPT ![Owner[c]] = c]
      /\ reader' = [reader EXCEPT ![c] = "registered"]
      /\ reader \in [Conn -> {"new", "registered", "reading", "leaving", "done"}]
      /\ bySteam \in [Account -> Conn \cup {None}]
  BY DEF Register, WithoutOld, ClosedBy, ConnInv, TypeOK
<1>3. OneConnectionPerAccount'
  <2>1. ASSUME NEW a \in Account, a # Owner[c]
        PROVE  bySteam'[a] = bySteam[a] /\ Of(a)' = Of(a)
    <3>1. bySteam'[a] = bySteam[a]
      BY <2>1, <1>2
    <3>2. \A x \in Conn : Owner[x] = a => (x \in clients' <=> x \in clients)
      BY <2>1, <1>1, <1>2
    <3>3. clients \subseteq Conn /\ clients' \subseteq Conn
      BY <1>2 DEF ConnInv, TypeOK
    <3>4. Of(a)' = {x \in clients' : Owner[x] = a} /\ Of(a) = {x \in clients : Owner[x] = a}
      BY DEF Of
    <3> QED BY <3>1, <3>2, <3>3, <3>4
  <2>2. bySteam'[Owner[c]] = c /\ c # None
    BY <1>1, <1>2
  <2>3. Of(Owner[c])' = {c}
    <3>1. \A x \in clients : Owner[x] = Owner[c] => x = old
      BY <1>1 DEF ConnInv, OneConnectionPerAccount, Of
    <3> QED BY <3>1, <1>2 DEF Of
  <2> QED BY <2>1, <2>2, <2>3 DEF ConnInv, OneConnectionPerAccount
<1>4. CrowdIsOpen'
  BY <1>1, <1>2 DEF ConnInv, CrowdIsOpen
<1>5. CrowdIsServed'
  BY <1>1, <1>2 DEF ConnInv, CrowdIsServed
<1> QED BY <1>3, <1>4, <1>5

\* A connection leaves the registry, and its account with it unless a newer
\* connection has taken the account over.
LEMMA UnregisterKeeps ==
  ASSUME ConnInv, NEW c \in Conn, Unregister(c)
  PROVE  OneConnectionPerAccount' /\ CrowdIsOpen' /\ CrowdIsServed'
<1>1. /\ clients' = clients \ {c} /\ closed' = closed
      /\ bySteam' = StrikeOff(c)
      /\ reader' = [reader EXCEPT ![c] = "leaving"]
      /\ reader \in [Conn -> {"new", "registered", "reading", "leaving", "done"}]
      /\ bySteam \in [Account -> Conn \cup {None}]
      /\ Owner[c] \in Account /\ None \notin Conn
  BY ConnAssumption DEF Unregister, ConnInv, TypeOK, ConnAssumption
<1>2. OneConnectionPerAccount'
  <2> SUFFICES ASSUME NEW a \in Account
               PROVE  Of(a)' = IF bySteam'[a] = None THEN {} ELSE {bySteam'[a]}
    BY DEF OneConnectionPerAccount
  <2>1. Of(a) = IF bySteam[a] = None THEN {} ELSE {bySteam[a]}
    BY DEF ConnInv, OneConnectionPerAccount
  <2>2. Of(a)' = Of(a) \ {c}
    BY <1>1 DEF Of
  <2>3. CASE bySteam[a] = c
    <3>1. c \in Of(a)
      BY <2>1, <2>3, <1>1
    <3>2. a = Owner[c]
      BY <3>1 DEF Of
    <3>3. bySteam'[a] = None
      BY <3>2, <2>3, <1>1 DEF StrikeOff
    <3> QED BY <2>1, <2>2, <2>3, <3>3
  <2>4. CASE bySteam[a] # c
    <3>1. bySteam'[a] = bySteam[a]
      BY <2>4, <1>1 DEF StrikeOff
    <3> QED BY <2>1, <2>2, <2>4, <3>1
  <2> QED BY <2>3, <2>4
<1>3. CrowdIsOpen'
  BY <1>1 DEF ConnInv, CrowdIsOpen
<1>4. CrowdIsServed'
  BY <1>1 DEF ConnInv, CrowdIsServed
<1> QED BY <1>2, <1>3, <1>4

\* The last step of unregister closes a channel nobody counts on any more.
LEMMA CloseSendKeeps ==
  ASSUME ConnInv, NEW c \in Conn, CloseSend(c)
  PROVE  OneConnectionPerAccount' /\ CrowdIsOpen' /\ CrowdIsServed'
<1>1. /\ clients' = clients /\ bySteam' = bySteam /\ closed' = closed \cup {c}
      /\ reader[c] = "leaving" /\ reader' = [reader EXCEPT ![c] = "done"]
      /\ reader \in [Conn -> {"new", "registered", "reading", "leaving", "done"}]
  BY DEF CloseSend, ConnInv, TypeOK
<1>2. c \notin clients
  BY <1>1 DEF ConnInv, CrowdIsServed
<1>3. OneConnectionPerAccount'
  BY <1>1 DEF ConnInv, OneConnectionPerAccount, Of
<1>4. CrowdIsOpen' /\ CrowdIsServed'
  BY <1>1, <1>2 DEF ConnInv, CrowdIsOpen, CrowdIsServed
<1> QED BY <1>3, <1>4

LEMMA StepKeeps == ConnInv /\ [Next]_vars => ConnInv'
<1> SUFFICES ASSUME ConnInv, [Next]_vars PROVE ConnInv'
  OBVIOUS
<1> DEFINE Parts == OneConnectionPerAccount' /\ CrowdIsOpen' /\ CrowdIsServed'
<1>1. TypeOK'
  BY NextType DEF ConnInv
<1>2. ASSUME NEW c \in Conn, Register(c) PROVE Parts
  BY <1>2, RegisterKeeps
<1>3. ASSUME NEW c \in Conn, Unregister(c) PROVE Parts
  BY <1>3, UnregisterKeeps
<1>4. ASSUME NEW c \in Conn, CloseSend(c) PROVE Parts
  BY <1>4, CloseSendKeeps
<1>5. ASSUME NEW c \in Conn, StartPumps(c) PROVE Parts
  BY <1>5, Undisturbed DEF StartPumps, ConnInv, TypeOK
<1>6. ASSUME NEW c \in Conn, Hangup(c) \/ Write(c) \/ EndWriter(c) \/ Send(c) PROVE Parts
  BY <1>6, Undisturbed DEF Hangup, Write, EndWriter, Send
<1>7. ASSUME NEW a \in Account, Drop(a) PROVE Parts
  BY <1>7, Undisturbed DEF Drop, Hangup
<1>8. ASSUME Snapshot PROVE Parts
  BY <1>8, Undisturbed DEF Snapshot
<1>9. ASSUME UNCHANGED vars PROVE Parts
  BY <1>9, Undisturbed DEF vars
<1>10. Parts
  BY <1>2, <1>3, <1>4, <1>5, <1>6, <1>7, <1>8, <1>9 DEF Next
<1> QED BY <1>1, <1>10 DEF ConnInv

\* The registry's invariant holds in every reachable state: register, eviction,
\* unregister and closeSend in any interleaving.
THEOREM ConnInvariant == Spec => []ConnInv
BY InitHolds, StepKeeps, PTL DEF Spec

\* Every variable keeps its type; no channel holds more than its capacity.
THEOREM ConnTypeCorrect == Spec => []TypeOK
<1>1. ConnInv => TypeOK
  BY DEF ConnInv
<1> QED BY <1>1, ConnInvariant, PTL

\* Hub.clients and Hub.bySteam always name the same connections, at most one
\* of each account, in whatever order connections of an account come and go.
THEOREM AlwaysOnePerAccount == Spec => []OneConnectionPerAccount
<1>1. ConnInv => OneConnectionPerAccount
  BY DEF ConnInv
<1> QED BY <1>1, ConnInvariant, PTL

\* A connection in the crowd can always be sent to, and one that left it is
\* closed or its read pump is about to close it.
THEOREM CrowdAlwaysOpen == Spec => []CrowdIsOpen
<1>1. ConnInv => CrowdIsOpen
  BY DEF ConnInv
<1> QED BY <1>1, ConnInvariant, PTL

\* Client.enqueue never sends on a closed channel, however old the copy of the
\* registry it is called from.
THEOREM NoSendOnClosed == Spec => NeverSendOnClosed
<1> DEFINE NoSend == \A c \in Conn : held'[c] > held[c] => c \notin closed
<1>1. ConnInv /\ [Next]_vars => [NoSend]_vars
  <2> SUFFICES ASSUME TypeOK, Next PROVE NoSend
    BY DEF ConnInv
  <2>1. \A c \in Conn : held[c] \in Int
    BY ConnAssumption DEF TypeOK, ConnAssumption
  <2>2. ASSUME NEW c \in Conn, Enqueue(c) PROVE NoSend
    <3>1. CASE Takes(c)
      <4>1. c \notin closed /\ \A x \in Conn \ {c} : held'[x] = held[x]
        BY <2>2, <3>1 DEF Enqueue, Takes, TypeOK
      <4> QED BY <4>1, <2>1
    <3>2. CASE ~Takes(c)
      BY <2>2, <3>2, <2>1 DEF Enqueue
    <3> QED BY <3>1, <3>2
  <2>3. ASSUME NEW c \in Conn, Write(c) PROVE NoSend
    <3>1. \A x \in Conn : held'[x] \in {held[x], held[x] - 1}
      BY <2>3 DEF Write, TypeOK
    <3> QED BY <3>1, <2>1
  <2>4. CASE held' = held
    BY <2>4, <2>1
  <2> QED BY <2>2, <2>3, <2>4
      DEF Next, Register, StartPumps, Hangup, Unregister, CloseSend, EndWriter,
          Drop, Snapshot, Send
<1> QED BY <1>1, ConnInvariant, PTL DEF Spec, NeverSendOnClosed

\* The unregister of an evicted connection never takes its successor out, even
\* when it runs after the successor has registered.
THEOREM NewestAlwaysStays == Spec => NewestStays
<1> DEFINE Stays ==
      \A a \in Account :
        bySteam'[a] # bySteam[a] /\ bySteam[a] # None =>
          \/ bySteam'[a] # None /\ reader[bySteam'[a]] = "new"
          \/ bySteam'[a] = None /\ reader'[bySteam[a]] = "leaving"
<1>1. ConnInv /\ [Next]_vars => [Stays]_vars
  <2> SUFFICES ASSUME TypeOK, Next PROVE Stays
    BY DEF ConnInv
  <2>1. ASSUME NEW c \in Conn, Register(c) PROVE Stays
    <3>1. \A a \in Account : bySteam'[a] # bySteam[a] => bySteam'[a] = c
      BY <2>1 DEF Register, TypeOK
    <3> QED BY <3>1, <2>1, ConnAssumption DEF Register, ConnAssumption
  <2>2. ASSUME NEW c \in Conn, Unregister(c) PROVE Stays
    <3>1. \A a \in Account :
            bySteam'[a] # bySteam[a] => bySteam[a] = c /\ bySteam'[a] = None
      BY <2>2 DEF Unregister, StrikeOff, TypeOK
    <3>2. reader'[c] = "leaving"
      BY <2>2 DEF Unregister, TypeOK
    <3> QED BY <3>1, <3>2
  <2>3. CASE bySteam' = bySteam
    BY <2>3
  <2> QED BY <2>1, <2>2, <2>3
      DEF Next, StartPumps, Hangup, CloseSend, Write, EndWriter, Send, Drop, Snapshot
<1> QED BY <1>1, ConnInvariant, PTL DEF Spec, NewestStays

-----------------------------------------------------------------------------
(* The door.                                                               *)

\* Tickets, bans and drops let nothing into the registry that Connections does
\* not allow: every step of wsConnect, of the admin pages and of the pumps is
\* a step of the registry or leaves it alone.
THEOREM AdmissionImplementsConnections == AdmissionSpec => Spec
<1>1. AdmissionInit => Init
  BY DEF AdmissionInit
<1>2. [AdmissionNext]_allVars => [Next]_vars
  <2> SUFFICES ASSUME [AdmissionNext]_allVars PROVE [Next]_vars
    OBVIOUS
  <2>1. CASE Inside
    BY <2>1 DEF Inside, Next
  <2>2. ASSUME NEW a \in Account, AdminDrop(a) PROVE [Next]_vars
    BY <2>2 DEF AdminDrop, Next
  <2>3. ASSUME NEW c \in Conn, Enter(c) PROVE [Next]_vars
    BY <2>3 DEF Enter, Next
  <2>4. ASSUME NEW a \in Account, Ban(a) \/ Unban(a) \/ \E t \in Ticket : Auth(a, t)
        PROVE UNCHANGED vars
    BY <2>4 DEF Ban, Unban, Auth
  <2>5. ASSUME NEW c \in Conn, LookUp(c) \/ LookUpFails(c) \/ UpgradeFails(c)
                 \/ \E t \in Ticket : Present(c, t)
        PROVE UNCHANGED vars
    BY <2>5 DEF LookUp, LookUpFails, UpgradeFails, Present
  <2>6. ASSUME NEW t \in Ticket, Expire(t) PROVE UNCHANGED vars
    BY <2>6 DEF Expire
  <2>7. CASE UNCHANGED allVars
    BY <2>7 DEF allVars
  <2> QED BY <2>1, <2>2, <2>3, <2>4, <2>5, <2>6, <2>7 DEF AdmissionNext
<1> QED BY <1>1, <1>2, PTL DEF AdmissionSpec, Spec

\* One connection per account in the crowd, whoever is banned or dropped while
\* requests are at the door.
THEOREM AdmittedOnePerAccount == AdmissionSpec => []OneConnectionPerAccount
  BY AdmissionImplementsConnections, AlwaysOnePerAccount, PTL

\* The panic of a send on a closed channel stays out of reach behind the door.
THEOREM AdmittedNeverSendOnClosed == AdmissionSpec => NeverSendOnClosed
  BY AdmissionImplementsConnections, NoSendOnClosed, PTL

\* An evicted connection's late unregister takes nobody out behind the door.
THEOREM AdmittedNewestStays == AdmissionSpec => NewestStays
  BY AdmissionImplementsConnections, NewestAlwaysStays, PTL

-----------------------------------------------------------------------------
DoorTypeOK ==
  /\ tickets \in [Ticket -> {None} \cup [account : Account, expired : BOOLEAN]]
  /\ door \in [Conn -> {"outside", "named", "looked", "in", "refused"}]
  /\ shown \in [Conn -> Ticket \cup {None}]
  /\ bans \subseteq Account /\ dropped \subseteq bans
  /\ marked \subseteq Conn /\ excused \subseteq Conn

\* A ticket that let a request in is not in the store any more.
ShownIsSpent ==
  \A c \in Conn : shown[c] # None => tickets[shown[c]] = None

\* A connection with an open socket is in the pumps' care.
SocketIsRead ==
  \A c \in sock : reader[c] \in {"registered", "reading"}

\* The ban holds for requests past their lookup as well.
BanHoldsAtTheDoor ==
  \A c \in Conn :
    (door[c] = "looked" \/ c \in sock) /\ Owner[c] \in bans \cap dropped
      => c \in marked \cup closed \cup excused

\* The inductive invariant of the door.
DoorInv ==
  /\ DoorTypeOK
  /\ ShownIsSpent
  /\ TicketOpensOnce
  /\ SocketIsRead
  /\ BanHoldsAtTheDoor

LEMMA DoorInitHolds == AdmissionInit => DoorInv
<1> SUFFICES ASSUME AdmissionInit PROVE DoorInv
  OBVIOUS
<1>1. DoorTypeOK
  BY DEF AdmissionInit, DoorTypeOK
<1>2. ShownIsSpent /\ TicketOpensOnce
  BY DEF AdmissionInit, ShownIsSpent, TicketOpensOnce
<1>3. SocketIsRead /\ BanHoldsAtTheDoor
  BY DEF AdmissionInit, Init, SocketIsRead, BanHoldsAtTheDoor
<1> QED BY <1>1, <1>2, <1>3 DEF DoorInv

LEMMA DoorNextType ==
  ASSUME DoorTypeOK, [AdmissionNext]_allVars
  PROVE  DoorTypeOK'
<1> USE DEF DoorTypeOK, doorVars, banVars
<1>1. CASE Inside
  BY <1>1 DEF Inside, admissionVars
<1>2. ASSUME NEW t \in Ticket, Expire(t) PROVE DoorTypeOK'
  <2>1. tickets[t] \in [account : Account, expired : BOOLEAN]
    BY <1>2 DEF Expire
  <2>2. tickets' = [tickets EXCEPT ![t] = [tickets[t] EXCEPT !.expired = TRUE]]
    BY <1>2 DEF Expire
  <2>3. [tickets[t] EXCEPT !.expired = TRUE] \in [account : Account, expired : BOOLEAN]
    BY <2>1
  <2> QED BY <1>2, <2>2, <2>3 DEF Expire
<1>3. ASSUME NEW a \in Account, Ban(a) \/ Unban(a) PROVE DoorTypeOK'
  BY <1>3 DEF Ban, Unban
<1>4. ASSUME NEW a \in Account, AdminDrop(a) PROVE DoorTypeOK'
  BY <1>4 DEF AdminDrop
<1>5. ASSUME NEW a \in Account, NEW t \in Ticket, Auth(a, t) PROVE DoorTypeOK'
  <2>1. \A u \in Ticket :
          Put(t, a)[u] \in {None} \cup [account : Account, expired : BOOLEAN]
    BY DEF Put
  <2> QED BY <1>5, <2>1 DEF Auth, Put
<1>6. ASSUME NEW c \in Conn, LookUp(c) \/ LookUpFails(c) \/ UpgradeFails(c)
      PROVE  DoorTypeOK'
  BY <1>6 DEF LookUp, LookUpFails, UpgradeFails
<1>7. ASSUME NEW c \in Conn, Enter(c) PROVE DoorTypeOK'
  BY <1>7 DEF Enter
<1>8. ASSUME NEW c \in Conn, NEW t \in Ticket, Present(c, t) PROVE DoorTypeOK'
  BY <1>8 DEF Present, Spent
<1>9. CASE UNCHANGED allVars
  BY <1>9 DEF allVars, admissionVars
<1> QED
  BY <1>1, <1>2, <1>3, <1>4, <1>5, <1>6, <1>7, <1>8, <1>9 DEF AdmissionNext

\* A ticket is filed only under a name that let nobody in, and whoever is let
\* in takes its ticket out of the store in the same step.
LEMMA NextTicket ==
  ASSUME DoorInv, [AdmissionNext]_allVars
  PROVE  ShownIsSpent' /\ TicketOpensOnce'
<1> USE DEF DoorInv, ShownIsSpent, TicketOpensOnce, doorVars
<1>1. ASSUME NEW t \in Ticket, Expire(t) PROVE ShownIsSpent' /\ TicketOpensOnce'
  BY <1>1 DEF Expire, DoorTypeOK
<1>2. ASSUME NEW a \in Account, NEW t \in Ticket, Auth(a, t)
      PROVE  ShownIsSpent' /\ TicketOpensOnce'
  <2>1. \A u \in Ticket : u # t /\ tickets[u] = None => tickets'[u] = None
    BY <1>2 DEF Auth, Put, Expired
  <2> QED BY <1>2, <2>1 DEF Auth, DoorTypeOK
<1>3. ASSUME NEW c \in Conn, NEW t \in Ticket, Present(c, t)
      PROVE  ShownIsSpent' /\ TicketOpensOnce'
  <2>1. \A u \in Ticket : tickets'[u] = IF u = t THEN None ELSE tickets[u]
    BY <1>3 DEF Present, Spent, DoorTypeOK
  <2>2. CASE UNCHANGED shown
    BY <2>1, <2>2 DEF DoorTypeOK
  <2>3. CASE ~UNCHANGED shown
    <3>1. tickets[t] # None /\ shown' = [shown EXCEPT ![c] = t]
      BY <1>3, <2>3 DEF Present
    <3>2. \A d \in Conn : shown[d] # None => shown[d] # t
      BY <3>1 DEF DoorTypeOK
    <3> QED BY <2>1, <3>1, <3>2 DEF DoorTypeOK
  <2> QED BY <2>2, <2>3
<1>4. CASE UNCHANGED <<tickets, shown>>
  BY <1>4
<1> QED
  BY <1>1, <1>2, <1>3, <1>4
  DEF AdmissionNext, Inside, admissionVars, allVars, Ban, Unban, AdminDrop, LookUp,
      LookUpFails, UpgradeFails, Enter

\* A socket is opened by Register alone, and Hub.unregister runs only after
\* the socket is gone.
LEMMA NextSocket ==
  ASSUME ConnInv, DoorInv, [Next]_vars
  PROVE  SocketIsRead'
<1> USE DEF DoorInv, SocketIsRead, ConnInv, TypeOK
<1>1. ASSUME NEW c \in Conn, Register(c) PROVE SocketIsRead'
  BY <1>1 DEF Register
<1>2. ASSUME NEW c \in Conn, StartPumps(c) \/ Unregister(c) PROVE SocketIsRead'
  BY <1>2 DEF StartPumps, Unregister
<1>3. ASSUME NEW c \in Conn, CloseSend(c) PROVE SocketIsRead'
  <2>1. c \notin sock
    BY <1>3 DEF CloseSend
  <2> QED BY <1>3, <2>1 DEF CloseSend
<1>4. ASSUME NEW c \in Conn, Hangup(c) \/ EndWriter(c) PROVE SocketIsRead'
  BY <1>4 DEF Hangup, EndWriter
<1>5. CASE UNCHANGED <<sock, reader>>
  BY <1>5
<1> QED
  BY <1>1, <1>2, <1>3, <1>4, <1>5 DEF Next, Write, Send, Snapshot, Drop, vars

\* Once the account is dropped, its current connection has lost its socket and
\* any other was evicted, so closed, when it was replaced.
LEMMA DropClosesAll ==
  ASSUME ConnInv, SocketIsRead, NEW a \in Account, AdminDrop(a),
         NEW c \in sock', Owner[c] = a
  PROVE  c \in closed
<1>1. c \in sock /\ c \in Conn
  BY DEF AdminDrop, Drop, Hangup, vars, ConnInv, TypeOK
<1>2. c # bySteam[a]
  BY <1>1, ConnAssumption DEF AdminDrop, Drop, Hangup, vars, ConnAssumption
<1>3. c \notin clients
  BY <1>1, <1>2 DEF ConnInv, OneConnectionPerAccount, Of
<1>4. reader[c] # "new" /\ reader[c] # "leaving"
  BY <1>1 DEF SocketIsRead
<1> QED BY <1>1, <1>3, <1>4 DEF ConnInv, CrowdIsOpen

LEMMA NextBan ==
  ASSUME ConnInv, DoorInv, [AdmissionNext]_allVars
  PROVE  BanHoldsAtTheDoor'
<1> USE DEF DoorInv, BanHoldsAtTheDoor, DoorTypeOK, doorVars, banVars
<1>1. CASE Inside
  <2>1. closed \subseteq closed' /\ sock' \subseteq sock
    BY <1>1 DEF Inside, Snapshot, StartPumps, Hangup, Unregister, CloseSend, Write,
       EndWriter, Send
  <2> QED BY <1>1, <2>1 DEF Inside, admissionVars
<1>2. ASSUME NEW a \in Account, Ban(a) \/ Unban(a) PROVE BanHoldsAtTheDoor'
  BY <1>2 DEF Ban, Unban, vars
<1>3. ASSUME NEW a \in Account, AdminDrop(a) PROVE BanHoldsAtTheDoor'
  <2>1. closed' = closed /\ sock' \subseteq sock
    BY <1>3 DEF AdminDrop, Drop, Hangup, vars
  <2>2. ASSUME NEW c \in sock', Owner[c] = a PROVE c \in closed
    BY <1>3, <2>2, DropClosesAll
  <2> QED BY <1>3, <2>1, <2>2 DEF AdminDrop
<1>4. ASSUME NEW c \in Conn, LookUp(c) \/ LookUpFails(c) \/ UpgradeFails(c)
      PROVE  BanHoldsAtTheDoor'
  BY <1>4 DEF LookUp, LookUpFails, UpgradeFails, vars
<1>5. ASSUME NEW c \in Conn, Enter(c) PROVE BanHoldsAtTheDoor'
  <2>1. closed \subseteq closed' /\ sock' = sock \cup {c}
    BY <1>5 DEF Enter, Register, ClosedBy
  <2> QED BY <1>5, <2>1 DEF Enter
<1>6. ASSUME NEW c \in Conn, NEW t \in Ticket, Present(c, t)
      PROVE  BanHoldsAtTheDoor'
  BY <1>6 DEF Present, vars
<1>7. CASE UNCHANGED <<vars, door, banVars>>
  BY <1>7 DEF vars
<1> QED
  BY <1>1, <1>2, <1>3, <1>4, <1>5, <1>6, <1>7
  DEF AdmissionNext, Expire, Auth, allVars, admissionVars

\* The door's invariant holds whatever requests, bans and drops interleave.
THEOREM DoorInvariant == AdmissionSpec => []DoorInv
<1>1. ConnInv /\ DoorInv /\ [Next]_vars /\ [AdmissionNext]_allVars => DoorInv'
  <2> SUFFICES ASSUME ConnInv, DoorInv, [Next]_vars, [AdmissionNext]_allVars
               PROVE  DoorInv'
    OBVIOUS
  <2> QED BY DoorNextType, NextTicket, NextSocket, NextBan DEF DoorInv
<1>2. AdmissionSpec => [][Next]_vars
  BY AdmissionImplementsConnections, PTL DEF Spec
<1>3. AdmissionSpec => []ConnInv
  BY AdmissionImplementsConnections, ConnInvariant, PTL
<1> QED BY DoorInitHolds, <1>1, <1>2, <1>3, PTL DEF AdmissionSpec

\* ticketStore.Take: two requests that show the same ticket can not both have
\* been let in, nor can a ticket be used after it is spent or swept.
THEOREM TicketAlwaysOpensOnce == AdmissionSpec => []TicketOpensOnce
<1>1. DoorInv => TicketOpensOnce
  BY DEF DoorInv
<1> QED BY <1>1, DoorInvariant, PTL

\* adminDropConnection: once a banned account was dropped, every socket of it
\* is marked, on its way out, or excused by a failed lookup or a lookup the
\* drop came too late for.
THEOREM BanAlwaysTakesHold == AdmissionSpec => []BanTakesHold
<1>1. ConnInv /\ DoorInv => BanTakesHold
  BY DEF ConnInv, TypeOK, DoorInv, BanHoldsAtTheDoor, BanTakesHold
<1>2. AdmissionSpec => []ConnInv
  BY AdmissionImplementsConnections, ConnInvariant, PTL
<1> QED BY <1>1, <1>2, DoorInvariant, PTL
==============================================================================
