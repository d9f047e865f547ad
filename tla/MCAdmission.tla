----------------------------- MODULE MCAdmission -----------------------------
(***************************************************************************)
(* A small instance of Admission: one account, two connections one of      *)
(* which replaces the other, and a ticket for each.                        *)
(***************************************************************************)
EXTENDS Admission

CONSTANTS alice, a1, a2, t1, t2

MCAccount == {alice}
MCConn    == {a1, a2}
MCOwner   == [c \in MCConn |-> alice]
MCTicket  == {t1, t2}
==============================================================================
