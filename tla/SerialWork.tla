------------------------------ MODULE SerialWork ------------------------------
(***************************************************************************)
(* What a broker service promises of the work it admits, whatever it is:   *)
(* items are taken in the order of their admission, one at a time; an item *)
(* may be dropped instead of performed (it expired, the service is         *)
(* unhealthy, the service died), and a one-off item is performed at most   *)
(* once.  ServiceQueue implements it.                                      *)
(***************************************************************************)
EXTENDS Sequences, FiniteSets

CONSTANTS OneOff,     \* items that must not be performed twice
          Recurring,  \* items that come back (the idle timer)
          Nothing     \* no item

Items == OneOff \union Recurring

VARIABLES pending,    \* admitted and not yet taken, oldest first
          current,    \* the item taken
          performed   \* one-off items whose operation has begun

svars == <<pending, current, performed>>

Waiting == {pending[i] : i \in DOMAIN pending}

SInit == pending = <<>> /\ current = Nothing /\ performed = {}

(* An item is admitted once at a time, and never after it was performed.   *)
SAdmit(w) ==
  /\ w \notin Waiting \union performed /\ w # current
  /\ pending' = Append(pending, w)
  /\ UNCHANGED <<current, performed>>

STake ==
  /\ pending # <<>> /\ current = Nothing
  /\ pending' = Tail(pending)
  /\ current' = Head(pending)
  /\ UNCHANGED performed

SDrop ==
  /\ pending # <<>> /\ current = Nothing
  /\ pending' = Tail(pending)
  /\ UNCHANGED <<current, performed>>

SPerform ==
  /\ current \in Items \ performed
  /\ performed' = performed \union ({current} \intersect OneOff)
  /\ UNCHANGED <<pending, current>>

SFinish ==
  /\ current # Nothing
  /\ current' = Nothing
  /\ UNCHANGED <<pending, performed>>

SDie == pending' = <<>> /\ current' = Nothing /\ UNCHANGED performed

SNext == (\E w \in Items : SAdmit(w)) \/ STake \/ SDrop \/ SPerform \/ SFinish \/ SDie

SSpec == SInit /\ [][SNext]_svars
=============================================================================
