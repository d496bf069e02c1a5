----------------------------- MODULE Mailboxes -----------------------------
(***************************************************************************)
(* What routing a message between two local conversations promises.  A     *)
(* letter is written once, from one conversation to another, and never     *)
(* changes.  It leaves when the user has allowed it, arrives at most once, *)
(* and is shown to a model only while the user admits it.                  *)
(***************************************************************************)
CONSTANTS
  Conversation,    \* the local conversations
  Name             \* the names of letters

VARIABLES
  letter,          \* the letters written
  allowed,         \* those the user allows
  sent,            \* those that have left
  arrived,         \* those in the inbox of their addressee
  admitted         \* those the user shows to the model

Written == { l.name : l \in letter }

Init ==
  /\ letter = {} /\ allowed = {} /\ sent = {}
  /\ arrived = {} /\ admitted = {}

Write(n, a, b) ==
  /\ n \notin Written \cup allowed \cup sent
  /\ a # b
  /\ letter' = letter \cup {[name |-> n, from |-> a, to |-> b]}
  /\ UNCHANGED <<allowed, sent, arrived, admitted>>

Allow(n) ==
  /\ n \in Written \ sent
  /\ allowed' = allowed \cup {n}
  /\ UNCHANGED <<letter, sent, arrived, admitted>>

Forbid(n) ==
  /\ n \in allowed \ sent
  /\ allowed' = allowed \ {n}
  /\ UNCHANGED <<letter, sent, arrived, admitted>>

Send(n) ==
  /\ n \in allowed \ sent
  /\ sent' = sent \cup {n}
  /\ UNCHANGED <<letter, allowed, arrived, admitted>>

Arrive(n) ==
  /\ n \in sent \ arrived
  /\ arrived' = arrived \cup {n}
  /\ UNCHANGED <<letter, allowed, sent, admitted>>

Admit(n) ==
  /\ n \in arrived
  /\ admitted' = admitted \cup {n}
  /\ UNCHANGED <<letter, allowed, sent, arrived>>

Exclude(n) ==
  /\ n \in admitted
  /\ admitted' = admitted \ {n}
  /\ UNCHANGED <<letter, allowed, sent, arrived>>

Next ==
  \E n \in Name :
    \/ \E a, b \in Conversation : Write(n, a, b)
    \/ Allow(n) \/ Forbid(n) \/ Send(n) \/ Arrive(n)
    \/ Admit(n) \/ Exclude(n)

Spec == Init /\ [][Next]_<<letter, allowed, sent, arrived, admitted>>
=============================================================================
