------------------------ MODULE CheckpointOutboxProofs ------------------------
(***************************************************************************)
(* Proofs about CheckpointOutbox, for any number of turns, conversations   *)
(* and texts, and any number of crashes, failing saves and power losses.   *)
(* The inductive invariant follows an entry through the two forms of the   *)
(* file, the one that reads now and the one a power loss may leave.        *)
(***************************************************************************)
EXTENDS CheckpointOutbox, FiniteSetTheorems, SequenceTheorems, WellFoundedInduction, TLAPS

Written == {"ready", "dispatched", "uncertain", "confirmed"}

Boxes == {outbox, stable}

Active == writer.phase # "none"

(* One create at a time: the write thread, or the outcome it left in the   *)
(* channel, keeps the worker from claiming another entry; nothing but the  *)
(* files and the service outlives the program.                             *)
WriterInv ==
  /\ Active => writer.turn \in Turn /\ worker.writing
  /\ \A i \in Waiting("outcome") : worker.writing /\ ~Active
  /\ \A i, j \in Waiting("outcome") : i = j
  /\ app # "up" => commands = <<>> /\ window = Idle /\ worker = Forgetful /\ writer = Quiet /\ reader = {}

(* What was sent, or is about to be, is past "ready" whatever is read.     *)
CreateInv ==
  /\ \A t \in Turn : creates[t] <= 1
  /\ \A t \in Turn : creates[t] = 1 \/ (writer.phase = "create" /\ writer.turn = t)
       => \A box \in Boxes : box.state[t] \in {"dispatched", "uncertain", "confirmed"}
  /\ writer.phase = "create" => creates[writer.turn] = 0

Stored(t) == summary[t] # None /\ remote[t] = summary[t]

(* What is said to be stored is. *)
StoreInv ==
  /\ \A box \in Boxes : \A t \in Turn : box.state[t] \in Written => summary[t] # None
  /\ \A box \in Boxes : \A t \in Turn : box.state[t] = "confirmed" => Stored(t)
  /\ \A i \in Waiting("outcome") \cup Waiting("readback") : commands[i].ok => Stored(commands[i].turn)
  /\ Active => summary[writer.turn] # None

(* The entries lie after the baseline and within the journal, and a power  *)
(* loss never brings one back that was not written out.                    *)
FileInv ==
  /\ \A box \in Boxes :
       /\ box.after # None => box.after <= completed
       /\ \A t \in Turn : box.state[t] # "absent" => box.after # None /\ box.after < t /\ t <= completed
  /\ \A t \in Turn : outbox.state[t] \in {"absent", "pending"} => stable.state[t] \in {"absent", "pending"}
  /\ app # "down" /\ outbox.after = None => faults > 0
  /\ app = "reconciling" => outbox.after # None

(* The channel hands completions over in order and without gaps, and each  *)
(* checkpoint's intent behind its completion.                              *)
QueueInv ==
  /\ \A i \in Waiting("complete") : commands[i].turn > completed
  /\ \A i, j \in Waiting("complete") : i < j => commands[i].turn < commands[j].turn
  /\ \A i \in Waiting("complete") : \A u \in (completed + 1)..commands[i].turn : u \in TurnsOf("complete")
  /\ \A i, j \in Waiting("queue") : i < j => commands[i].turn < commands[j].turn
  /\ \A j \in Waiting("queue") :
       /\ outbox.after # None => outbox.after < commands[j].turn
       /\ \/ commands[j].turn <= completed
          \/ \E i \in Waiting("complete") : i < j /\ commands[i].turn = commands[j].turn

(* Every completion is in the outbox, on its way there, or was lost to a   *)
(* failing save.                                                           *)
KnownInv ==
  app \in {"recovering", "up"} /\ outbox.after # None =>
    \A u \in (outbox.after + 1)..LastCompleted :
      outbox.state[u] # "absent" \/ u \in TurnsOf("queue") \/ (u \in history.doubted /\ faults > 0)

(* Without a failing save the two forms of the file agree. *)
FaultInv ==
  faults = 0 =>
    /\ stable = outbox
    /\ outbox.after = None => app = "down" /\ completed = history.since
    /\ outbox.after # None => outbox.after = history.since

(* What was given up, is uncertain, or was passed over, was in doubt. *)
DoubtInv ==
  /\ window.blocked \subseteq history.doubted
  /\ \A box \in Boxes : \A t \in Turn : box.state[t] = "uncertain" => t \in history.doubted
  /\ \A box \in Boxes : \A t \in Turn : \A u \in 1..(t - 1) :
       box.state[t] # "absent" /\ box.state[u] = "absent" /\ u > box.after => u \in history.doubted

(* The summary of t builds on every older turn that counts. *)
Built(box, t) ==
  \A u \in Older(t) :
    \/ u \in history.base[t] \cup history.doubted
    \/ box.state[u] = "skipped"
    \/ box.state[u] = "absent" /\ box.after # None /\ u <= box.after

ChainInv ==
  /\ \A box \in Boxes : \A t \in Turn : box.state[t] \in Written => Built(box, t)
  /\ \A t \in Turn : t = window.asked \/ t \in TurnsOf("save") => outbox.state[t] # "absent" /\ Built(outbox, t)

IInv ==
  /\ TypeOK /\ WriterInv /\ CreateInv /\ StoreInv
  /\ FileInv /\ QueueInv /\ KnownInv /\ FaultInv /\ DoubtInv /\ ChainInv

-----------------------------------------------------------------------------
(* The values that stand for nothing. *)
LEMMA Values ==
  /\ MaxTurn \in Nat /\ MaxKills \in Nat /\ MaxFaults \in Nat
  /\ None \notin Nat /\ None \notin Text /\ NoMemory \notin Text /\ None \notin Turn
  /\ \A t \in Turn : t \in Nat /\ t # 0 /\ t # None
BY CheckpointOutboxAssumption DEF Turn

(* The channel: k commands are taken from its front, n are added to it. *)
Shifted(k, n) ==
  /\ commands' \in Seq(Command)
  /\ Len(commands) \in Nat /\ k <= Len(commands)
  /\ DOMAIN commands = 1..Len(commands)
  /\ DOMAIN commands' = 1..(Len(commands) - k + n)
  /\ \A i \in 1..(Len(commands) - k) : commands'[i] = commands[i + k]

LEMMA ChannelSame ==
  ASSUME commands \in Seq(Command), commands' = commands
  PROVE  Shifted(0, 0)
<1>1. Len(commands) \in Nat /\ DOMAIN commands = 1..Len(commands)
  BY LenProperties
<1> QED BY <1>1 DEF Shifted

LEMMA ChannelAdded ==
  ASSUME commands \in Seq(Command), NEW c \in Command, commands' = Append(commands, c)
  PROVE  Shifted(0, 1) /\ commands'[Len(commands) + 1] = c
<1>1. Len(commands) \in Nat /\ DOMAIN commands = 1..Len(commands)
  BY LenProperties
<1>2. /\ commands' \in Seq(Command) /\ Len(commands') = Len(commands) + 1
      /\ \A i \in 1..Len(commands) : commands'[i] = commands[i]
      /\ commands'[Len(commands) + 1] = c
  BY AppendProperties
<1>3. DOMAIN commands' = 1..(Len(commands) + 1)
  BY <1>2, LenProperties
<1> QED BY <1>1, <1>2, <1>3 DEF Shifted

LEMMA ChannelTaken ==
  ASSUME commands \in Seq(Command), commands # <<>>
  PROVE  /\ Head(commands) = commands[1] /\ 1 \in DOMAIN commands /\ commands[1] \in Command
         /\ Len(commands) \in Nat \ {0}
         /\ commands' = Tail(commands) => Shifted(1, 0)
         /\ commands' = Append(Tail(commands), [kind |-> "dispatch"])
              => Shifted(1, 1) /\ commands'[Len(commands)] = [kind |-> "dispatch"]
<1> DEFINE q == Tail(commands)
           d == [kind |-> "dispatch"]
<1>1. Len(commands) \in Nat /\ DOMAIN commands = 1..Len(commands) /\ Len(commands) # 0
  BY LenProperties, EmptySeq
<1>2. /\ Head(commands) = commands[1] /\ q \in Seq(Command) /\ Len(q) = Len(commands) - 1
      /\ \A i \in 1..Len(q) : q[i] = commands[i + 1]
  BY HeadTailProperties
<1>3. DOMAIN q = 1..(Len(commands) - 1)
  BY <1>2, LenProperties
<1>4. d \in Command
  BY DEF Command
<1> HIDE DEF q, d
<1>5. /\ Append(q, d) \in Seq(Command) /\ Len(Append(q, d)) = Len(q) + 1
      /\ \A i \in 1..Len(q) : Append(q, d)[i] = q[i]
      /\ Append(q, d)[Len(q) + 1] = d
  BY <1>2, <1>4, AppendProperties
<1>6. DOMAIN Append(q, d) = 1..(Len(q) + 1)
  BY <1>5, LenProperties
<1>7. ASSUME commands' = q PROVE Shifted(1, 0)
  BY <1>1, <1>2, <1>3, <1>7 DEF Shifted
<1>8. ASSUME commands' = Append(q, d) PROVE Shifted(1, 1) /\ commands'[Len(commands)] = d
  <2>1. Len(q) + 1 = Len(commands)
    BY <1>1, <1>2
  <2>2. \A i \in 1..(Len(commands) - 1) : Append(q, d)[i] = commands[i + 1]
    BY <1>1, <1>2, <1>5
  <2>3. commands'[Len(commands)] = d
    BY <1>5, <1>8, <2>1
  <2>4. Len(q) + 1 = Len(commands) - 1 + 1
    BY <1>1, <1>2
  <2>5. DOMAIN commands' = 1..(Len(commands) - 1 + 1)
    BY <1>6, <1>8, <2>4
  <2>6. \A i \in 1..(Len(commands) - 1) : commands'[i] = commands[i + 1]
    BY <1>8, <2>2
  <2>7. commands' \in Seq(Command) /\ 1 <= Len(commands)
    BY <1>1, <1>5, <1>8
  <2> QED BY <1>1, <2>3, <2>5, <2>6, <2>7 DEF Shifted
<1>9. 1 \in DOMAIN commands /\ commands[1] \in Command /\ Len(commands) \in Nat \ {0}
  BY <1>1
<1> QED BY <1>2, <1>7, <1>8, <1>9 DEF q, d

LEMMA ChannelTwo ==
  ASSUME commands \in Seq(Command), NEW c \in Command, NEW d \in Command, commands' = commands \o <<c, d>>
  PROVE  Shifted(0, 2) /\ commands'[Len(commands) + 1] = c /\ commands'[Len(commands) + 2] = d
<1> DEFINE p == <<c, d>>
<1>1. Len(commands) \in Nat /\ DOMAIN commands = 1..Len(commands)
  BY LenProperties
<1>2. p \in Seq(Command) /\ Len(p) = 2 /\ p[1] = c /\ p[2] = d
  OBVIOUS
<1> HIDE DEF p
<1>3. /\ commands' \in Seq(Command) /\ Len(commands') = Len(commands) + 2
      /\ \A i \in 1..(Len(commands) + 2) :
           commands'[i] = IF i <= Len(commands) THEN commands[i] ELSE p[i - Len(commands)]
  <2>1. commands' = commands \o p
    BY DEF p
  <2>2. Len(commands) + Len(p) = Len(commands) + 2
    BY <1>2
  <2> QED BY <1>2, <2>1, <2>2, ConcatProperties
<1>4. DOMAIN commands' = 1..(Len(commands) + 2)
  BY <1>3, LenProperties
<1>5. commands'[Len(commands) + 1] = c /\ commands'[Len(commands) + 2] = d
  BY <1>1, <1>2, <1>3
<1>6. \A i \in 1..Len(commands) : commands'[i] = commands[i]
  BY <1>1, <1>3
<1> QED BY <1>1, <1>3, <1>4, <1>5, <1>6 DEF Shifted

(* What a command holds. *)
LEMMA CommandParts ==
  ASSUME NEW c \in Command
  PROVE  /\ c.kind \in {"complete", "queue", "save", "preflight", "outcome", "readback"} => c.turn \in Turn
         /\ c.kind = "save" => c.text \in Text \cup {NoMemory}
         /\ c.kind \in {"preflight", "outcome", "readback"} => c.ok \in BOOLEAN
BY DEF Command

-----------------------------------------------------------------------------
(* The file. *)
WellFormed(box) ==
  /\ box \in Outbox
  /\ IsInjective(box.queue)
  /\ ToSet(box.queue) = { t \in Turn : box.state[t] # "absent" }

LEMMA BoxParts ==
  ASSUME NEW box, WellFormed(box)
  PROVE  /\ box = [after |-> box.after, queue |-> box.queue, state |-> box.state]
         /\ box.after \in Nat \cup {None} /\ box.queue \in Seq(Turn) /\ box.state \in [Turn -> State]
         /\ \A t \in Turn : box.state[t] \in State
BY DEF WellFormed, Outbox

LEMMA BoxTyped ==
  ASSUME TypeOK
  PROVE  WellFormed(outbox) /\ WellFormed(stable)
BY DEF TypeOK, WellFormed

(* An entry is added, or changes its state. *)
Edited(box, t, next) ==
  /\ WellFormed(box) /\ box.after = outbox.after
  /\ box.state[t] = next
  /\ \A u \in Turn : u # t => box.state[u] = outbox.state[u]

LEMMA EnqueuedBox ==
  ASSUME WellFormed(outbox), NEW t \in Turn, outbox.state[t] = "absent"
  PROVE  Edited(Enqueued(outbox, t), t, "pending") /\ ToSet(outbox.queue) \subseteq ToSet(Enqueued(outbox, t).queue)
<1> DEFINE q == outbox.queue
           f == [outbox.state EXCEPT ![t] = "pending"]
           box == [after |-> outbox.after, queue |-> Append(q, t), state |-> f]
<1>1. /\ outbox = [after |-> outbox.after, queue |-> q, state |-> outbox.state]
      /\ outbox.after \in Nat \cup {None} /\ q \in Seq(Turn) /\ outbox.state \in [Turn -> State]
  BY BoxParts
<1>2. [outbox EXCEPT !.queue = Append(@, t)] = [after |-> outbox.after, queue |-> Append(q, t), state |-> outbox.state]
  <2>1. \A x : [outbox EXCEPT !.queue = x] = [after |-> outbox.after, queue |-> x, state |-> outbox.state]
    BY <1>1
  <2>2. [outbox EXCEPT !.queue = Append(@, t)] = [outbox EXCEPT !.queue = Append(q, t)]
    OBVIOUS
  <2> QED BY <2>1, <2>2
<1>3. Enqueued(outbox, t) = box
  <2> DEFINE m == [after |-> outbox.after, queue |-> Append(q, t), state |-> outbox.state]
  <2>1. Enqueued(outbox, t) = [[outbox EXCEPT !.queue = Append(@, t)] EXCEPT !.state[t] = "pending"]
    BY DEF Enqueued
  <2>2. Enqueued(outbox, t) = [m EXCEPT !.state[t] = "pending"]
    BY <1>2, <2>1
  <2>3. [m EXCEPT !.state[t] = "pending"] = [m EXCEPT !.state = [m.state EXCEPT ![t] = "pending"]]
    OBVIOUS
  <2>4. m.state = outbox.state /\ m = [after |-> outbox.after, queue |-> Append(q, t), state |-> m.state]
    OBVIOUS
  <2> QED BY <2>2, <2>3, <2>4
<1>4. f \in [Turn -> State] /\ f[t] = "pending" /\ \A u \in Turn : u # t => f[u] = outbox.state[u]
  BY <1>1 DEF State
<1>5. Len(q) \in Nat /\ DOMAIN q = 1..Len(q)
  BY <1>1, LenProperties
<1>6. /\ Append(q, t) \in Seq(Turn) /\ Len(Append(q, t)) = Len(q) + 1
      /\ \A i \in 1..Len(q) : Append(q, t)[i] = q[i]
      /\ Append(q, t)[Len(q) + 1] = t
  BY <1>1, AppendProperties
<1> DEFINE r == Append(q, t)
<1>7. DOMAIN r = 1..(Len(q) + 1)
  BY <1>6, LenProperties
<1> HIDE DEF r, f, q
<1>8. \A i \in DOMAIN r : (i \in DOMAIN q /\ r[i] = q[i]) \/ (i = Len(q) + 1 /\ r[i] = t)
  <2>1. \A i \in 1..(Len(q) + 1) : i \in 1..Len(q) \/ i = Len(q) + 1
    BY <1>5
  <2> QED BY <1>5, <1>6, <1>7, <2>1 DEF r
<1>9. Len(q) + 1 \in DOMAIN r /\ r[Len(q) + 1] = t /\ \A i \in DOMAIN q : i \in DOMAIN r /\ r[i] = q[i]
  BY <1>5, <1>6, <1>7 DEF r
<1>10. ToSet(r) = ToSet(q) \cup {t}
  BY <1>8, <1>9 DEF ToSet
<1>11. ToSet(q) = { u \in Turn : outbox.state[u] # "absent" }
  BY DEF WellFormed, q
<1>12. ToSet(r) = { u \in Turn : f[u] # "absent" }
  BY <1>4, <1>10, <1>11
<1>13. IsInjective(r)
  <2>1. IsInjective(q)
    BY DEF WellFormed, q
  <2>2. \A i \in DOMAIN q : q[i] # t
    BY <1>11 DEF ToSet
  <2> QED BY <1>8, <2>1, <2>2 DEF IsInjective
<1>14. box \in Outbox /\ box.queue = r /\ box.state = f /\ box.after = outbox.after
  BY <1>1, <1>4, <1>6 DEF Outbox, r
<1> HIDE DEF box
<1>15. WellFormed(box)
  BY <1>12, <1>13, <1>14 DEF WellFormed
<1> QED BY <1>3, <1>4, <1>10, <1>14, <1>15 DEF Edited, q

LEMMA MovedBox ==
  ASSUME WellFormed(outbox), NEW t \in Turn, outbox.state[t] # "absent", NEW next \in State, next # "absent"
  PROVE  Edited(Moved(outbox, t, next), t, next) /\ Moved(outbox, t, next).queue = outbox.queue
<1> DEFINE f == [outbox.state EXCEPT ![t] = next]
           box == [after |-> outbox.after, queue |-> outbox.queue, state |-> f]
<1>1. /\ outbox = [after |-> outbox.after, queue |-> outbox.queue, state |-> outbox.state]
      /\ outbox.after \in Nat \cup {None} /\ outbox.queue \in Seq(Turn) /\ outbox.state \in [Turn -> State]
  BY BoxParts
<1>2. Moved(outbox, t, next) = [outbox EXCEPT !.state = f]
  BY DEF Moved
<1>3. Moved(outbox, t, next) = box
  BY <1>1, <1>2
<1>4. f \in [Turn -> State] /\ f[t] = next /\ \A u \in Turn : u # t => f[u] = outbox.state[u]
  BY <1>1
<1> HIDE DEF f
<1>5. { u \in Turn : outbox.state[u] # "absent" } = { u \in Turn : f[u] # "absent" }
  BY <1>4
<1>6. box \in Outbox /\ box.queue = outbox.queue /\ box.state = f /\ box.after = outbox.after
  BY <1>1, <1>4 DEF Outbox
<1> HIDE DEF box
<1>7. WellFormed(box)
  BY <1>5, <1>6 DEF WellFormed
<1> QED BY <1>3, <1>4, <1>6, <1>7 DEF Edited

Recovered == [outbox EXCEPT !.state = [t \in Turn |-> IF t \in Dispatched THEN "uncertain" ELSE @[t]]]

LEMMA RecoveredBox ==
  ASSUME WellFormed(outbox)
  PROVE  /\ WellFormed(Recovered) /\ Recovered.after = outbox.after /\ Recovered.queue = outbox.queue
         /\ \A t \in Turn : Recovered.state[t] =
              IF outbox.state[t] = "dispatched" THEN "uncertain" ELSE outbox.state[t]
<1> DEFINE f == [t \in Turn |-> IF t \in Dispatched THEN "uncertain" ELSE outbox.state[t]]
           box == [after |-> outbox.after, queue |-> outbox.queue, state |-> f]
<1>1. /\ outbox = [after |-> outbox.after, queue |-> outbox.queue, state |-> outbox.state]
      /\ outbox.after \in Nat \cup {None} /\ outbox.queue \in Seq(Turn) /\ outbox.state \in [Turn -> State]
  BY BoxParts
<1>2. Recovered = [outbox EXCEPT !.state = f]
  BY DEF Recovered
<1>3. Recovered = box
  <2>1. \A x : [outbox EXCEPT !.state = x] = [after |-> outbox.after, queue |-> outbox.queue, state |-> x]
    BY <1>1
  <2> QED BY <1>2, <2>1
<1>4. \A t \in Turn : f[t] = IF outbox.state[t] = "dispatched" THEN "uncertain" ELSE outbox.state[t]
  BY DEF Dispatched
<1>5. f \in [Turn -> State]
  BY <1>1, <1>4 DEF State
<1> HIDE DEF f
<1>6. { u \in Turn : outbox.state[u] # "absent" } = { u \in Turn : f[u] # "absent" }
  BY <1>4
<1>7. box \in Outbox /\ box.queue = outbox.queue /\ box.state = f /\ box.after = outbox.after
  BY <1>1, <1>5 DEF Outbox
<1> HIDE DEF box
<1>8. WellFormed(box)
  BY <1>6, <1>7 DEF WellFormed
<1> QED BY <1>3, <1>4, <1>7, <1>8

Activated == [outbox EXCEPT !.after = completed]

LEMMA ActivatedBox ==
  ASSUME WellFormed(outbox), completed \in Nat
  PROVE  /\ WellFormed(Activated) /\ Activated.after = completed /\ Activated.queue = outbox.queue
         /\ Activated.state = outbox.state
<1> DEFINE box == [after |-> completed, queue |-> outbox.queue, state |-> outbox.state]
<1>1. /\ outbox = [after |-> outbox.after, queue |-> outbox.queue, state |-> outbox.state]
      /\ outbox.queue \in Seq(Turn) /\ outbox.state \in [Turn -> State]
  BY BoxParts
<1>2. Activated = box
  BY <1>1 DEF Activated
<1>3. box \in Outbox /\ box.queue = outbox.queue /\ box.state = outbox.state /\ box.after = completed
  BY <1>1 DEF Outbox
<1> HIDE DEF box
<1>4. WellFormed(box)
  BY <1>3 DEF WellFormed
<1> QED BY <1>2, <1>3, <1>4

-----------------------------------------------------------------------------
(* A set of numbers has a least, a bounded one a greatest. *)
LEMMA Least ==
  ASSUME NEW S \in SUBSET Nat, S # {}
  PROVE  Min(S) \in S /\ \A y \in S : Min(S) <= y
<1>1. PICK x \in S : \A y \in S : ~(<<y, x>> \in OpToRel(<, Nat))
  BY WFMin, NatLessThanWellFounded
<1>2. \A y \in S : ~(y < x)
  BY <1>1 DEF OpToRel
<1>3. \A y \in S : x <= y
  BY <1>2
<1> QED BY <1>3 DEF Min

LEMMA Greatest ==
  ASSUME NEW n \in Nat, NEW S \in SUBSET (0..n), S # {}
  PROVE  Max(S) \in S /\ \A y \in S : y <= Max(S)
<1> DEFINE T == { n - i : i \in S }
<1>0. \A i \in S : i \in 0..n /\ n - i \in Nat /\ n - i \in T
  OBVIOUS
<1>1. T \subseteq Nat /\ T # {}
  BY <1>0
<1>2. PICK x \in T : \A y \in T : x <= y
  BY <1>1, Least
<1>3. PICK i \in S : x = n - i
  OBVIOUS
<1>4. \A j \in S : i >= j
  <2> TAKE j \in S
  <2>1. n - i <= n - j
    BY <1>0, <1>2, <1>3
  <2> HIDE DEF T
  <2> QED BY <1>0, <2>1
<1>5. Max(S) \in S /\ \A y \in S : Max(S) >= y
  BY <1>4 DEF Max
<1> QED BY <1>0, <1>5

(* The first of some entries is one of them. *)
LEMMA FirstOf ==
  ASSUME NEW box, WellFormed(box), NEW ts, ts # {}, ts \subseteq ToSet(box.queue)
  PROVE  First(box, ts) \in ts
<1> DEFINE S == { i \in DOMAIN box.queue : box.queue[i] \in ts }
<1>1. box.queue \in Seq(Turn)
  BY BoxParts
<1>2. S \in SUBSET Nat
  <2>1. DOMAIN box.queue = 1..Len(box.queue) /\ Len(box.queue) \in Nat
    BY <1>1, LenProperties
  <2> QED BY <2>1
<1>3. S # {}
  BY DEF ToSet
<1>4. Min(S) \in S
  BY <1>2, <1>3, Least
<1> QED BY <1>4 DEF First

LEMMA OldestReady ==
  ASSUME WellFormed(outbox), Oldest(outbox) # None
  PROVE  Oldest(outbox) \in Turn /\ outbox.state[Oldest(outbox)] = "ready"
<1> DEFINE ts == InState(outbox, "ready")
<1>1. ts # {} /\ Oldest(outbox) = First(outbox, ts)
  BY DEF Oldest
<1>2. ts \subseteq ToSet(outbox.queue) /\ \A t \in ts : outbox.state[t] = "ready" /\ t \in Turn
  BY DEF InState, WellFormed
<1> HIDE DEF ts
<1> QED BY <1>1, <1>2, FirstOf

LEMMA OldestMissing ==
  ASSUME Missing # {}, completed \in 0..MaxTurn
  PROVE  /\ Min(Missing) \in Turn /\ outbox.state[Min(Missing)] = "absent" /\ Min(Missing) > outbox.after
         /\ Min(Missing) \in 1..completed /\ Min(Missing) \in Missing
         /\ \A t \in Missing : Min(Missing) <= t
<1>1. Missing \in SUBSET Nat
  BY DEF Missing
<1>2. Min(Missing) \in Missing /\ \A t \in Missing : Min(Missing) <= t
  BY <1>1, Least
<1>3. \A t \in Missing : t \in Turn /\ outbox.state[t] = "absent" /\ t > outbox.after /\ t \in 1..completed
  BY Values DEF Missing, Turn
<1> QED BY <1>2, <1>3

-----------------------------------------------------------------------------
(* A save leaves one of two files to be read, and may be reported failed.  *)
Saved(box) ==
  /\ outbox' \in {outbox, box} /\ stable' \in {stable, outbox'}
  /\ faults \in 0..MaxFaults /\ faults' \in 0..MaxFaults
  /\ faults' = faults \/ faults' = faults + 1
  /\ faults' = faults => outbox' = box /\ stable' = box

LEMMA SaveSaved ==
  ASSUME TypeOK, NEW box, NEW ok \in BOOLEAN, Save(box, ok)
  PROVE  Saved(box) /\ (ok <=> faults' = faults)
<1>1. faults \in 0..MaxFaults /\ MaxFaults \in Nat
  BY Values DEF TypeOK
<1> QED BY <1>1 DEF Save, Saved

LEMMA SavedFile ==
  ASSUME TypeOK, NEW box, WellFormed(box), ToSet(outbox.queue) \subseteq ToSet(box.queue), Saved(box)
  PROVE  /\ WellFormed(outbox') /\ WellFormed(stable')
         /\ ToSet(outbox.queue) \subseteq ToSet(outbox'.queue)
BY BoxTyped DEF Saved

(* The command at the head of the channel. *)
Taking(kind) ==
  /\ app = "up" /\ Head(commands) = commands[1] /\ 1 \in Waiting(kind) /\ commands[1] \in Command
  /\ commands \in Seq(Command) /\ commands # <<>>

LEMMA TakeFacts ==
  ASSUME TypeOK, NEW kind, Take(kind)
  PROVE  Taking(kind)
BY ChannelTaken DEF Take, Taking, TypeOK, Waiting

(* The operations that change the file, each as the entry it edits. *)
Baselined ==
  /\ app = "down" /\ outbox.after = None /\ Saved(Activated)
  /\ app' = IF faults' = faults THEN "reconciling" ELSE "recovering"
  /\ UNCHANGED <<completed, summary, commands, window, worker, threads, service, history, kills>>

Entered(t) ==
  /\ t \in Turn /\ outbox.state[t] = "absent" /\ Saved(Enqueued(outbox, t))
  /\ UNCHANGED <<completed, summary, window, worker, threads, service, kills>>

Reconciled ==
  /\ app = "reconciling" /\ Missing # {} /\ Entered(Min(Missing))
  /\ app' = IF faults' = faults THEN "reconciling" ELSE "recovering"
  /\ Doubt(IF faults' = faults THEN {} ELSE Missing) /\ UNCHANGED commands

Queued(t) ==
  /\ Taking("queue") /\ Done /\ t = commands[1].turn /\ outbox.after # None /\ Entered(t)
  /\ Doubt(IF faults' = faults THEN {} ELSE {t}) /\ UNCHANGED app

Interrupted ==
  /\ app = "recovering" /\ app' = "up"
  /\ (UNCHANGED <<outbox, stable, faults>> /\ Dispatched = {}) \/ Saved(Recovered)
  /\ reader' = FirstFew(outbox', InState(outbox', "uncertain"), ReadLimit)
  /\ Doubt(Dispatched)
  /\ UNCHANGED <<completed, summary, commands, window, worker, writer, service, kills>>

Summarised(t, text) ==
  /\ Taking("save") /\ t = commands[1].turn /\ text = commands[1].text
  /\ t \in Turn /\ text \in Text \cup {NoMemory} /\ outbox.state[t] = "pending"
  /\ Saved(Moved(outbox, t, IF text = NoMemory THEN "skipped" ELSE "ready"))
  /\ IF text = NoMemory THEN summary' = summary
     ELSE summary[t] \in {None, text} /\ summary' = [summary EXCEPT ![t] = text]
  /\ Settled(t, faults' = faults)
  /\ Done \/ DispatchAgain
  /\ UNCHANGED <<completed, app, worker, threads, service, kills>>

Claimed(t) ==
  /\ Taking("dispatch") /\ Done /\ ~worker.writing
  /\ t \in Turn /\ outbox.state[t] = "ready" /\ Saved(Moved(outbox, t, "dispatched"))
  /\ writer' = IF faults' = faults THEN [turn |-> t, phase |-> "create"] ELSE writer
  /\ worker' = [worker EXCEPT !.attested = None, !.writing = (faults' = faults)]
  /\ UNCHANGED <<completed, summary, app, window, reader, service, history, kills>>

Unspawned(t) ==
  /\ Taking("dispatch") /\ Done /\ ~worker.writing
  /\ t \in Turn /\ outbox.state[t] = "ready"
  /\ Saved(Moved(outbox, t, "uncertain")) \/ (Saved(Moved(outbox, t, "dispatched")) /\ faults' # faults)
  /\ worker' = [worker EXCEPT !.attested = None] /\ Doubt({t})
  /\ UNCHANGED <<completed, summary, app, window, threads, service, kills>>

Resolved(t) ==
  /\ Taking("outcome") /\ DispatchAgain /\ t = commands[1].turn
  /\ t \in Turn /\ outbox.state[t] = "dispatched"
  /\ Saved(Moved(outbox, t, IF commands[1].ok THEN "confirmed" ELSE "uncertain"))
  /\ worker' = [worker EXCEPT !.writing = FALSE]
  /\ Doubt(IF commands[1].ok THEN {} ELSE {t})
  /\ UNCHANGED <<completed, summary, app, window, threads, service, kills>>

Verified(t) ==
  /\ Taking("readback") /\ Done /\ t = commands[1].turn /\ commands[1].ok
  /\ t \in Turn /\ outbox.state[t] = "uncertain"
  /\ Saved(Moved(outbox, t, "confirmed"))
  /\ UNCHANGED <<completed, summary, app, window, worker, threads, service, history, kills>>

LEMMA ActivateMoves ==
  ASSUME TypeOK, Activate, ~Baselined
  PROVE  /\ app = "down" /\ app' = "reconciling" /\ outbox.after # None
         /\ UNCHANGED <<outbox, stable, faults>>
         /\ UNCHANGED <<completed, summary, commands, window, worker, threads, service, history, kills>>
BY SaveSaved DEF Activate, Starting, Unchanged, Baselined, Activated

LEMMA EnqueueMissingMoves ==
  ASSUME TypeOK, EnqueueMissing
  PROVE  \/ Reconciled
         \/ /\ app = "reconciling" /\ app' = "recovering" /\ Missing = {}
            /\ UNCHANGED <<outbox, stable, faults, history>>
            /\ UNCHANGED <<completed, summary, commands, window, worker, threads, service, kills>>
<1>1. CASE Missing = {}
  BY <1>1 DEF EnqueueMissing, Starting, Unchanged
<1>2. CASE Missing # {}
  <2>1. PICK ok \in BOOLEAN :
          /\ Starting("reconciling", IF ok THEN "reconciling" ELSE "recovering")
          /\ Save(Enqueued(outbox, Min(Missing)), ok)
          /\ Doubt(IF ok THEN {} ELSE Missing)
    BY <1>2 DEF EnqueueMissing
  <2>2. Saved(Enqueued(outbox, Min(Missing))) /\ (ok <=> faults' = faults)
    BY <2>1, SaveSaved
  <2>3. completed \in 0..MaxTurn
    BY DEF TypeOK
  <2>4. Min(Missing) \in Turn /\ outbox.state[Min(Missing)] = "absent" /\ Min(Missing) > outbox.after
    BY <1>2, <2>3, OldestMissing
  <2> QED BY <1>2, <2>1, <2>2, <2>4 DEF EnqueueMissing, Starting, Reconciled, Entered
<1> QED BY <1>1, <1>2

LEMMA RecoverMoves ==
  ASSUME TypeOK, RecoverInterrupted
  PROVE  Interrupted
<1>1. /\ IF Dispatched = {} THEN Unchanged ELSE \E ok \in BOOLEAN : Save(Recovered, ok)
  BY DEF RecoverInterrupted, Recovered
<1>2. (UNCHANGED <<outbox, stable, faults>> /\ Dispatched = {}) \/ Saved(Recovered)
  BY <1>1, SaveSaved DEF Unchanged
<1> QED BY <1>2 DEF RecoverInterrupted, Starting, Interrupted

LEMMA QueueMoves ==
  ASSUME TypeOK, QueueCheckpoint
  PROVE  \/ \E t \in Turn : Queued(t)
         \/ /\ Taking("queue") /\ Done /\ UNCHANGED <<outbox, stable, faults, history>>
            /\ outbox.after = None \/ outbox.state[commands[1].turn] # "absent"
            /\ UNCHANGED <<completed, summary, app, window, worker, threads, service, kills>>
<1>1. Taking("queue") /\ commands[1].kind = "queue"
  BY TakeFacts DEF QueueCheckpoint, Taking, Waiting
<1>2. commands[1].turn \in Turn
  BY <1>1, CommandParts DEF Taking
<1> DEFINE t == commands[1].turn
<1>3. Head(commands).turn = t
  BY <1>1 DEF Taking
<1> HIDE DEF t
<1>4. CASE outbox.after = None \/ outbox.state[t] # "absent"
  BY <1>1, <1>3, <1>4 DEF QueueCheckpoint, Unchanged, t
<1>5. CASE ~(outbox.after = None \/ outbox.state[t] # "absent")
  <2>1. PICK ok \in BOOLEAN : Save(Enqueued(outbox, t), ok) /\ Doubt(IF ok THEN {} ELSE {t})
    BY <1>3, <1>5 DEF QueueCheckpoint
  <2>2. Saved(Enqueued(outbox, t)) /\ (ok <=> faults' = faults)
    BY <2>1, SaveSaved
  <2>3. Doubt(IF faults' = faults THEN {} ELSE {t})
    BY <2>1, <2>2
  <2>4. Queued(t)
    BY <1>1, <1>2, <1>5, <2>2, <2>3 DEF QueueCheckpoint, Queued, Entered, t
  <2> QED BY <1>2, <2>4 DEF t
<1> QED BY <1>4, <1>5

LEMMA SaveSummaryMoves ==
  ASSUME TypeOK, SaveSummary
  PROVE  \/ \E t \in Turn, text \in Text \cup {NoMemory} : Summarised(t, text)
         \/ /\ Taking("save") /\ Done /\ UNCHANGED <<outbox, stable, faults>>
            /\ Settled(commands[1].turn, FALSE)
            /\ summary' = summary
               \/ /\ outbox.state[commands[1].turn] = "pending" /\ summary[commands[1].turn] \in {None, commands[1].text}
                  /\ commands[1].text # NoMemory
                  /\ summary' = [summary EXCEPT ![commands[1].turn] = commands[1].text]
            /\ UNCHANGED <<completed, app, worker, threads, service, kills>>
<1> DEFINE t == commands[1].turn
           text == commands[1].text
           next == IF text = NoMemory THEN "skipped" ELSE "ready"
           fits == text = NoMemory \/ summary[t] \in {None, text}
<1>1. Taking("save") /\ commands[1].kind = "save" /\ Head(commands).turn = t /\ Head(commands).text = text
  BY TakeFacts DEF SaveSummary, Taking, Waiting
<1>2. t \in Turn /\ text \in Text \cup {NoMemory}
  BY <1>1, CommandParts DEF Taking
<1> HIDE DEF t, text
<1>3. /\ summary' = IF text # NoMemory /\ fits /\ outbox.state[t] = "pending"
                    THEN [summary EXCEPT ![t] = text] ELSE summary
      /\ \/ /\ fits /\ Allowed(t, "pending", next)
            /\ \E ok \in BOOLEAN :
                 /\ Save(Moved(outbox, t, next), ok)
                 /\ Settled(t, ok)
                 /\ IF ok /\ next = "ready" THEN DispatchAgain ELSE Done
         \/ /\ ~(fits /\ Allowed(t, "pending", next))
            /\ Unchanged /\ Settled(t, FALSE) /\ Done
      /\ UNCHANGED <<completed, app, worker, threads, service, kills>>
  BY <1>1 DEF SaveSummary
<1>4. CASE fits /\ Allowed(t, "pending", next)
  <2>1. PICK ok \in BOOLEAN :
          /\ Save(Moved(outbox, t, next), ok)
          /\ Settled(t, ok)
          /\ IF ok /\ next = "ready" THEN DispatchAgain ELSE Done
    BY <1>3, <1>4
  <2>2. Saved(Moved(outbox, t, next)) /\ (ok <=> faults' = faults)
    BY <2>1, SaveSaved
  <2>3. outbox.state[t] = "pending"
    BY <1>4 DEF Allowed
  <2>4. Settled(t, faults' = faults)
    <3>1. CASE ok
      <4>1. ok = TRUE /\ (faults' = faults) = TRUE
        BY <2>2, <3>1
      <4> QED BY <2>1, <4>1
    <3>2. CASE ~ok
      <4>1. ok = FALSE /\ (faults' = faults) = FALSE
        BY <2>2, <3>2
      <4> QED BY <2>1, <4>1
    <3> QED BY <3>1, <3>2
  <2>5. IF text = NoMemory THEN summary' = summary
        ELSE summary[t] \in {None, text} /\ summary' = [summary EXCEPT ![t] = text]
    BY <1>3, <1>4, <2>3
  <2>6. Done \/ DispatchAgain
    BY <2>1
  <2>7. Summarised(t, text)
    BY <1>1, <1>2, <1>3, <2>2, <2>3, <2>4, <2>5, <2>6 DEF Summarised, t, text
  <2> QED BY <1>2, <2>7
<1>5. CASE ~(fits /\ Allowed(t, "pending", next))
  <2>1. Unchanged /\ Settled(t, FALSE) /\ Done /\ UNCHANGED <<completed, app, worker, threads, service, kills>>
    BY <1>3, <1>5
  <2>2. \/ summary' = summary
        \/ /\ outbox.state[t] = "pending" /\ summary[t] \in {None, text} /\ text # NoMemory
           /\ summary' = [summary EXCEPT ![t] = text]
    BY <1>3
  <2> QED BY <1>1, <2>1, <2>2 DEF Unchanged, t, text
<1> QED BY <1>4, <1>5

LEMMA ClaimMoves ==
  ASSUME TypeOK, ClaimWrite \/ SpawnFails
  PROVE  \E t \in Turn : Claimed(t) \/ Unspawned(t)
<1> DEFINE t == Oldest(outbox)
<1>1. Taking("dispatch") /\ Done /\ ~worker.writing /\ t # None
  BY TakeFacts DEF ClaimWrite, SpawnFails, Claimable
<1>2. t \in Turn /\ outbox.state[t] = "ready"
  BY <1>1, OldestReady, BoxTyped
<1>3. CASE ClaimWrite
  <2>1. PICK ok \in BOOLEAN :
           /\ Save(Moved(outbox, t, "dispatched"), ok)
           /\ writer' = IF ok THEN [turn |-> t, phase |-> "create"] ELSE writer
           /\ worker' = [worker EXCEPT !.attested = None, !.writing = ok]
    BY <1>3 DEF ClaimWrite
  <2>2. Saved(Moved(outbox, t, "dispatched")) /\ (ok <=> faults' = faults)
    BY <2>1, SaveSaved
  <2>3. (faults' = faults) = ok
    BY <2>2
  <2>4. Claimed(t)
    <3> HIDE DEF t
    <3>1. /\ writer' = IF faults' = faults THEN [turn |-> t, phase |-> "create"] ELSE writer
          /\ worker' = [worker EXCEPT !.attested = None, !.writing = (faults' = faults)]
      BY <2>1, <2>3
    <3>2. UNCHANGED <<completed, summary, app, window, reader, service, history, kills>>
      BY <1>3 DEF ClaimWrite
    <3> QED BY <1>1, <1>2, <2>2, <3>1, <3>2 DEF Claimed
  <2> QED BY <1>2, <2>4
<1>4. CASE SpawnFails
  <2>1. \/ Save(Moved(outbox, t, "uncertain"), TRUE)
        \/ /\ faults < MaxFaults /\ faults' = faults + 1
           /\ outbox' = Moved(outbox, t, "dispatched") /\ stable' = outbox'
    BY <1>4 DEF SpawnFails
  <2>2. Saved(Moved(outbox, t, "uncertain")) \/ (Saved(Moved(outbox, t, "dispatched")) /\ faults' # faults)
    <3>1. faults \in 0..MaxFaults /\ MaxFaults \in Nat
      BY Values DEF TypeOK
    <3>2. Save(Moved(outbox, t, "uncertain"), TRUE) => Saved(Moved(outbox, t, "uncertain"))
      BY SaveSaved
    <3>3. ASSUME faults < MaxFaults, faults' = faults + 1
          PROVE  faults' \in 0..MaxFaults /\ faults' # faults
      BY <3>1, <3>3
    <3> QED BY <2>1, <3>1, <3>2, <3>3 DEF Saved
  <2>3. /\ worker' = [worker EXCEPT !.attested = None] /\ Doubt({t})
        /\ UNCHANGED <<completed, summary, app, window, threads, service, kills>>
    BY <1>4 DEF SpawnFails
  <2>4. Unspawned(t)
    <3> HIDE DEF t
    <3> QED BY <1>1, <1>2, <2>2, <2>3 DEF Unspawned
  <2> QED BY <1>2, <2>4
<1> QED BY <1>3, <1>4

LEMMA OutcomeMoves ==
  ASSUME TypeOK, RecordOutcome
  PROVE  \/ \E t \in Turn : Resolved(t)
         \/ /\ Taking("outcome") /\ DispatchAgain /\ UNCHANGED <<outbox, stable, faults>>
            /\ worker' = [worker EXCEPT !.writing = FALSE]
            /\ Doubt(IF commands[1].ok THEN {} ELSE {commands[1].turn})
            /\ UNCHANGED <<completed, summary, app, window, threads, service, kills>>
<1> DEFINE t == commands[1].turn
           done == commands[1]
           next == IF done.ok THEN "confirmed" ELSE "uncertain"
<1>1. Taking("outcome") /\ commands[1].kind = "outcome" /\ Head(commands) = done
  BY TakeFacts DEF RecordOutcome, Taking, Waiting
<1>2. t \in Turn
  BY <1>1, CommandParts DEF Taking
<1>3. /\ DispatchAgain /\ worker' = [worker EXCEPT !.writing = FALSE]
      /\ \/ Allowed(t, "dispatched", next) /\ \E ok \in BOOLEAN : Save(Moved(outbox, t, next), ok)
         \/ Unchanged
      /\ Doubt(IF done.ok THEN {} ELSE {t})
      /\ UNCHANGED <<completed, summary, app, window, threads, service, kills>>
  BY <1>1 DEF RecordOutcome
<1>4. CASE Unchanged
  BY <1>1, <1>3, <1>4 DEF Unchanged
<1>5. CASE Allowed(t, "dispatched", next) /\ \E ok \in BOOLEAN : Save(Moved(outbox, t, next), ok)
  <2>1. Saved(Moved(outbox, t, next))
    BY <1>5, SaveSaved
  <2>2. outbox.state[t] = "dispatched"
    BY <1>5 DEF Allowed
  <2>3. Resolved(t)
    BY <1>1, <1>2, <1>3, <2>1, <2>2 DEF Resolved
  <2> QED BY <1>2, <2>3
<1> QED BY <1>3, <1>4, <1>5

LEMMA ReadbackMoves ==
  ASSUME TypeOK, RecordReadback
  PROVE  \/ \E t \in Turn : Verified(t)
         \/ /\ Taking("readback") /\ Done /\ UNCHANGED <<outbox, stable, faults>>
            /\ UNCHANGED <<completed, summary, app, window, worker, threads, service, history, kills>>
<1> DEFINE t == commands[1].turn
           done == commands[1]
<1>1. Taking("readback") /\ commands[1].kind = "readback" /\ Head(commands) = done
  BY TakeFacts DEF RecordReadback, Taking, Waiting
<1>2. t \in Turn
  BY <1>1, CommandParts DEF Taking
<1>3. /\ Done
      /\ \/ /\ done.ok /\ Allowed(t, "uncertain", "confirmed")
            /\ \E ok \in BOOLEAN : Save(Moved(outbox, t, "confirmed"), ok)
         \/ Unchanged
      /\ UNCHANGED <<completed, summary, app, window, worker, threads, service, history, kills>>
  BY <1>1 DEF RecordReadback
<1>4. CASE Unchanged
  BY <1>1, <1>3, <1>4 DEF Unchanged
<1>5. CASE /\ done.ok /\ Allowed(t, "uncertain", "confirmed")
           /\ \E ok \in BOOLEAN : Save(Moved(outbox, t, "confirmed"), ok)
  <2>1. Saved(Moved(outbox, t, "confirmed"))
    BY <1>5, SaveSaved
  <2>2. outbox.state[t] = "uncertain"
    BY <1>5 DEF Allowed
  <2>3. Verified(t)
    BY <1>1, <1>2, <1>3, <1>5, <2>1, <2>2 DEF Verified
  <2> QED BY <1>2, <2>3
<1> QED BY <1>3, <1>4, <1>5

-----------------------------------------------------------------------------
(* What an edit may do to an entry. *)
Transition == { <<"absent", "pending">>, <<"pending", "skipped">>, <<"pending", "ready">>,
                <<"ready", "dispatched">>, <<"ready", "uncertain">>, <<"dispatched", "uncertain">>,
                <<"dispatched", "confirmed">>, <<"uncertain", "confirmed">> }

Rebased(box) ==
  /\ app = "down" /\ outbox.after = None /\ box.after = completed
  /\ \A u \in Turn : box.state[u] = outbox.state[u]

Edits(box) ==
  /\ box.after = outbox.after \/ Rebased(box)
  /\ WellFormed(box) /\ ToSet(outbox.queue) \subseteq ToSet(box.queue)
  /\ \A u \in Turn : box.state[u] = outbox.state[u] \/ <<outbox.state[u], box.state[u]>> \in Transition

(* What an edit rests on. *)
Grounds(box) ==
  \A u \in Turn : box.state[u] # outbox.state[u] =>
    /\ box.state[u] = "pending" =>
         \/ app = "reconciling" /\ Missing # {} /\ u = Min(Missing)
         \/ 1 \in Waiting("queue") /\ commands[1].turn = u /\ outbox.after # None
    /\ box.state[u] = "ready" => summary'[u] # None /\ 1 \in Waiting("save") /\ commands[1].turn = u
    /\ box.state[u] = "confirmed" =>
         1 \in Waiting("outcome") \cup Waiting("readback") /\ commands[1].turn = u /\ commands[1].ok
    /\ box.state[u] = "uncertain" => u \in history'.doubted

(* Every step leaves the two forms of the file alone, edits an entry, or   *)
(* settles on one of them.                                                 *)
FileStep ==
  \/ UNCHANGED <<outbox, stable>>
  \/ \E box : Edits(box) /\ Saved(box) /\ Grounds(box)
  \/ Crash /\ outbox' \in Boxes /\ stable' = outbox'

LEMMA EnqueuedEdits ==
  ASSUME TypeOK, NEW t, Entered(t),
         \/ app = "reconciling" /\ Missing # {} /\ t = Min(Missing)
         \/ 1 \in Waiting("queue") /\ commands[1].turn = t /\ outbox.after # None
  PROVE  FileStep
<1>1. t \in Turn /\ outbox.state[t] = "absent" /\ Saved(Enqueued(outbox, t))
  BY DEF Entered
<1>2. Edited(Enqueued(outbox, t), t, "pending") /\ ToSet(outbox.queue) \subseteq ToSet(Enqueued(outbox, t).queue)
  BY <1>1, BoxTyped, EnqueuedBox
<1>3. Edits(Enqueued(outbox, t)) /\ Grounds(Enqueued(outbox, t))
  BY <1>1, <1>2 DEF Edited, Edits, Transition, Grounds
<1> QED BY <1>1, <1>3 DEF FileStep

LEMMA MovedEdits ==
  ASSUME TypeOK, NEW t \in Turn, NEW next, <<outbox.state[t], next>> \in Transition, outbox.state[t] # "absent",
         Saved(Moved(outbox, t, next)),
         next = "ready" => summary'[t] # None /\ 1 \in Waiting("save") /\ commands[1].turn = t,
         next = "confirmed" =>
           1 \in Waiting("outcome") \cup Waiting("readback") /\ commands[1].turn = t /\ commands[1].ok,
         next = "uncertain" => t \in history'.doubted
  PROVE  FileStep
<1>1. next \in State /\ next # "absent"
  BY DEF Transition, State
<1>2. Edited(Moved(outbox, t, next), t, next) /\ Moved(outbox, t, next).queue = outbox.queue
  BY <1>1, BoxTyped, MovedBox
<1>3. Edits(Moved(outbox, t, next)) /\ Grounds(Moved(outbox, t, next))
  BY <1>2 DEF Edited, Edits, Grounds, Transition
<1> QED BY <1>3 DEF FileStep

LEMMA FileSteps ==
  ASSUME TypeOK, [Next]_vars
  PROVE  FileStep
<1> USE DEF Transition
<1>0. history \in [base : [Turn -> SUBSET Turn], since : Nat, doubted : SUBSET Turn]
  BY DEF TypeOK
<1>a. \A ts : Doubt(ts) => history'.doubted = history.doubted \cup ts
  BY <1>0 DEF Doubt
<1>1. CASE UNCHANGED vars
  BY <1>1 DEF vars, files, FileStep
<1>2. CASE Window
  <2>1. UNCHANGED files
    BY <1>2 DEF Window, CompleteTurn, SummaryFails, Nudge, AskSummary, AnswerSummary
  <2> QED BY <2>1 DEF files, FileStep
<1>3. CASE Threads
  <2>1. UNCHANGED files
    BY <1>3 DEF Threads, SendCreate, ReadBack, VerifyUncertain, PreflightEnds, ApplyLate
  <2> QED BY <2>1 DEF files, FileStep
<1>4. CASE Crash
  <2>1. \E box \in {outbox, stable} : outbox' = box /\ stable' = box
    BY <1>4 DEF Crash
  <2> QED BY <1>4, <2>1 DEF FileStep, Boxes
<1>5. CASE Activate
  <2>1. CASE Baselined
    <3>1. completed \in Nat
      BY Values DEF TypeOK
    <3>2. Edits(Activated) /\ Saved(Activated) /\ Grounds(Activated)
      BY <2>1, <3>1, BoxTyped, ActivatedBox DEF Edits, Baselined, Grounds, Rebased
    <3> QED BY <3>2 DEF FileStep
  <2>2. CASE ~Baselined
    BY <1>5, <2>2, ActivateMoves DEF FileStep
  <2> QED BY <2>1, <2>2
<1>6. CASE EnqueueMissing
  <2>1. CASE Reconciled
    BY <2>1, EnqueuedEdits DEF Reconciled
  <2>2. CASE ~Reconciled
    BY <1>6, <2>2, EnqueueMissingMoves DEF FileStep
  <2> QED BY <2>1, <2>2
<1>7. CASE RecoverInterrupted
  <2>1. CASE Saved(Recovered)
    <3>1. Edits(Recovered)
      BY BoxTyped, RecoveredBox DEF Edits
    <3>2. history'.doubted = history.doubted \cup Dispatched
      BY <1>7, <1>a DEF RecoverInterrupted
    <3>3. Grounds(Recovered)
      BY <3>2, BoxTyped, RecoveredBox DEF Grounds, Dispatched
    <3> QED BY <2>1, <3>1, <3>3 DEF FileStep
  <2>2. CASE ~Saved(Recovered)
    BY <1>7, <2>2, RecoverMoves DEF FileStep, Interrupted
  <2> QED BY <2>1, <2>2
<1>8. CASE QueueCheckpoint
  <2>1. CASE \E t \in Turn : Queued(t)
    BY <2>1, EnqueuedEdits DEF Queued, Taking
  <2>2. CASE ~\E t \in Turn : Queued(t)
    BY <1>8, <2>2, QueueMoves DEF FileStep
  <2> QED BY <2>1, <2>2
<1>9. CASE SaveSummary
  <2>1. CASE \E t \in Turn, text \in Text \cup {NoMemory} : Summarised(t, text)
    <3>1. PICK t \in Turn, text \in Text \cup {NoMemory} : Summarised(t, text)
      BY <2>1
    <3> DEFINE next == IF text = NoMemory THEN "skipped" ELSE "ready"
    <3>2. outbox.state[t] = "pending" /\ Saved(Moved(outbox, t, next))
      BY <3>1 DEF Summarised
    <3>3. <<outbox.state[t], next>> \in Transition
      BY <3>2
    <3>4. next = "ready" => summary'[t] # None
      <4>1. summary \in [Turn -> Text \cup {None}]
        BY DEF TypeOK
      <4> QED BY <3>1, <4>1, Values DEF Summarised
    <3>5. 1 \in Waiting("save") /\ commands[1].turn = t /\ next \notin {"confirmed", "uncertain"}
      BY <3>1 DEF Summarised, Taking
    <3> HIDE DEF next
    <3> QED BY <3>2, <3>3, <3>4, <3>5, MovedEdits
  <2>2. CASE ~\E t \in Turn, text \in Text \cup {NoMemory} : Summarised(t, text)
    BY <1>9, <2>2, SaveSummaryMoves DEF FileStep
  <2> QED BY <2>1, <2>2
<1>10. CASE ClaimWrite \/ SpawnFails
  <2>1. PICK t \in Turn : Claimed(t) \/ Unspawned(t)
    BY <1>10, ClaimMoves
  <2>2. outbox.state[t] = "ready" /\ (Saved(Moved(outbox, t, "dispatched")) \/ Saved(Moved(outbox, t, "uncertain")))
    BY <2>1 DEF Claimed, Unspawned
  <2>3. <<outbox.state[t], "dispatched">> \in Transition /\ <<outbox.state[t], "uncertain">> \in Transition
    BY <2>2
  <2>4. Saved(Moved(outbox, t, "dispatched")) \/ (Saved(Moved(outbox, t, "uncertain")) /\ t \in history'.doubted)
    BY <1>a, <2>1 DEF Claimed, Unspawned
  <2> QED BY <2>2, <2>3, <2>4, MovedEdits
<1>11. CASE RecordOutcome
  <2>1. CASE \E t \in Turn : Resolved(t)
    <3>1. PICK t \in Turn : Resolved(t)
      BY <2>1
    <3> DEFINE next == IF commands[1].ok THEN "confirmed" ELSE "uncertain"
    <3>2. outbox.state[t] = "dispatched" /\ Saved(Moved(outbox, t, next))
      BY <3>1 DEF Resolved
    <3>3. <<outbox.state[t], next>> \in Transition
      BY <3>2
    <3>4. next = "uncertain" => t \in history'.doubted
      BY <1>a, <3>1 DEF Resolved
    <3>5. next # "ready" /\ (next = "confirmed" => 1 \in Waiting("outcome") /\ commands[1].turn = t /\ commands[1].ok)
      BY <3>1 DEF Resolved, Taking
    <3> HIDE DEF next
    <3> QED BY <3>2, <3>3, <3>4, <3>5, MovedEdits
  <2>2. CASE ~\E t \in Turn : Resolved(t)
    BY <1>11, <2>2, OutcomeMoves DEF FileStep
  <2> QED BY <2>1, <2>2
<1>12. CASE RecordReadback
  <2>1. CASE \E t \in Turn : Verified(t)
    <3>1. PICK t \in Turn : Verified(t)
      BY <2>1
    <3>2. /\ outbox.state[t] = "uncertain" /\ Saved(Moved(outbox, t, "confirmed"))
          /\ 1 \in Waiting("readback") /\ commands[1].turn = t /\ commands[1].ok
      BY <3>1 DEF Verified, Taking
    <3>3. <<outbox.state[t], "confirmed">> \in Transition
      BY <3>2
    <3> QED BY <3>2, <3>3, MovedEdits
  <2>2. CASE ~\E t \in Turn : Verified(t)
    BY <1>12, <2>2, ReadbackMoves DEF FileStep
  <2> QED BY <2>1, <2>2
<1>13. CASE AppendCompletion \/ StartPreflight \/ IgnoreDispatch \/ RecordPreflight \/ Elapse
  <2>1. UNCHANGED <<outbox, stable>>
    BY <1>13 DEF AppendCompletion, StartPreflight, IgnoreDispatch, RecordPreflight, Elapse, files
  <2> QED BY <2>1 DEF FileStep
<1> QED BY <1>1, <1>2, <1>3, <1>4, <1>5, <1>6, <1>7, <1>8, <1>9, <1>10, <1>11, <1>12, <1>13 DEF Next, Worker

-----------------------------------------------------------------------------
(* Type correctness, part by part. *)
CountsOK == completed \in 0..MaxTurn /\ kills \in 0..MaxKills /\ faults \in 0..MaxFaults

WindowOK ==
  /\ app \in {"down", "reconciling", "recovering", "up"}
  /\ window \in [asked : Turn \cup {None}, blocked : SUBSET Turn]

WorkerOK ==
  /\ worker \in [writing : BOOLEAN, probing : Turn \cup {None}, attested : Turn \cup {None},
                 recent : BOOLEAN, wait : BOOLEAN]
  /\ writer \in [turn : Turn \cup {None}, phase : {"none", "create", "reading", "failed"}]

ServiceOK ==
  /\ summary \in [Turn -> Text \cup {None}]
  /\ remote \in [Turn -> Text \cup {None, Garbled}] /\ late \subseteq Turn /\ creates \in [Turn -> Nat]

HistoryOK == history \in [base : [Turn -> SUBSET Turn], since : Nat, doubted : SUBSET Turn]

FileOK == WellFormed(outbox) /\ WellFormed(stable) /\ reader \subseteq ToSet(outbox.queue)

ChannelOK == commands \in Seq(Command)

LEMMA TypeParts ==
  /\ TypeOK <=> CountsOK /\ WindowOK /\ WorkerOK /\ ServiceOK /\ HistoryOK /\ FileOK /\ ChannelOK
  /\ TypeOK' <=> CountsOK' /\ WindowOK' /\ WorkerOK' /\ ServiceOK' /\ HistoryOK' /\ FileOK' /\ ChannelOK'
BY DEF TypeOK, CountsOK, WindowOK, WorkerOK, ServiceOK, HistoryOK, FileOK, ChannelOK, WellFormed

LEMMA FirstFewOf ==
  ASSUME NEW box, NEW ts, NEW n
  PROVE  FirstFew(box, ts, n) \subseteq ToSet(box.queue)
BY DEF FirstFew, ToSet

LEMMA FileKept ==
  ASSUME TypeOK, [Next]_vars
  PROVE  FileOK'
<1>1. WellFormed(outbox) /\ WellFormed(stable) /\ reader \subseteq ToSet(outbox.queue)
  BY TypeParts DEF FileOK
<1>2. WellFormed(outbox)' /\ WellFormed(stable)'
  BY <1>1, FileSteps DEF FileStep, Edits, Saved, Boxes, WellFormed
<1>3. reader' \subseteq ToSet(outbox'.queue)
  <2>1. CASE reader' \subseteq reader
    BY <1>1, <2>1, FileSteps DEF FileStep, Edits, Saved, Crash
  <2>2. CASE RecoverInterrupted
    <3>1. reader' = FirstFew(outbox', InState(outbox', "uncertain"), ReadLimit)
      BY <2>2 DEF RecoverInterrupted
    <3> QED BY <3>1, FirstFewOf
  <2>3. [Next]_vars => reader' \subseteq reader \/ RecoverInterrupted
    <3>1. UNCHANGED vars => reader' = reader
      BY DEF vars, memory, threads
    <3>2. Window => reader' = reader
      BY DEF Window, CompleteTurn, SummaryFails, Nudge, AskSummary, AnswerSummary, threads
    <3>3. Threads => reader' \subseteq reader
      BY DEF Threads, SendCreate, ReadBack, VerifyUncertain, PreflightEnds, ApplyLate, threads, memory
    <3>4. Worker => reader' = reader \/ RecoverInterrupted
      BY DEF Worker, Activate, EnqueueMissing, AppendCompletion, QueueCheckpoint, SaveSummary, StartPreflight,
             IgnoreDispatch, ClaimWrite, SpawnFails, RecordPreflight, RecordOutcome, RecordReadback, Elapse, threads
    <3>5. Crash => reader' \subseteq reader
      BY DEF Crash
    <3> QED BY <3>1, <3>2, <3>3, <3>4, <3>5 DEF Next
  <2> QED BY <2>1, <2>2, <2>3
<1> QED BY <1>2, <1>3 DEF FileOK

(* The completion that is posted next has a turn of its own. *)
LEMMA TurnsPosted ==
  ASSUME commands \in Seq(Command), completed \in 0..MaxTurn, NEW kind \in {"complete", "queue", "save"}
  PROVE  /\ TurnsOf(kind) \subseteq Turn
         /\ {completed} \cup TurnsOf("complete") \in SUBSET (0..MaxTurn)
         /\ LastCompleted \in 0..MaxTurn /\ completed <= LastCompleted
         /\ LastCompleted = completed \/ LastCompleted \in TurnsOf("complete")
         /\ \A u \in TurnsOf("complete") : u <= LastCompleted
<1>1. \A k \in {"complete", "queue", "save"} : TurnsOf(k) \subseteq Turn
  <2> TAKE k \in {"complete", "queue", "save"}
  <2>1. \A i \in DOMAIN commands : commands[i] \in Command
    OBVIOUS
  <2>2. \A i \in Waiting(k) : commands[i].turn \in Turn
    BY <2>1, CommandParts DEF Waiting
  <2> QED BY <2>2 DEF TurnsOf
<1>2. TurnsOf("complete") \subseteq Turn
  BY <1>1
<1>3. Turn \subseteq 0..MaxTurn
  BY Values DEF Turn
<1> DEFINE S == {completed} \cup TurnsOf("complete")
<1>4. S \in SUBSET (0..MaxTurn) /\ S # {}
  BY <1>2, <1>3
<1>5. Max(S) \in S /\ \A y \in S : y <= Max(S)
  BY <1>4, Values, Greatest
<1>6. LastCompleted = Max(S) /\ completed \in S /\ \A u \in TurnsOf("complete") : u \in S
  BY DEF LastCompleted
<1> HIDE DEF S
<1>7. LastCompleted \in 0..MaxTurn /\ completed <= LastCompleted /\ \A u \in TurnsOf("complete") : u <= LastCompleted
  BY <1>4, <1>5, <1>6
<1>8. LastCompleted = completed \/ LastCompleted \in TurnsOf("complete")
  BY <1>5, <1>6 DEF S
<1> QED BY <1>1, <1>4, <1>7, <1>8 DEF S

LEMMA CountMoves ==
  ASSUME [Next]_vars
  PROVE  /\ faults' = faults \/ (faults < MaxFaults /\ faults' = faults + 1)
         /\ kills' = kills \/ (kills < MaxKills /\ kills' = kills + 1)
         /\ completed' = completed \/ AppendCompletion
<1>1. faults' = faults \/ (faults < MaxFaults /\ faults' = faults + 1)
  <2>1. \A box, ok : Save(box, ok) => faults' = faults \/ (faults < MaxFaults /\ faults' = faults + 1)
    BY DEF Save
  <2>2. UNCHANGED vars => faults' = faults
    BY DEF vars
  <2>3. Window \/ Threads \/ Crash => faults' = faults
    BY DEF Window, CompleteTurn, SummaryFails, Nudge, AskSummary, AnswerSummary,
           Threads, SendCreate, ReadBack, VerifyUncertain, PreflightEnds, ApplyLate, Crash
  <2>4. AppendCompletion \/ StartPreflight \/ RecordPreflight \/ Elapse => faults' = faults
    BY DEF AppendCompletion, StartPreflight, RecordPreflight, Elapse
  <2>5. Activate \/ EnqueueMissing \/ RecoverInterrupted \/ QueueCheckpoint
          => faults' = faults \/ (faults < MaxFaults /\ faults' = faults + 1)
    BY <2>1 DEF Activate, EnqueueMissing, RecoverInterrupted, QueueCheckpoint, Unchanged
  <2>6. SaveSummary \/ ClaimWrite => faults' = faults \/ (faults < MaxFaults /\ faults' = faults + 1)
    BY <2>1 DEF SaveSummary, ClaimWrite, Unchanged
  <2>7. IgnoreDispatch \/ SpawnFails => faults' = faults \/ (faults < MaxFaults /\ faults' = faults + 1)
    BY <2>1 DEF IgnoreDispatch, SpawnFails
  <2>8. RecordOutcome \/ RecordReadback => faults' = faults \/ (faults < MaxFaults /\ faults' = faults + 1)
    BY <2>1 DEF RecordOutcome, RecordReadback, Unchanged
  <2> QED BY <2>2, <2>3, <2>4, <2>5, <2>6, <2>7, <2>8 DEF Next, Worker
<1>2. kills' = kills \/ (kills < MaxKills /\ kills' = kills + 1)
  <2>1. UNCHANGED vars => kills' = kills
    BY DEF vars
  <2>2. Window \/ Threads => kills' = kills
    BY DEF Window, CompleteTurn, SummaryFails, Nudge, AskSummary, AnswerSummary,
           Threads, SendCreate, ReadBack, VerifyUncertain, PreflightEnds, ApplyLate
  <2>3. Worker => kills' = kills
    BY DEF Worker, Activate, EnqueueMissing, RecoverInterrupted, AppendCompletion, QueueCheckpoint, SaveSummary,
           StartPreflight, IgnoreDispatch, ClaimWrite, SpawnFails, RecordPreflight, RecordOutcome, RecordReadback, Elapse
  <2> QED BY <2>1, <2>2, <2>3 DEF Next, Crash
<1>3. completed' = completed \/ AppendCompletion
  <2>1. UNCHANGED vars => completed' = completed
    BY DEF vars, files
  <2>2. Window \/ Threads \/ Crash => completed' = completed
    BY DEF Window, CompleteTurn, SummaryFails, Nudge, AskSummary, AnswerSummary, Crash, files,
           Threads, SendCreate, ReadBack, VerifyUncertain, PreflightEnds, ApplyLate
  <2>3. Worker => completed' = completed \/ AppendCompletion
    BY DEF Worker, Activate, EnqueueMissing, RecoverInterrupted, QueueCheckpoint, SaveSummary, files,
           StartPreflight, IgnoreDispatch, ClaimWrite, SpawnFails, RecordPreflight, RecordOutcome, RecordReadback, Elapse
  <2> QED BY <2>1, <2>2, <2>3 DEF Next
<1> QED BY <1>1, <1>2, <1>3

LEMMA CountsKept ==
  ASSUME TypeOK, [Next]_vars
  PROVE  CountsOK'
<1>1. completed \in 0..MaxTurn /\ kills \in 0..MaxKills /\ faults \in 0..MaxFaults
  BY TypeParts DEF CountsOK
<1>2. MaxTurn \in Nat /\ MaxKills \in Nat /\ MaxFaults \in Nat
  BY Values
<1>3. ASSUME AppendCompletion PROVE completed' \in 0..MaxTurn
  <2>1. Taking("complete") /\ completed' = Head(commands).turn
    BY <1>3, TakeFacts DEF AppendCompletion
  <2>2. completed' = commands[1].turn /\ commands[1] \in Command /\ commands[1].kind = "complete"
    BY <2>1 DEF Taking, Waiting
  <2>3. commands[1].turn \in Turn
    BY <2>2, CommandParts
  <2> QED BY <1>2, <2>2, <2>3 DEF Turn
<1>4. faults' \in 0..MaxFaults /\ kills' \in 0..MaxKills
  BY <1>1, <1>2, CountMoves
<1> QED BY <1>1, <1>3, <1>4, CountMoves DEF CountsOK

LEMMA WindowKept ==
  ASSUME TypeOK, [Next]_vars
  PROVE  WindowOK'
<1>1. /\ app \in {"down", "reconciling", "recovering", "up"}
      /\ window \in [asked : Turn \cup {None}, blocked : SUBSET Turn]
  BY TypeParts DEF WindowOK
<1>2. app' \in {"down", "reconciling", "recovering", "up"}
  <2>1. app' = app \/ app' \in {"down", "reconciling", "recovering", "up"}
    <3>1. UNCHANGED vars \/ Window \/ Threads => app' = app
      BY DEF vars, memory, Window, CompleteTurn, SummaryFails, Nudge, AskSummary, AnswerSummary,
             Threads, SendCreate, ReadBack, VerifyUncertain, PreflightEnds, ApplyLate
    <3>2. Activate \/ EnqueueMissing \/ RecoverInterrupted \/ Crash
             => app' \in {"down", "reconciling", "recovering", "up"}
      BY DEF Activate, EnqueueMissing, RecoverInterrupted, Crash, Starting
    <3>3. Worker => app' = app \/ Activate \/ EnqueueMissing \/ RecoverInterrupted
      BY DEF Worker, AppendCompletion, QueueCheckpoint, SaveSummary, StartPreflight, IgnoreDispatch, ClaimWrite,
             SpawnFails, RecordPreflight, RecordOutcome, RecordReadback, Elapse
    <3> QED BY <3>1, <3>2, <3>3 DEF Next
  <2> QED BY <1>1, <2>1
<1>3. window' \in [asked : Turn \cup {None}, blocked : SUBSET Turn]
  <2>1. UNCHANGED vars \/ Threads => window' = window
    BY DEF vars, memory, Threads, SendCreate, ReadBack, VerifyUncertain, PreflightEnds, ApplyLate
  <2>2. Worker => window' = window \/ SaveSummary
    BY DEF Worker, Activate, EnqueueMissing, RecoverInterrupted, AppendCompletion, QueueCheckpoint, StartPreflight,
           IgnoreDispatch, ClaimWrite, SpawnFails, RecordPreflight, RecordOutcome, RecordReadback, Elapse
  <2>3. Crash => window' = Idle
    BY DEF Crash
  <2>4. Window => \/ window' = window
                  \/ \E t \in Turn : window' = [window EXCEPT !.asked = t]
                  \/ window.asked # None /\ GiveUp(window.asked)
    BY DEF Window, CompleteTurn, SummaryFails, Nudge, AskSummary, AnswerSummary
  <2>5. ASSUME SaveSummary
        PROVE  window' = window \/ \E b \in SUBSET Turn : window' = [asked |-> None, blocked |-> b]
    <3>1. Taking("save") /\ commands[1].turn \in Turn
      BY <2>5, TakeFacts, CommandParts DEF SaveSummary, Taking, Waiting
    <3>2. \E ok \in BOOLEAN : Settled(commands[1].turn, ok)
      BY <2>5, <3>1 DEF SaveSummary, Taking
    <3> QED BY <1>1, <3>1, <3>2 DEF Settled
  <2>6. \A t \in Turn : [window EXCEPT !.asked = t] \in [asked : Turn \cup {None}, blocked : SUBSET Turn]
    BY <1>1
  <2>7. Idle \in [asked : Turn \cup {None}, blocked : SUBSET Turn]
    BY DEF Idle
  <2>8. window.asked # None /\ GiveUp(window.asked) => window' \in [asked : Turn \cup {None}, blocked : SUBSET Turn]
    BY <1>1 DEF GiveUp
  <2> QED BY <1>1, <2>1, <2>2, <2>3, <2>4, <2>5, <2>6, <2>7, <2>8 DEF Next
<1> QED BY <1>2, <1>3 DEF WindowOK

LEMMA WorkerKept ==
  ASSUME TypeOK, [Next]_vars
  PROVE  WorkerOK'
<1> DEFINE W == [writing : BOOLEAN, probing : Turn \cup {None}, attested : Turn \cup {None},
                 recent : BOOLEAN, wait : BOOLEAN]
           P == {"none", "create", "reading", "failed"}
<1>1. worker \in W /\ writer \in [turn : Turn \cup {None}, phase : P]
  BY TypeParts DEF WorkerOK
<1>2. worker' \in W
  <2>1. UNCHANGED vars \/ Window \/ Threads => worker' = worker
    BY DEF vars, memory, Window, CompleteTurn, SummaryFails, Nudge, AskSummary, AnswerSummary,
           Threads, SendCreate, ReadBack, VerifyUncertain, PreflightEnds, ApplyLate
  <2>2. Crash => worker' \in W
    BY DEF Crash, Forgetful
  <2>3. Worker => worker' = worker \/ StartPreflight \/ ClaimWrite \/ SpawnFails \/ RecordPreflight \/ RecordOutcome \/ Elapse
    BY DEF Worker, Activate, EnqueueMissing, RecoverInterrupted, AppendCompletion, QueueCheckpoint, SaveSummary,
           IgnoreDispatch, RecordReadback
  <2>4. StartPreflight => worker' \in W
    <3>1. ASSUME StartPreflight PROVE Oldest(outbox) \in Turn
      BY <3>1, OldestReady, BoxTyped DEF StartPreflight
    <3> DEFINE o == Oldest(outbox)
               spent == [worker EXCEPT !.attested = None, !.recent = FALSE]
    <3>2. StartPreflight => worker' \in {spent, [spent EXCEPT !.probing = o], [spent EXCEPT !.wait = TRUE]}
      BY DEF StartPreflight
    <3>3. spent \in W
      BY <1>1
    <3> HIDE DEF spent, o
    <3>4. o \in Turn => [spent EXCEPT !.probing = o] \in W /\ [spent EXCEPT !.wait = TRUE] \in W
      BY <3>3
    <3> QED BY <3>1, <3>2, <3>3, <3>4 DEF o
  <2>5. ClaimWrite => worker' \in W
    <3>1. ClaimWrite => \E ok \in BOOLEAN : worker' = [worker EXCEPT !.attested = None, !.writing = ok]
      BY DEF ClaimWrite
    <3>2. \A ok \in BOOLEAN : [worker EXCEPT !.attested = None, !.writing = ok] \in W
      BY <1>1
    <3> QED BY <3>1, <3>2
  <2>6. SpawnFails \/ RecordOutcome \/ Elapse => worker' \in W
    <3>1. SpawnFails => worker' = [worker EXCEPT !.attested = None]
      BY DEF SpawnFails
    <3>2. RecordOutcome => worker' = [worker EXCEPT !.writing = FALSE]
      BY DEF RecordOutcome
    <3>3. Elapse => worker' = [worker EXCEPT !.recent = FALSE] \/ worker' = [worker EXCEPT !.wait = FALSE]
      BY DEF Elapse
    <3> QED BY <1>1, <3>1, <3>2, <3>3
  <2>7. RecordPreflight => worker' \in W
    <3>1. ASSUME RecordPreflight PROVE commands[1].turn \in Turn /\ Head(commands) = commands[1]
      BY <3>1, TakeFacts, CommandParts DEF RecordPreflight, Taking, Waiting
    <3>2. RecordPreflight => \E t \in Turn \cup {None}, x, y \in BOOLEAN :
            worker' = [worker EXCEPT !.probing = None, !.attested = t, !.recent = x, !.wait = y]
      BY <3>1 DEF RecordPreflight
    <3>3. \A t \in Turn \cup {None}, x, y \in BOOLEAN :
            [worker EXCEPT !.probing = None, !.attested = t, !.recent = x, !.wait = y] \in W
      BY <1>1
    <3> QED BY <3>2, <3>3
  <2> QED BY <1>1, <2>1, <2>2, <2>3, <2>4, <2>5, <2>6, <2>7 DEF Next
<1>3. writer' \in [turn : Turn \cup {None}, phase : P]
  <2>1. UNCHANGED vars \/ Window => writer' = writer
    BY DEF vars, memory, threads, Window, CompleteTurn, SummaryFails, Nudge, AskSummary, AnswerSummary
  <2>2. Worker => writer' = writer \/ \E t \in Turn : Claimed(t)
    <3>1. SpawnFails => writer' = writer
      BY DEF SpawnFails, threads
    <3>2. ClaimWrite => writer' = writer \/ \E t \in Turn : Claimed(t)
      BY ClaimMoves DEF Unspawned, threads
    <3> QED BY <3>1, <3>2
         DEF Worker, Activate, EnqueueMissing, RecoverInterrupted, AppendCompletion, QueueCheckpoint, SaveSummary,
             StartPreflight, IgnoreDispatch, RecordPreflight, RecordOutcome, RecordReadback, Elapse, threads
  <2>3. ASSUME NEW t \in Turn, Claimed(t)
        PROVE  writer' \in [turn : Turn \cup {None}, phase : P]
    BY <1>1, <2>3 DEF Claimed
  <2>4. Crash \/ Threads => writer' = writer \/ writer' = Quiet \/ \E p \in P : writer' = [writer EXCEPT !.phase = p]
    BY DEF Crash, Threads, SendCreate, ReadBack, VerifyUncertain, PreflightEnds, ApplyLate, threads, memory
  <2>5. Quiet \in [turn : Turn \cup {None}, phase : P]
    BY DEF Quiet
  <2>6. \A p \in P : [writer EXCEPT !.phase = p] \in [turn : Turn \cup {None}, phase : P]
    BY <1>1
  <2> QED BY <1>1, <2>1, <2>2, <2>3, <2>4, <2>5, <2>6 DEF Next
<1> QED BY <1>2, <1>3 DEF WorkerOK

(* The write thread has a turn. *)
LEMMA WriterTurn ==
  ASSUME TypeOK, WriterInv, writer.phase \in {"create", "reading", "failed"}
  PROVE  writer.turn \in Turn /\ Active /\ worker.writing
BY DEF WriterInv, Active

LEMMA ServiceKept ==
  ASSUME TypeOK, WriterInv, [Next]_vars
  PROVE  ServiceOK'
<1>1. /\ summary \in [Turn -> Text \cup {None}]
      /\ remote \in [Turn -> Text \cup {None, Garbled}] /\ late \subseteq Turn /\ creates \in [Turn -> Nat]
  BY TypeParts DEF ServiceOK
<1>2. summary' \in [Turn -> Text \cup {None}]
  <2>1. UNCHANGED vars \/ Window \/ Threads \/ Crash => summary' = summary
    BY DEF vars, files, Window, CompleteTurn, SummaryFails, Nudge, AskSummary, AnswerSummary,
           Threads, SendCreate, ReadBack, VerifyUncertain, PreflightEnds, ApplyLate, Crash
  <2>2. Worker => summary' = summary \/ SaveSummary
    BY DEF Worker, Activate, EnqueueMissing, RecoverInterrupted, AppendCompletion, QueueCheckpoint, files, StartPreflight,
           IgnoreDispatch, ClaimWrite, SpawnFails, RecordPreflight, RecordOutcome, RecordReadback, Elapse
  <2>3. ASSUME SaveSummary
        PROVE  summary' = summary \/ \E t \in Turn, text \in Text : summary' = [summary EXCEPT ![t] = text]
    <3>1. Taking("save") /\ commands[1].turn \in Turn /\ commands[1].text \in Text \cup {NoMemory}
      BY <2>3, TakeFacts, CommandParts DEF SaveSummary, Taking, Waiting
    <3>2. \/ summary' = summary
          \/ commands[1].text # NoMemory /\ summary' = [summary EXCEPT ![commands[1].turn] = commands[1].text]
      BY <2>3, <3>1 DEF SaveSummary, Taking
    <3> QED BY <3>1, <3>2
  <2>4. \A t \in Turn, text \in Text : [summary EXCEPT ![t] = text] \in [Turn -> Text \cup {None}]
    BY <1>1
  <2> QED BY <1>1, <2>1, <2>2, <2>3, <2>4 DEF Next
<1>3. [Next]_vars => UNCHANGED service \/ SendCreate \/ \E t \in Turn : ApplyLate(t)
  <2>1. UNCHANGED vars \/ Window \/ Crash => UNCHANGED service
    BY DEF vars, Window, CompleteTurn, SummaryFails, Nudge, AskSummary, AnswerSummary, Crash
  <2>2. Threads => UNCHANGED service \/ SendCreate \/ \E t \in Turn : ApplyLate(t)
    BY DEF Threads, ReadBack, VerifyUncertain, PreflightEnds
  <2>3. Worker => UNCHANGED service
    BY DEF Worker, Activate, EnqueueMissing, RecoverInterrupted, AppendCompletion, QueueCheckpoint, SaveSummary,
           StartPreflight, IgnoreDispatch, ClaimWrite, SpawnFails, RecordPreflight, RecordOutcome, RecordReadback, Elapse
  <2> QED BY <2>1, <2>2, <2>3 DEF Next
<1>4. ASSUME SendCreate
      PROVE  /\ remote' \in [Turn -> Text \cup {None, Garbled}] /\ late' \subseteq Turn /\ creates' \in [Turn -> Nat]
  <2>1. writer.turn \in Turn
    BY <1>4, WriterTurn DEF SendCreate
  <2> DEFINE t == writer.turn
  <2>2. creates' = [creates EXCEPT ![t] = @ + 1] /\ (late' = late \/ late' = late \cup {t})
        /\ (remote' = remote \/ \E x \in Text \cup {None, Garbled} : remote' = [remote EXCEPT ![t] = x])
    BY <1>1, <1>4, <2>1 DEF SendCreate
  <2> HIDE DEF t
  <2>3. t \in Turn
    BY <2>1 DEF t
  <2> QED BY <1>1, <2>2, <2>3
<1>5. ASSUME NEW t \in Turn, ApplyLate(t)
      PROVE  /\ remote' \in [Turn -> Text \cup {None, Garbled}] /\ late' \subseteq Turn /\ creates' \in [Turn -> Nat]
  BY <1>1, <1>5 DEF ApplyLate
<1>6. /\ remote' \in [Turn -> Text \cup {None, Garbled}] /\ late' \subseteq Turn /\ creates' \in [Turn -> Nat]
  BY <1>1, <1>3, <1>4, <1>5 DEF service
<1> QED BY <1>2, <1>6 DEF ServiceOK

LEMMA HistoryKept ==
  ASSUME TypeOK, [Next]_vars
  PROVE  HistoryOK'
<1> DEFINE H == [base : [Turn -> SUBSET Turn], since : Nat, doubted : SUBSET Turn]
<1>1. history \in H
  BY TypeParts DEF HistoryOK
<1>2. ASSUME NEW ts \in SUBSET Turn, Doubt(ts) PROVE history' \in H
  BY <1>1, <1>2 DEF Doubt
<1>3. UNCHANGED vars \/ Crash => history' = history
  BY DEF vars, Crash
<1>4. Window => history' = history \/ SummaryFails \/ (\E t \in Turn : AskSummary(t))
                \/ \E text \in Text \cup {NoMemory} : AnswerSummary(text)
  BY DEF Window, CompleteTurn, Nudge
<1>5. Threads => history' = history
  BY DEF Threads, SendCreate, ReadBack, VerifyUncertain, PreflightEnds, ApplyLate
<1>6. window.asked \in Turn \cup {None} /\ None \notin Turn
  BY TypeParts, Values DEF WindowOK
<1>7. SummaryFails => history' \in H
  BY <1>2, <1>6 DEF SummaryFails, GiveUp
<1>8. ASSUME NEW text, AnswerSummary(text) PROVE history' \in H
  BY <1>1, <1>2, <1>6, <1>8 DEF AnswerSummary, GiveUp
<1>9. ASSUME NEW t \in Turn, AskSummary(t) PROVE history' \in H
  <2>1. Confirmed(outbox, t) \in SUBSET Turn
    BY Values DEF Confirmed, Older, Turn
  <2> DEFINE c == Confirmed(outbox, t)
             b == [history.base EXCEPT ![t] = c]
  <2>2. history' = [history EXCEPT !.base = b]
    BY <1>9 DEF AskSummary
  <2>3. b \in [Turn -> SUBSET Turn]
    BY <1>1, <2>1
  <2> HIDE DEF b
  <2> QED BY <1>1, <2>2, <2>3
<1>10. Worker => history' = history \/ EnqueueMissing \/ RecoverInterrupted \/ QueueCheckpoint \/ SaveSummary
                 \/ SpawnFails \/ RecordOutcome
  BY DEF Worker, Activate, AppendCompletion, StartPreflight, IgnoreDispatch, ClaimWrite, RecordPreflight,
         RecordReadback, Elapse
<1>11. EnqueueMissing => history' \in H
  <2>1. Missing \in SUBSET Turn
    BY TypeParts, Values DEF Missing, Turn, CountsOK
  <2>2. EnqueueMissing => history' = history \/ \E ok \in BOOLEAN : Doubt(IF ok THEN {} ELSE Missing)
    BY DEF EnqueueMissing
  <2> QED BY <1>1, <1>2, <2>1, <2>2
<1>12. RecoverInterrupted => history' \in H
  <2>1. Dispatched \in SUBSET Turn
    BY DEF Dispatched
  <2> QED BY <1>2, <2>1 DEF RecoverInterrupted
<1>13. QueueCheckpoint => history' \in H
  <2>1. QueueCheckpoint => Taking("queue") /\ commands[1].turn \in Turn /\ Head(commands) = commands[1]
    BY TakeFacts, CommandParts DEF QueueCheckpoint, Taking, Waiting
  <2>2. QueueCheckpoint => history' = history \/ \E ok \in BOOLEAN : Doubt(IF ok THEN {} ELSE {commands[1].turn})
    BY <2>1 DEF QueueCheckpoint
  <2> QED BY <1>1, <1>2, <2>1, <2>2
<1>14. SaveSummary => history' \in H
  <2>1. SaveSummary => Taking("save") /\ commands[1].turn \in Turn /\ Head(commands) = commands[1]
    BY TakeFacts, CommandParts DEF SaveSummary, Taking, Waiting
  <2>2. SaveSummary => \E ok \in BOOLEAN : Doubt(IF ok THEN {} ELSE {commands[1].turn})
    BY <2>1 DEF SaveSummary, Settled
  <2> QED BY <1>1, <1>2, <2>1, <2>2
<1>15. SpawnFails => history' \in H
  <2>1. SpawnFails => Oldest(outbox) # None /\ Doubt({Oldest(outbox)})
    BY DEF SpawnFails, Claimable
  <2> QED BY <1>2, <2>1, OldestReady, BoxTyped
<1>16. RecordOutcome => history' \in H
  <2>1. RecordOutcome => Taking("outcome") /\ commands[1].turn \in Turn /\ Head(commands) = commands[1]
    BY TakeFacts, CommandParts DEF RecordOutcome, Taking, Waiting
  <2>2. RecordOutcome => Doubt(IF commands[1].ok THEN {} ELSE {commands[1].turn})
    BY <2>1 DEF RecordOutcome
  <2> QED BY <1>2, <2>1, <2>2
<1>17. history' \in H
  BY <1>1, <1>3, <1>4, <1>5, <1>7, <1>8, <1>9, <1>10, <1>11, <1>12, <1>13, <1>14, <1>15, <1>16 DEF Next
<1> QED BY <1>17 DEF HistoryOK

-----------------------------------------------------------------------------
(* How the channel moves: what waits of a kind stays, k places further. *)
Kept(kind, k) ==
  /\ \A i \in Waiting(kind)' : i \in Nat \ {0} /\ i + k \in Waiting(kind) /\ commands'[i] = commands[i + k]
  /\ \A i \in Waiting(kind) : i \in Nat \ {0} /\ (i > k => i - k \in Waiting(kind)' /\ commands'[i - k] = commands[i])

LEMMA ShiftKeeps ==
  ASSUME NEW k \in {0, 1}, NEW n \in {0, 1, 2}, NEW kind, Shifted(k, n),
         \A i \in DOMAIN commands' : i > Len(commands) - k => commands'[i].kind # kind
  PROVE  Kept(kind, k)
<1>1. /\ Len(commands) \in Nat /\ k <= Len(commands)
      /\ DOMAIN commands = 1..Len(commands)
      /\ DOMAIN commands' = 1..(Len(commands) - k + n)
      /\ \A i \in 1..(Len(commands) - k) : commands'[i] = commands[i + k]
  BY DEF Shifted
<1> DEFINE L == Len(commands)
<1> HIDE DEF L
<1>2. L \in Nat /\ DOMAIN commands = 1..L /\ DOMAIN commands' = 1..(L - k + n)
      /\ \A i \in 1..(L - k) : commands'[i] = commands[i + k]
  BY <1>1 DEF L
<1>3. ASSUME NEW i \in DOMAIN commands', commands'[i].kind = kind
      PROVE  i \in Nat \ {0} /\ i + k \in DOMAIN commands /\ commands'[i] = commands[i + k]
  <2>1. i \in Nat \ {0} /\ ~(i > L - k)
    BY <1>2, <1>3 DEF L
  <2>2. i \in 1..(L - k) /\ i + k \in 1..L
    BY <1>2, <2>1
  <2> QED BY <1>2, <2>1, <2>2
<1>4. ASSUME NEW i \in DOMAIN commands
      PROVE  i \in Nat \ {0} /\ (i > k => i - k \in DOMAIN commands' /\ commands'[i - k] = commands[i])
  <2>1. i \in Nat \ {0} /\ i <= L
    BY <1>2
  <2>2. i > k => i - k \in 1..(L - k) /\ i - k \in 1..(L - k + n) /\ (i - k) + k = i
    BY <1>2, <2>1
  <2> QED BY <1>2, <2>1, <2>2
<1> QED BY <1>3, <1>4 DEF Kept, Waiting

Drains ==
  \/ AppendCompletion \/ QueueCheckpoint \/ SaveSummary \/ StartPreflight \/ IgnoreDispatch
  \/ ClaimWrite \/ SpawnFails \/ RecordPreflight \/ RecordOutcome \/ RecordReadback

LEMMA Drained ==
  ASSUME TypeOK, Drains
  PROVE  /\ app = "up" /\ app' = "up" /\ commands \in Seq(Command) /\ commands # <<>> /\ Head(commands) = commands[1]
         /\ Done \/ DispatchAgain
<1>1. \E kind : Take(kind)
  BY DEF Drains, AppendCompletion, QueueCheckpoint, SaveSummary, StartPreflight, IgnoreDispatch, ClaimWrite,
         SpawnFails, RecordPreflight, RecordOutcome, RecordReadback
<1>2. app = "up" /\ commands # <<>>
  BY <1>1 DEF Take
<1>3. app' = app
  BY DEF Drains, AppendCompletion, QueueCheckpoint, SaveSummary, StartPreflight, IgnoreDispatch, ClaimWrite,
         SpawnFails, RecordPreflight, RecordOutcome, RecordReadback
<1>4. Done \/ DispatchAgain
  BY DEF Drains, AppendCompletion, QueueCheckpoint, SaveSummary, StartPreflight, IgnoreDispatch, ClaimWrite,
         SpawnFails, RecordPreflight, RecordOutcome, RecordReadback
<1> QED BY <1>2, <1>3, <1>4, ChannelTaken, TypeParts DEF ChannelOK

LEMMA DrainedKinds ==
  ASSUME TypeOK, Drains
  PROVE  /\ commands[1].kind = "complete" => AppendCompletion
         /\ commands[1].kind = "queue" => QueueCheckpoint
         /\ commands[1].kind = "save" => SaveSummary
         /\ commands[1].kind = "outcome" <=> RecordOutcome
         /\ commands[1].kind = "readback" <=> RecordReadback
<1>1. Head(commands) = commands[1]
  BY Drained
<1> QED BY <1>1 DEF Drains, AppendCompletion, QueueCheckpoint, SaveSummary, StartPreflight, IgnoreDispatch, ClaimWrite,
         SpawnFails, RecordPreflight, RecordOutcome, RecordReadback, Take

LEMMA DrainKeeps ==
  ASSUME TypeOK, Drains, NEW kind, kind # "dispatch"
  PROVE  Kept(kind, 1)
<1>1. commands \in Seq(Command) /\ commands # <<>> /\ (Done \/ DispatchAgain)
  BY Drained
<1>2. Len(commands) \in Nat \ {0}
  BY <1>1, ChannelTaken
<1>3. CASE Done
  <2>1. Shifted(1, 0)
    BY <1>1, <1>3, ChannelTaken DEF Done
  <2>2. \A i \in DOMAIN commands' : ~(i > Len(commands) - 1)
    BY <1>2, <2>1 DEF Shifted
  <2> QED BY <2>1, <2>2, ShiftKeeps
<1>4. CASE DispatchAgain
  <2>1. Shifted(1, 1) /\ commands'[Len(commands)] = [kind |-> "dispatch"]
    BY <1>1, <1>4, ChannelTaken DEF DispatchAgain
  <2>2. \A i \in DOMAIN commands' : i > Len(commands) - 1 => i = Len(commands)
    BY <1>2, <2>1 DEF Shifted
  <2>3. \A i \in DOMAIN commands' : i > Len(commands) - 1 => commands'[i].kind # kind
    BY <2>1, <2>2
  <2> QED BY <2>1, <2>3, ShiftKeeps
<1> QED BY <1>1, <1>3, <1>4

LEMMA Undrained ==
  ASSUME [Next]_vars, ~Drains
  PROVE  \/ commands' = commands
         \/ CompleteTurn \/ Nudge \/ ReadBack \/ VerifyUncertain \/ Crash
         \/ \E text \in Text \cup {NoMemory} : AnswerSummary(text)
         \/ \E ok \in BOOLEAN : PreflightEnds(ok)
<1>1. UNCHANGED vars => commands' = commands
  BY DEF vars, memory
<1>2. Window => commands' = commands \/ CompleteTurn \/ Nudge \/ \E text \in Text \cup {NoMemory} : AnswerSummary(text)
  BY DEF Window, SummaryFails, AskSummary
<1>3. Threads => commands' = commands \/ ReadBack \/ VerifyUncertain \/ \E ok \in BOOLEAN : PreflightEnds(ok)
  BY DEF Threads, SendCreate, ApplyLate, memory
<1>4. Worker => commands' = commands
  BY DEF Worker, Drains, Activate, EnqueueMissing, RecoverInterrupted, Elapse
<1> QED BY <1>1, <1>2, <1>3, <1>4 DEF Next

LEMMA PostKeeps ==
  ASSUME TypeOK, NEW c \in Command, commands' = Append(commands, c)
  PROVE  /\ commands' \in Seq(Command) /\ Shifted(0, 1) /\ commands'[Len(commands) + 1] = c
         /\ \A kind : kind # c.kind => Kept(kind, 0)
<1>1. commands \in Seq(Command)
  BY TypeParts DEF ChannelOK
<1>2. Shifted(0, 1) /\ commands'[Len(commands) + 1] = c
  BY <1>1, ChannelAdded
<1>3. ASSUME NEW kind, kind # c.kind PROVE Kept(kind, 0)
  <2>1. Len(commands) \in Nat /\ DOMAIN commands' = 1..(Len(commands) - 0 + 1)
    BY <1>2 DEF Shifted
  <2>2. \A i \in DOMAIN commands' : i > Len(commands) - 0 => i = Len(commands) + 1
    BY <2>1
  <2>3. \A i \in DOMAIN commands' : i > Len(commands) - 0 => commands'[i].kind # kind
    BY <1>2, <1>3, <2>2
  <2> QED BY <1>2, <2>3, ShiftKeeps
<1> QED BY <1>2, <1>3 DEF Shifted

LEMMA SameKeeps ==
  ASSUME TypeOK, commands' = commands, NEW kind
  PROVE  Kept(kind, 0) /\ commands' \in Seq(Command)
<1>1. commands \in Seq(Command)
  BY TypeParts DEF ChannelOK
<1>2. Shifted(0, 0)
  BY <1>1, ChannelSame
<1>3. \A i \in DOMAIN commands' : ~(i > Len(commands) - 0)
  BY <1>2 DEF Shifted
<1> QED BY <1>1, <1>2, <1>3, ShiftKeeps

LEMMA CompletionPosted ==
  ASSUME TypeOK, CompleteTurn
  PROVE  LET t == LastCompleted + 1
             c == [kind |-> "complete", turn |-> t]
             d == [kind |-> "queue", turn |-> t]
         IN  /\ t \in Turn /\ Shifted(0, 2)
             /\ commands'[Len(commands) + 1] = c /\ commands'[Len(commands) + 2] = d
             /\ \A kind : kind \notin {"complete", "queue"} => Kept(kind, 0)
<1> DEFINE t == LastCompleted + 1
           c == [kind |-> "complete", turn |-> t]
           d == [kind |-> "queue", turn |-> t]
<1>1. t \in Turn /\ commands' = commands \o <<c, d>> /\ commands \in Seq(Command)
  BY TypeParts DEF CompleteTurn, ChannelOK
<1>2. c.kind = "complete" /\ d.kind = "queue"
  OBVIOUS
<1>3. c \in Command /\ d \in Command
  BY <1>1 DEF Command
<1> HIDE DEF c, d, t
<1>4. Shifted(0, 2) /\ commands'[Len(commands) + 1] = c /\ commands'[Len(commands) + 2] = d
  BY <1>1, <1>3, ChannelTwo
<1>5. ASSUME NEW kind, kind \notin {"complete", "queue"} PROVE Kept(kind, 0)
  <2>1. Len(commands) \in Nat /\ DOMAIN commands' = 1..(Len(commands) - 0 + 2)
    BY <1>4 DEF Shifted
  <2>2. \A i \in DOMAIN commands' : i > Len(commands) - 0 => i = Len(commands) + 1 \/ i = Len(commands) + 2
    BY <2>1
  <2>3. \A i \in DOMAIN commands' : i > Len(commands) - 0 => commands'[i].kind # kind
    BY <1>2, <1>4, <1>5, <2>2
  <2> QED BY <1>4, <2>3, ShiftKeeps
<1> QED BY <1>1, <1>4, <1>5 DEF c, d, t

(* The commands that the window and the threads post. *)
Outcome(ok) == [kind |-> "outcome", turn |-> writer.turn, ok |-> ok]

LEMMA OutcomePosted ==
  ASSUME TypeOK, WriterInv, ReadBack
  PROVE  \E ok \in BOOLEAN : /\ Outcome(ok) \in Command /\ commands' = Append(commands, Outcome(ok))
                             /\ ok => remote[writer.turn] = summary[writer.turn]
<1>1. writer.turn \in Turn
  BY WriterTurn DEF ReadBack
<1>2. PICK ok \in BOOLEAN : /\ commands' = Append(commands, Outcome(ok))
                            /\ ok => remote[writer.turn] = summary[writer.turn]
  BY DEF ReadBack, Reported, Posted, Outcome
<1>3. Outcome(ok) \in Command
  BY <1>1 DEF Command, Outcome
<1> QED BY <1>2, <1>3

LEMMA ReadbackPosted ==
  ASSUME TypeOK, VerifyUncertain
  PROVE  \E t \in Turn, ok \in BOOLEAN :
           LET c == [kind |-> "readback", turn |-> t, ok |-> ok]
           IN  c \in Command /\ commands' = Append(commands, c) /\ (ok => Stored(t))
<1> DEFINE t == First(outbox, reader)
<1>1. t \in Turn
  <2>1. WellFormed(outbox) /\ reader \subseteq ToSet(outbox.queue) /\ reader # {}
    BY TypeParts DEF FileOK, VerifyUncertain
  <2>2. t \in reader
    BY <2>1, FirstOf
  <2> QED BY <2>1, <2>2 DEF WellFormed
<1>2. PICK ok \in BOOLEAN : Reported("readback", t, ok) /\ (ok => Stored(t))
  BY DEF VerifyUncertain, Stored
<1> HIDE DEF t
<1>3. [kind |-> "readback", turn |-> t, ok |-> ok] \in Command
  BY <1>1 DEF Command
<1> QED BY <1>1, <1>2, <1>3 DEF Reported, Posted

LEMMA SummaryPosted ==
  ASSUME TypeOK, NEW text \in Text \cup {NoMemory}, AnswerSummary(text)
  PROVE  \/ commands' = commands /\ GiveUp(window.asked) /\ window.asked \in Turn
         \/ LET c == [kind |-> "save", turn |-> window.asked, text |-> text]
            IN  c \in Command /\ commands' = Append(commands, c) /\ UNCHANGED <<window, history>> /\ c.turn \in Turn
<1>1. window.asked \in Turn
  BY TypeParts DEF AnswerSummary, WindowOK
<1>2. [kind |-> "save", turn |-> window.asked, text |-> text] \in Command
  BY <1>1 DEF Command
<1> QED BY <1>1, <1>2 DEF AnswerSummary, Posted

LEMMA ProbePosted ==
  ASSUME TypeOK, Nudge \/ \E ok \in BOOLEAN : PreflightEnds(ok)
  PROVE  \E c \in Command : commands' = Append(commands, c) /\ c.kind \in {"dispatch", "preflight"}
<1>1. CASE Nudge
  <2>1. [kind |-> "dispatch"] \in Command
    BY DEF Command
  <2> QED BY <1>1, <2>1 DEF Nudge, Posted
<1>2. CASE \E ok \in BOOLEAN : PreflightEnds(ok)
  <2>1. PICK ok \in BOOLEAN : PreflightEnds(ok)
    BY <1>2
  <2>2. worker.probing \in Turn
    BY <2>1, TypeParts DEF PreflightEnds, WorkerOK
  <2>3. [kind |-> "preflight", turn |-> worker.probing, ok |-> ok] \in Command
    BY <2>2 DEF Command
  <2> QED BY <2>1, <2>3 DEF PreflightEnds, Posted
<1> QED BY <1>1, <1>2

LEMMA ChannelKept ==
  ASSUME TypeOK, WriterInv, [Next]_vars
  PROVE  ChannelOK'
<1>1. CASE Drains
  <2>1. Shifted(1, 0) \/ Shifted(1, 1)
    BY <1>1, Drained, ChannelTaken DEF Done, DispatchAgain
  <2> QED BY <2>1 DEF Shifted, ChannelOK
<1>2. CASE commands' = commands
  BY <1>2, SameKeeps DEF ChannelOK
<1>3. CASE CompleteTurn
  BY <1>3, CompletionPosted DEF ChannelOK, Shifted
<1>4. CASE Nudge \/ \E ok \in BOOLEAN : PreflightEnds(ok)
  BY <1>4, ProbePosted, PostKeeps DEF ChannelOK
<1>5. CASE ReadBack
  BY <1>5, OutcomePosted, PostKeeps DEF ChannelOK
<1>6. CASE VerifyUncertain
  BY <1>6, ReadbackPosted, PostKeeps DEF ChannelOK
<1>7. CASE Crash
  BY <1>7 DEF Crash, ChannelOK
<1>8. CASE \E text \in Text \cup {NoMemory} : AnswerSummary(text)
  BY <1>2, <1>8, SummaryPosted, PostKeeps DEF ChannelOK
<1> QED BY <1>1, <1>2, <1>3, <1>4, <1>5, <1>6, <1>7, <1>8, Undrained

LEMMA TypeKept ==
  ASSUME TypeOK, WriterInv, [Next]_vars
  PROVE  TypeOK'
BY TypeParts, CountsKept, WindowKept, WorkerKept, ServiceKept, HistoryKept, FileKept, ChannelKept

(* Only the action that posts a kind of command adds one. *)
LEMMA Carried ==
  ASSUME TypeOK, WriterInv, [Next]_vars, ~Crash,
         NEW kind \in {"complete", "queue", "save", "outcome", "readback"},
         kind \in {"complete", "queue"} => ~CompleteTurn,
         kind = "save" => ~\E text \in Text \cup {NoMemory} : AnswerSummary(text),
         kind = "outcome" => ~ReadBack,
         kind = "readback" => ~VerifyUncertain
  PROVE  Kept(kind, IF Drains THEN 1 ELSE 0)
<1>1. CASE Drains
  BY <1>1, DrainKeeps
<1>2. ASSUME ~Drains PROVE Kept(kind, 0)
  <2>1. CASE commands' = commands
    BY <2>1, SameKeeps
  <2>2. CASE CompleteTurn
    BY <2>2, CompletionPosted
  <2>3. CASE Nudge \/ \E ok \in BOOLEAN : PreflightEnds(ok)
    BY <2>3, ProbePosted, PostKeeps
  <2>4. CASE ReadBack
    <3>1. PICK ok \in BOOLEAN : Outcome(ok) \in Command /\ commands' = Append(commands, Outcome(ok))
      BY <2>4, OutcomePosted
    <3>2. Outcome(ok).kind = "outcome"
      BY DEF Outcome
    <3> QED BY <2>4, <3>1, <3>2, PostKeeps
  <2>5. CASE VerifyUncertain
    <3>1. PICK c \in Command : commands' = Append(commands, c) /\ c.kind = "readback"
      BY <2>5, ReadbackPosted
    <3> QED BY <2>5, <3>1, PostKeeps
  <2>6. CASE \E text \in Text \cup {NoMemory} : AnswerSummary(text)
    <3>1. commands' = commands \/ \E c \in Command : commands' = Append(commands, c) /\ c.kind = "save"
      BY <2>6, SummaryPosted
    <3> QED BY <2>1, <2>6, <3>1, PostKeeps
  <2> QED BY <1>2, <2>1, <2>2, <2>3, <2>4, <2>5, <2>6, Undrained
<1> QED BY <1>1, <1>2

(* Who starts, moves and ends the write thread. *)
LEMMA WriterMoves ==
  ASSUME TypeOK, [Next]_vars
  PROVE  \/ UNCHANGED <<writer, creates>> /\ (worker'.writing = worker.writing)
         \/ UNCHANGED <<writer, creates>> /\ RecordOutcome /\ worker'.writing = FALSE
         \/ creates' = creates /\ \E t \in Turn : Claimed(t)
         \/ SendCreate \/ ReadBack
         \/ creates' = creates /\ Crash
<1>1. worker \in [writing : BOOLEAN, probing : Turn \cup {None}, attested : Turn \cup {None},
                  recent : BOOLEAN, wait : BOOLEAN]
  BY TypeParts DEF WorkerOK
<1>2. UNCHANGED vars \/ Window => UNCHANGED <<writer, creates, worker>>
  BY DEF vars, memory, threads, service, Window, CompleteTurn, SummaryFails, Nudge, AskSummary, AnswerSummary
<1>3. Threads => SendCreate \/ ReadBack \/ UNCHANGED <<writer, creates, worker>>
  BY DEF Threads, VerifyUncertain, PreflightEnds, ApplyLate, threads, memory, service
<1>4. Crash => creates' = creates
  BY DEF Crash, service
<1>5. Activate \/ EnqueueMissing \/ RecoverInterrupted \/ AppendCompletion \/ QueueCheckpoint \/ SaveSummary
        \/ IgnoreDispatch \/ RecordReadback => UNCHANGED <<writer, creates, worker>>
  BY DEF Activate, EnqueueMissing, RecoverInterrupted, AppendCompletion, QueueCheckpoint, SaveSummary,
         IgnoreDispatch, RecordReadback, threads, service
<1>6. StartPreflight => UNCHANGED <<writer, creates>> /\ worker'.writing = worker.writing
  BY <1>1 DEF StartPreflight, threads, service
<1>7. RecordPreflight \/ Elapse => UNCHANGED <<writer, creates>> /\ worker'.writing = worker.writing
  BY <1>1 DEF RecordPreflight, Elapse, threads, service
<1>8. SpawnFails => UNCHANGED <<writer, creates>> /\ worker'.writing = worker.writing
  BY <1>1 DEF SpawnFails, threads, service
<1>9. RecordOutcome => UNCHANGED <<writer, creates>> /\ worker'.writing = FALSE
  BY <1>1 DEF RecordOutcome, threads, service
<1>10. ClaimWrite => \/ UNCHANGED <<writer, creates>> /\ worker'.writing = worker.writing
                     \/ creates' = creates /\ \E t \in Turn : Claimed(t)
  <2>1. ClaimWrite => \E t \in Turn : Claimed(t) \/ Unspawned(t)
    BY ClaimMoves
  <2>2. \A t \in Turn : Unspawned(t) => UNCHANGED <<writer, creates>> /\ worker'.writing = worker.writing
    BY <1>1 DEF Unspawned, threads, service
  <2>3. \A t \in Turn : Claimed(t) => creates' = creates
    BY DEF Claimed, service
  <2> QED BY <2>1, <2>2, <2>3
<1> QED BY <1>2, <1>3, <1>4, <1>5, <1>6, <1>7, <1>8, <1>9, <1>10 DEF Next, Worker

LEMMA QuietKept ==
  ASSUME TypeOK, WriterInv, [Next]_vars, app' # "up"
  PROVE  commands' = <<>> /\ window' = Idle /\ worker' = Forgetful /\ writer' = Quiet /\ reader' = {}
<1>1. CASE Crash
  BY <1>1 DEF Crash
<1>2. ASSUME ~Crash PROVE app # "up" /\ UNCHANGED <<commands, window, worker, writer, reader>>
  <2>1. UNCHANGED vars => app' = app /\ UNCHANGED <<commands, window, worker, writer, reader>>
    BY DEF vars, memory, threads
  <2>2. Window => app' = "up"
    BY DEF Window, CompleteTurn, SummaryFails, Nudge, AskSummary, AnswerSummary
  <2>3. Threads => app' = "up" \/ (app' = app /\ UNCHANGED <<commands, window, worker, writer, reader>>)
    BY DEF Threads, SendCreate, ReadBack, VerifyUncertain, PreflightEnds, ApplyLate, memory, threads
  <2>4. Drains => app' = "up"
    BY Drained
  <2>5. Worker => Drains \/ Activate \/ EnqueueMissing \/ app' = "up"
    BY DEF Worker, Drains, RecoverInterrupted, Starting, Elapse
  <2>6. Activate \/ EnqueueMissing => app # "up" /\ UNCHANGED <<commands, window, worker, writer, reader>>
    BY DEF Activate, EnqueueMissing, Starting, threads
  <2> QED BY <1>2, <2>1, <2>2, <2>3, <2>4, <2>5, <2>6 DEF Next
<1> QED BY <1>1, <1>2 DEF WriterInv

LEMMA WriterInvKept ==
  ASSUME TypeOK, WriterInv, [Next]_vars
  PROVE  WriterInv'
<1> DEFINE W == Waiting("outcome")
           k == IF Drains THEN 1 ELSE 0
<1>1. /\ Active => writer.turn \in Turn /\ worker.writing
      /\ \A i \in W : worker.writing /\ ~Active
      /\ \A i, j \in W : i = j
  BY DEF WriterInv
<1>2. Kept("outcome", k) => \A i \in Waiting("outcome")' : i \in Nat \ {0} /\ i + k \in W
  BY DEF Kept
<1> HIDE DEF W
<1>3. Kept("outcome", k) => \A i, j \in Waiting("outcome")' : i = j
  <2>1. ASSUME Kept("outcome", k), NEW i \in Waiting("outcome")', NEW j \in Waiting("outcome")'
        PROVE  i = j
    <3>1. i \in Nat /\ j \in Nat /\ i + k = j + k /\ k \in {0, 1}
      BY <1>1, <1>2, <2>1
    <3> HIDE DEF k
    <3> QED BY <3>1
  <2> QED BY <2>1
<1>4. ~Crash /\ ~ReadBack => Kept("outcome", k)
  BY Carried
<1>5. /\ Active' => writer'.turn \in Turn /\ worker'.writing
      /\ \A i \in Waiting("outcome")' : worker'.writing /\ ~Active'
      /\ \A i, j \in Waiting("outcome")' : i = j
  <2>1. CASE Crash
    <3>1. Waiting("outcome")' = {} /\ ~Active'
      BY <2>1 DEF Crash, Waiting, Active, Quiet
    <3> QED BY <3>1
  <2>2. CASE ReadBack
    <3>1. PICK ok \in BOOLEAN : Outcome(ok) \in Command /\ commands' = Append(commands, Outcome(ok))
      BY <2>2, OutcomePosted
    <3>2. Active /\ worker.writing /\ worker' = worker /\ writer' = Quiet
      BY <2>2, WriterTurn DEF ReadBack
    <3>3. ~Active' /\ worker'.writing
      BY <3>2 DEF Active, Quiet
    <3>4. Shifted(0, 1)
      BY <3>1, PostKeeps
    <3>5. \A i \in Waiting("outcome")' : i = Len(commands) + 1
      <4>1. ASSUME NEW i \in DOMAIN commands', i # Len(commands) + 1
            PROVE  commands'[i] = commands[i] /\ i \in DOMAIN commands
        BY <3>4, <4>1 DEF Shifted
      <4>2. \A i \in DOMAIN commands : commands[i].kind # "outcome"
        BY <1>1, <3>2 DEF W, Waiting
      <4> QED BY <4>1, <4>2 DEF Waiting
    <3> QED BY <3>3, <3>5
  <2>3. CASE ~Crash /\ UNCHANGED <<writer, creates>> /\ worker'.writing = worker.writing /\ ~ReadBack
    <3>1. Active' = Active /\ writer' = writer
      BY <2>3 DEF Active
    <3> QED BY <1>1, <1>2, <1>3, <1>4, <2>3, <3>1
  <2>4. CASE ~Crash /\ UNCHANGED <<writer, creates>> /\ RecordOutcome /\ worker'.writing = FALSE /\ ~ReadBack
    <3>1. Drains /\ 1 \in W /\ Kept("outcome", 1)
      BY <1>4, <2>4, TakeFacts DEF Drains, RecordOutcome, Taking, W
    <3>2. Waiting("outcome")' = {}
      <4>1. ASSUME NEW i \in Waiting("outcome")' PROVE FALSE
        <5>1. i \in Nat \ {0} /\ i + 1 \in W
          BY <3>1 DEF Kept, W
        <5>2. i + 1 = 1
          BY <1>1, <3>1, <5>1
        <5> QED BY <5>1, <5>2
      <4> QED BY <4>1
    <3>3. ~Active /\ Active' = Active
      BY <1>1, <2>4, <3>1 DEF Active
    <3> QED BY <3>2, <3>3
  <2>5. CASE ~Crash /\ ~ReadBack /\ \E t \in Turn : Claimed(t)
    <3>1. PICK t \in Turn : Claimed(t)
      BY <2>5
    <3>2. W = {} /\ ~Active
      BY <1>1, <3>1 DEF Claimed
    <3>3. Waiting("outcome")' = {}
      BY <1>2, <1>4, <2>5, <3>2
    <3>4. worker \in [writing : BOOLEAN, probing : Turn \cup {None}, attested : Turn \cup {None},
                      recent : BOOLEAN, wait : BOOLEAN]
      BY TypeParts DEF WorkerOK
    <3>5. worker'.writing = (faults' = faults)
      BY <3>1, <3>4 DEF Claimed
    <3>6. faults' = faults => writer'.turn = t
      BY <3>1 DEF Claimed
    <3>7. faults' # faults => writer' = writer
      BY <3>1 DEF Claimed
    <3>8. Active' => faults' = faults
      BY <3>2, <3>7 DEF Active
    <3> QED BY <3>3, <3>5, <3>6, <3>8
  <2>6. CASE ~Crash /\ ~ReadBack /\ SendCreate
    <3>1. Active /\ writer.turn \in Turn /\ worker.writing
      BY <2>6, WriterTurn DEF SendCreate
    <3>2. worker' = worker /\ commands' = commands /\ writer'.turn = writer.turn
      <4>1. writer \in [turn : Turn \cup {None}, phase : {"none", "create", "reading", "failed"}]
        BY TypeParts DEF WorkerOK
      <4> QED BY <2>6, <4>1 DEF SendCreate
    <3>3. Waiting("outcome")' = {}
      BY <1>1, <3>1, <3>2 DEF W, Waiting
    <3> QED BY <3>1, <3>2, <3>3
  <2> QED BY <2>1, <2>2, <2>3, <2>4, <2>5, <2>6, WriterMoves
<1> QED BY <1>5, QuietKept DEF WriterInv, Active

-----------------------------------------------------------------------------
(* A create is sent for an entry that no file to be read shows unsent. *)
Past == {"dispatched", "uncertain", "confirmed"}

InPast(t) == outbox.state[t] \in Past /\ stable.state[t] \in Past

LEMMA PastStays ==
  ASSUME TypeOK, [Next]_vars, NEW t \in Turn, InPast(t)
  PROVE  InPast(t)'
<1>1. CASE UNCHANGED <<outbox, stable>>
  BY <1>1 DEF InPast
<1>2. CASE \E box : Edits(box) /\ Saved(box) /\ Grounds(box)
  <2>1. PICK box : Edits(box) /\ Saved(box)
    BY <1>2
  <2>2. box.state[t] \in Past
    BY <2>1 DEF Edits, Transition, InPast, Past
  <2> QED BY <2>1, <2>2 DEF Saved, InPast
<1>3. CASE Crash /\ outbox' \in Boxes /\ stable' = outbox'
  BY <1>3 DEF Boxes, InPast
<1> QED BY <1>1, <1>2, <1>3, FileSteps DEF FileStep

LEMMA CreateParts ==
  /\ CreateInv <=> /\ \A t \in Turn : creates[t] <= 1
                   /\ \A t \in Turn : creates[t] = 1 \/ (writer.phase = "create" /\ writer.turn = t) => InPast(t)
                   /\ writer.phase = "create" => creates[writer.turn] = 0
  /\ CreateInv' <=> /\ \A t \in Turn : creates'[t] <= 1
                    /\ \A t \in Turn : creates'[t] = 1 \/ (writer'.phase = "create" /\ writer'.turn = t) => InPast(t)'
                    /\ writer'.phase = "create" => creates'[writer'.turn] = 0
BY DEF CreateInv, InPast, Past, Boxes

LEMMA CreateInvKept ==
  ASSUME TypeOK, WriterInv, CreateInv, [Next]_vars
  PROVE  CreateInv'
<1>1. /\ \A t \in Turn : creates[t] <= 1
      /\ \A t \in Turn : creates[t] = 1 \/ (writer.phase = "create" /\ writer.turn = t) => InPast(t)
      /\ writer.phase = "create" => creates[writer.turn] = 0
  BY CreateParts
<1>2. creates \in [Turn -> Nat]
  BY TypeParts DEF ServiceOK
<1>3. CASE UNCHANGED <<writer, creates>>
  BY <1>1, <1>3, PastStays, CreateParts
<1>4. CASE creates' = creates /\ writer' = Quiet
  <2>1. writer'.phase # "create"
    BY <1>4 DEF Quiet
  <2> QED BY <1>1, <1>4, <2>1, PastStays, CreateParts
<1>5. CASE SendCreate
  <2>1. writer.turn \in Turn /\ writer.phase = "create" /\ writer'.phase # "create"
    <3>1. writer.turn \in Turn /\ writer.phase = "create"
      BY <1>5, WriterTurn DEF SendCreate
    <3>2. writer \in [turn : Turn \cup {None}, phase : {"none", "create", "reading", "failed"}]
      BY TypeParts DEF WorkerOK
    <3>3. writer'.phase \in {"reading", "failed"}
      BY <1>5, <3>2 DEF SendCreate
    <3> QED BY <3>1, <3>3
  <2>2. creates' = [creates EXCEPT ![writer.turn] = creates[writer.turn] + 1]
    BY <1>5 DEF SendCreate
  <2>3. \A t \in Turn : creates'[t] = creates[t] \/ (t = writer.turn /\ creates'[t] = 1)
    BY <1>1, <1>2, <2>1, <2>2
  <2> QED BY <1>1, <2>1, <2>3, PastStays, CreateParts
<1>6. CASE creates' = creates /\ \E t \in Turn : Claimed(t)
  <2>1. PICK t \in Turn : Claimed(t)
    BY <1>6
  <2>2. CASE faults' = faults
    <3>1. outbox' = Moved(outbox, t, "dispatched") /\ stable' = Moved(outbox, t, "dispatched") /\ outbox.state[t] = "ready"
      BY <2>1, <2>2 DEF Claimed, Saved
    <3>2. Edited(Moved(outbox, t, "dispatched"), t, "dispatched")
      BY <3>1, BoxTyped, MovedBox DEF State
    <3>3. InPast(t)'
      BY <3>1, <3>2 DEF Edited, InPast, Past
    <3>4. creates[t] = 0
      <4>1. creates[t] # 1
        BY <1>1, <3>1 DEF InPast, Past
      <4> QED BY <1>1, <1>2, <4>1
    <3>5. writer'.turn = t
      BY <2>1, <2>2 DEF Claimed
    <3> QED BY <1>1, <1>6, <3>3, <3>4, <3>5, PastStays, CreateParts
  <2>3. CASE faults' # faults
    BY <1>3, <1>6, <2>1, <2>3 DEF Claimed
  <2> QED BY <2>2, <2>3
<1>7. ReadBack \/ Crash => writer' = Quiet
  BY DEF ReadBack, Crash
<1>8. ReadBack => creates' = creates
  BY DEF ReadBack, service
<1> QED BY <1>3, <1>4, <1>5, <1>6, <1>7, <1>8, WriterMoves

-----------------------------------------------------------------------------
(* What is saved or stored stays. *)
LEMMA SummaryStays ==
  ASSUME TypeOK, [Next]_vars, NEW t \in Turn, summary[t] # None
  PROVE  summary'[t] = summary[t]
<1>1. UNCHANGED vars \/ Window \/ Threads \/ Crash => summary' = summary
  BY DEF vars, files, Window, CompleteTurn, SummaryFails, Nudge, AskSummary, AnswerSummary,
         Threads, SendCreate, ReadBack, VerifyUncertain, PreflightEnds, ApplyLate, Crash
<1>2. Worker => summary' = summary \/ SaveSummary
  BY DEF Worker, Activate, EnqueueMissing, RecoverInterrupted, AppendCompletion, QueueCheckpoint, files, StartPreflight,
         IgnoreDispatch, ClaimWrite, SpawnFails, RecordPreflight, RecordOutcome, RecordReadback, Elapse
<1>3. SaveSummary => summary' = summary
                     \/ \E u, text : summary[u] \in {None, text} /\ summary' = [summary EXCEPT ![u] = text]
  <2> HAVE SaveSummary
  <2> DEFINE u == Head(commands).turn
             text == Head(commands).text
  <2>1. summary' = summary \/ (summary[u] \in {None, text} /\ summary' = [summary EXCEPT ![u] = text])
    BY DEF SaveSummary
  <2> HIDE DEF u, text
  <2> QED BY <2>1
<1>4. summary \in [Turn -> Text \cup {None}]
  BY TypeParts DEF ServiceOK
<1>5. ASSUME NEW u, NEW text, summary[u] \in {None, text}, summary' = [summary EXCEPT ![u] = text]
      PROVE  summary'[t] = summary[t]
  BY <1>4, <1>5
<1> QED BY <1>1, <1>2, <1>3, <1>5 DEF Next

StoredNext(t) == summary'[t] # None /\ remote'[t] = summary'[t]

LEMMA StoredStays ==
  ASSUME TypeOK, WriterInv, [Next]_vars, NEW t \in Turn, Stored(t)
  PROVE  StoredNext(t)
<1>1. summary[t] # None /\ remote[t] = summary[t] /\ summary'[t] = summary[t]
  BY SummaryStays DEF Stored
<1>2. remote \in [Turn -> Text \cup {None, Garbled}]
  BY TypeParts DEF ServiceOK
<1>3. UNCHANGED vars \/ Window \/ Crash => remote' = remote
  BY DEF vars, service, Window, CompleteTurn, SummaryFails, Nudge, AskSummary, AnswerSummary, Crash
<1>4. Worker => remote' = remote
  BY DEF Worker, Activate, EnqueueMissing, RecoverInterrupted, AppendCompletion, QueueCheckpoint, SaveSummary, service,
         StartPreflight, IgnoreDispatch, ClaimWrite, SpawnFails, RecordPreflight, RecordOutcome, RecordReadback, Elapse
<1>5. Threads => remote' = remote \/ SendCreate \/ \E u \in Turn : ApplyLate(u)
  BY DEF Threads, ReadBack, VerifyUncertain, PreflightEnds, service
<1>6. SendCreate => remote'[t] = remote[t]
  <2>1. SendCreate => remote' = remote \/ \E u, x : remote[u] = None /\ remote' = [remote EXCEPT ![u] = x]
    BY DEF SendCreate
  <2> QED BY <1>1, <1>2, <2>1
<1>7. (\E u \in Turn : ApplyLate(u)) => remote'[t] = remote[t]
  <2>1. (\E u \in Turn : ApplyLate(u))
          => \E u \in Turn : remote' = [remote EXCEPT ![u] = IF remote[u] = None THEN summary[u] ELSE remote[u]]
    BY DEF ApplyLate
  <2> QED BY <1>1, <1>2, <2>1
<1>8. remote'[t] = remote[t]
  BY <1>3, <1>4, <1>5, <1>6, <1>7 DEF Next
<1> QED BY <1>1, <1>8 DEF StoredNext

LEMMA StoreInvKept ==
  ASSUME TypeOK, WriterInv, StoreInv, [Next]_vars
  PROVE  StoreInv'
<1>1. /\ \A box \in Boxes : \A t \in Turn : box.state[t] \in Written => summary[t] # None
      /\ \A box \in Boxes : \A t \in Turn : box.state[t] = "confirmed" => Stored(t)
      /\ \A i \in Waiting("outcome") \cup Waiting("readback") : commands[i].ok => Stored(commands[i].turn)
      /\ Active => summary[writer.turn] # None
  BY DEF StoreInv
<1>2. /\ \A t \in Turn : summary[t] # None => summary'[t] # None
      /\ \A t \in Turn : Stored(t) => StoredNext(t)
  BY SummaryStays, StoredStays
<1> DEFINE Fine(box) == \A t \in Turn : /\ box.state[t] \in Written => summary'[t] # None
                                        /\ box.state[t] = "confirmed" => StoredNext(t)
<1>3. Fine(outbox) /\ Fine(stable)
  BY <1>1, <1>2 DEF Boxes
<1>4. ASSUME NEW box, Edits(box), Grounds(box) PROVE Fine(box)
  <2> TAKE t \in Turn
  <2>1. CASE box.state[t] = outbox.state[t]
    BY <1>3, <2>1
  <2>2. CASE box.state[t] # outbox.state[t]
    <3>1. box.state[t] = "ready" => summary'[t] # None
      BY <1>4, <2>2 DEF Grounds
    <3>2. box.state[t] = "confirmed" => StoredNext(t)
      BY <1>1, <1>2, <1>4, <2>2 DEF Grounds
    <3>3. box.state[t] \in Written /\ box.state[t] # "ready" => outbox.state[t] \in Written
      BY <1>4, <2>2 DEF Edits, Transition, Written
    <3> QED BY <1>3, <3>1, <3>2, <3>3
  <2> QED BY <2>1, <2>2
<1>5. Fine(outbox') /\ Fine(stable')
  <2>1. CASE UNCHANGED <<outbox, stable>>
    BY <1>3, <2>1
  <2>2. CASE \E box : Edits(box) /\ Saved(box) /\ Grounds(box)
    <3>1. PICK box : Edits(box) /\ Saved(box) /\ Grounds(box)
      BY <2>2
    <3>2. outbox' \in {outbox, box} /\ stable' \in {stable, outbox'} /\ Fine(box)
      BY <1>4, <3>1 DEF Saved
    <3> HIDE DEF Fine
    <3> QED BY <1>3, <3>2
  <2>3. CASE Crash /\ outbox' \in Boxes /\ stable' = outbox'
    <3> HIDE DEF Fine
    <3> QED BY <1>3, <2>3 DEF Boxes
  <2> QED BY <2>1, <2>2, <2>3, FileSteps DEF FileStep
<1>6. /\ \A box \in Boxes' : \A t \in Turn : box.state[t] \in Written => summary'[t] # None
      /\ \A box \in Boxes' : \A t \in Turn : box.state[t] = "confirmed" => StoredNext(t)
  BY <1>5 DEF Boxes
<1> HIDE DEF Fine
<1>7. \A i \in DOMAIN commands : commands[i].kind \in {"outcome", "readback"} => commands[i].turn \in Turn
  BY CommandParts, TypeParts DEF ChannelOK
<1>8. ASSUME NEW kind \in {"outcome", "readback"}, NEW k, Kept(kind, k), NEW i \in Waiting(kind)', commands'[i].ok
      PROVE  StoredNext(commands'[i].turn)
  <2>1. i + k \in Waiting(kind) /\ commands'[i] = commands[i + k]
    BY <1>8 DEF Kept
  <2>2. Stored(commands[i + k].turn) /\ commands[i + k].turn \in Turn
    BY <1>1, <1>7, <1>8, <2>1 DEF Waiting
  <2> QED BY <1>2, <2>1, <2>2
<1>9. ASSUME NEW c \in Command, commands' = Append(commands, c), c.kind \in {"outcome", "readback"},
             c.ok => StoredNext(c.turn)
      PROVE  \A i \in Waiting(c.kind)' : commands'[i].ok => StoredNext(commands'[i].turn)
  <2> TAKE i \in Waiting(c.kind)'
  <2>1. Shifted(0, 1) /\ commands'[Len(commands) + 1] = c
    BY <1>9, PostKeeps
  <2>2. CASE i = Len(commands) + 1
    BY <1>9, <2>1, <2>2
  <2>3. CASE i # Len(commands) + 1
    <3>1. i \in DOMAIN commands /\ commands'[i] = commands[i] /\ commands'[i].kind = c.kind
      BY <2>1, <2>3 DEF Shifted, Waiting
    <3>2. commands[i].ok => Stored(commands[i].turn)
      BY <1>1, <1>9, <3>1 DEF Waiting
    <3> QED BY <1>2, <1>7, <1>9, <3>1, <3>2
  <2> QED BY <2>2, <2>3
<1>10. ReadBack => \A i \in Waiting("outcome")' : commands'[i].ok => StoredNext(commands'[i].turn)
  <2> HAVE ReadBack
  <2>1. PICK ok \in BOOLEAN : /\ Outcome(ok) \in Command /\ commands' = Append(commands, Outcome(ok))
                              /\ ok => remote[writer.turn] = summary[writer.turn]
    BY OutcomePosted
  <2>2. ok => Stored(writer.turn)
    BY <1>1, <2>1, WriterTurn DEF Stored, ReadBack
  <2>3. writer.turn \in Turn
    BY WriterTurn DEF ReadBack
  <2>4. Outcome(ok).kind = "outcome" /\ Outcome(ok).turn = writer.turn /\ (Outcome(ok).ok => ok)
    BY DEF Outcome
  <2>5. Outcome(ok).ok => StoredNext(Outcome(ok).turn)
    <3>1. ok => StoredNext(writer.turn)
      BY <1>2, <2>2, <2>3
    <3> QED BY <2>4, <3>1
  <2> QED BY <1>9, <2>1, <2>4, <2>5
<1>11. VerifyUncertain => \A i \in Waiting("readback")' : commands'[i].ok => StoredNext(commands'[i].turn)
  <2> HAVE VerifyUncertain
  <2>1. PICK t \in Turn, ok \in BOOLEAN :
           LET c == [kind |-> "readback", turn |-> t, ok |-> ok]
           IN  c \in Command /\ commands' = Append(commands, c) /\ (ok => Stored(t))
    BY ReadbackPosted
  <2> DEFINE c == [kind |-> "readback", turn |-> t, ok |-> ok]
  <2>2. c.kind = "readback" /\ c.turn = t /\ (c.ok => ok) /\ c \in Command /\ commands' = Append(commands, c)
    BY <2>1
  <2>3. ok => StoredNext(t)
    BY <1>2, <2>1
  <2> HIDE DEF c
  <2>4. c.ok => StoredNext(c.turn)
    BY <2>2, <2>3
  <2> QED BY <1>9, <2>2, <2>4
<1>12. \A i \in (Waiting("outcome") \cup Waiting("readback"))' : commands'[i].ok => StoredNext(commands'[i].turn)
  <2>1. Crash => Waiting("outcome")' = {} /\ Waiting("readback")' = {}
    BY DEF Crash, Waiting
  <2>2. ~Crash /\ ~ReadBack => Kept("outcome", IF Drains THEN 1 ELSE 0)
    BY Carried
  <2>3. ~Crash /\ ~VerifyUncertain => Kept("readback", IF Drains THEN 1 ELSE 0)
    BY Carried
  <2>4. \A i \in Waiting("outcome")' : commands'[i].ok => StoredNext(commands'[i].turn)
    BY <1>8, <1>10, <2>1, <2>2
  <2>5. \A i \in Waiting("readback")' : commands'[i].ok => StoredNext(commands'[i].turn)
    BY <1>8, <1>11, <2>1, <2>3
  <2> QED BY <2>4, <2>5
<1>13. Active' => summary'[writer'.turn] # None
  <2>1. CASE writer' = writer
    BY <1>1, <1>2, <2>1 DEF Active, WriterInv
  <2>2. CASE writer' = Quiet
    BY <2>2 DEF Active, Quiet
  <2>3. CASE SendCreate
    <3>1. writer \in [turn : Turn \cup {None}, phase : {"none", "create", "reading", "failed"}]
      BY TypeParts DEF WorkerOK
    <3>2. writer'.turn = writer.turn /\ writer.turn \in Turn /\ Active
      BY <2>3, <3>1, WriterTurn DEF SendCreate
    <3> QED BY <1>1, <1>2, <3>2
  <2>4. CASE \E t \in Turn : Claimed(t)
    <3>1. PICK t \in Turn : Claimed(t)
      BY <2>4
    <3>2. summary[t] # None
      BY <1>1, <3>1 DEF Claimed, Boxes, Written
    <3>3. writer' = writer \/ writer'.turn = t
      BY <3>1 DEF Claimed
    <3> QED BY <1>2, <2>1, <3>2, <3>3
  <2>5. ReadBack \/ Crash => writer' = Quiet
    BY DEF ReadBack, Crash
  <2> QED BY <2>1, <2>2, <2>3, <2>4, <2>5, WriterMoves
<1> QED BY <1>6, <1>12, <1>13 DEF StoreInv, Stored, StoredNext, Active, Boxes

-----------------------------------------------------------------------------
(* What only grows. *)
LEMMA HistoryMoves ==
  ASSUME [Next]_vars
  PROVE  history' = history \/ (\E ts : Doubt(ts)) \/ \E t \in Turn : AskSummary(t)
<1>1. UNCHANGED vars \/ Threads \/ Crash => history' = history
  BY DEF vars, Threads, SendCreate, ReadBack, VerifyUncertain, PreflightEnds, ApplyLate, Crash
<1>2. Window => history' = history \/ (\E ts : Doubt(ts)) \/ \E t \in Turn : AskSummary(t)
  BY DEF Window, CompleteTurn, SummaryFails, Nudge, AnswerSummary, GiveUp
<1>3. Activate \/ AppendCompletion \/ StartPreflight \/ IgnoreDispatch \/ ClaimWrite \/ RecordPreflight
        \/ RecordReadback \/ Elapse => history' = history
  BY DEF Activate, AppendCompletion, StartPreflight, IgnoreDispatch, ClaimWrite, RecordPreflight, RecordReadback, Elapse
<1>4. RecoverInterrupted \/ SpawnFails \/ RecordOutcome => \E ts : Doubt(ts)
  BY DEF RecoverInterrupted, SpawnFails, RecordOutcome
<1>5. EnqueueMissing \/ QueueCheckpoint => history' = history \/ \E ts : Doubt(ts)
  BY DEF EnqueueMissing, QueueCheckpoint
<1>6. SaveSummary => \E ts : Doubt(ts)
  BY DEF SaveSummary, Settled
<1> QED BY <1>1, <1>2, <1>3, <1>4, <1>5, <1>6 DEF Next, Worker

LEMMA Grows ==
  ASSUME TypeOK, [Next]_vars
  PROVE  /\ faults \in Nat /\ faults' \in Nat /\ faults <= faults' /\ (faults' = faults \/ faults' > 0)
         /\ history.doubted \subseteq history'.doubted /\ history'.since = history.since
         /\ \A t \in Turn : history'.base[t] = history.base[t] \/ AskSummary(t)
<1>1. faults \in Nat /\ faults' \in Nat /\ faults <= faults' /\ (faults' = faults \/ faults' > 0)
  BY CountMoves, TypeParts, Values DEF CountsOK
<1>2. history \in [base : [Turn -> SUBSET Turn], since : Nat, doubted : SUBSET Turn]
  BY TypeParts DEF HistoryOK
<1>3. ASSUME NEW ts, Doubt(ts)
      PROVE  /\ history.doubted \subseteq history'.doubted /\ history'.since = history.since
             /\ history'.base = history.base
  BY <1>2, <1>3 DEF Doubt
<1>4. ASSUME NEW u \in Turn, AskSummary(u)
      PROVE  /\ history'.doubted = history.doubted /\ history'.since = history.since
             /\ \A t \in Turn : history'.base[t] = history.base[t] \/ t = u
  <2> DEFINE c == Confirmed(outbox, u)
             b == [history.base EXCEPT ![u] = c]
  <2>1. history' = [history EXCEPT !.base = b]
    BY <1>4 DEF AskSummary
  <2>2. \A t \in Turn : b[t] = history.base[t] \/ t = u
    BY <1>2
  <2> HIDE DEF b
  <2> QED BY <1>2, <2>1, <2>2
<1>5. CASE history' = history
  BY <1>1, <1>5
<1>6. CASE \E ts : Doubt(ts)
  BY <1>1, <1>3, <1>6
<1>7. CASE \E t \in Turn : AskSummary(t)
  BY <1>1, <1>4, <1>7
<1> QED BY <1>5, <1>6, <1>7, HistoryMoves

(* A completion is appended while the program runs, after those before it. *)
LEMMA CompletedMoves ==
  ASSUME TypeOK, QueueInv, [Next]_vars
  PROVE  /\ completed \in Nat /\ completed' \in Nat /\ completed <= completed'
         /\ \/ completed' = completed
            \/ /\ AppendCompletion /\ 1 \in Waiting("complete") /\ completed' = commands[1].turn
               /\ app = "up" /\ Drains
<1>1. completed \in Nat /\ completed' \in Nat
  BY CountsKept, TypeParts, Values DEF CountsOK
<1>2. ASSUME AppendCompletion
      PROVE  1 \in Waiting("complete") /\ completed' = commands[1].turn /\ app = "up" /\ Drains
  BY <1>2, TakeFacts DEF AppendCompletion, Taking, Drains
<1>3. ASSUME AppendCompletion PROVE completed <= completed'
  <2>1. commands[1].turn > completed
    BY <1>2, <1>3 DEF QueueInv
  <2> QED BY <1>1, <1>2, <1>3, <2>1
<1> QED BY <1>1, <1>2, <1>3, CountMoves

(* The baseline, once it is there, stays; but a crash may undo it. *)
LEMMA BaselineMoves ==
  ASSUME TypeOK, [Next]_vars, ~Crash
  PROVE  /\ app' = "down" => app = "down"
         /\ \/ outbox'.after = outbox.after
            \/ /\ app = "down" /\ outbox.after = None /\ outbox'.after = completed
               /\ \A u \in Turn : outbox'.state[u] = outbox.state[u]
         /\ \A u \in Turn : outbox.state[u] # "absent" => outbox'.state[u] # "absent"
         /\ \A u \in Turn : outbox.state[u] = "skipped" => outbox'.state[u] = "skipped"
<1>1. app' = "down" => app = "down"
  <2>1. UNCHANGED vars \/ Window \/ Threads => app' = app
    BY DEF vars, memory, Window, CompleteTurn, SummaryFails, Nudge, AskSummary, AnswerSummary,
           Threads, SendCreate, ReadBack, VerifyUncertain, PreflightEnds, ApplyLate
  <2>2. Worker => app' = app \/ app' # "down"
    BY DEF Worker, Activate, EnqueueMissing, RecoverInterrupted, Starting, AppendCompletion, QueueCheckpoint, SaveSummary,
           StartPreflight, IgnoreDispatch, ClaimWrite, SpawnFails, RecordPreflight, RecordOutcome, RecordReadback, Elapse
  <2> QED BY <2>1, <2>2 DEF Next
<1>2. UNCHANGED <<outbox, stable>> \/ \E box : Edits(box) /\ Saved(box)
  BY FileSteps DEF FileStep
<1>3. ASSUME NEW box, Edits(box), Saved(box)
      PROVE  /\ \/ outbox'.after = outbox.after
                \/ /\ app = "down" /\ outbox.after = None /\ outbox'.after = completed
                   /\ \A u \in Turn : outbox'.state[u] = outbox.state[u]
             /\ \A u \in Turn : outbox.state[u] # "absent" => outbox'.state[u] # "absent"
             /\ \A u \in Turn : outbox.state[u] = "skipped" => outbox'.state[u] = "skipped"
  BY <1>3 DEF Edits, Saved, Rebased, Transition
<1> QED BY <1>1, <1>2, <1>3

LEMMA AppMoves ==
  ASSUME [Next]_vars
  PROVE  app' = app \/ Activate \/ EnqueueMissing \/ RecoverInterrupted \/ (Crash /\ app' = "down")
<1>1. UNCHANGED vars \/ Window \/ Threads => app' = app
  BY DEF vars, memory, Window, CompleteTurn, SummaryFails, Nudge, AskSummary, AnswerSummary,
         Threads, SendCreate, ReadBack, VerifyUncertain, PreflightEnds, ApplyLate
<1>2. Crash => app' = "down"
  BY DEF Crash
<1>3. Worker => app' = app \/ Activate \/ EnqueueMissing \/ RecoverInterrupted
  BY DEF Worker, AppendCompletion, QueueCheckpoint, SaveSummary, StartPreflight, IgnoreDispatch, ClaimWrite,
         SpawnFails, RecordPreflight, RecordOutcome, RecordReadback, Elapse
<1> QED BY <1>1, <1>2, <1>3 DEF Next

(* Each form of the file was there, or is the edit of this step. *)
BoxMove(b) ==
  b \in Boxes \/ (Edits(b) /\ Grounds(b) /\ Saved(b) /\ ~Crash)

LEMMA BoxMoves ==
  ASSUME TypeOK, [Next]_vars
  PROVE  /\ BoxMove(outbox') /\ BoxMove(stable')
         /\ stable' = outbox' \/ (stable' = stable /\ ~Crash)
         /\ ~Crash => outbox' = outbox \/ (Edits(outbox') /\ Grounds(outbox') /\ Saved(outbox'))
<1>1. CASE UNCHANGED <<outbox, stable>> /\ ~Crash
  BY <1>1 DEF Boxes, BoxMove
<1>2. CASE Crash
  BY <1>2 DEF Crash, Boxes, BoxMove
<1>3. ASSUME ~Crash, NEW box, Edits(box), Saved(box), Grounds(box)
      PROVE  /\ outbox' = outbox \/ (Edits(outbox') /\ Grounds(outbox') /\ Saved(outbox'))
             /\ stable' = outbox' \/ stable' = stable
  <2>1. outbox' \in {outbox, box} /\ stable' \in {stable, outbox'}
    BY <1>3 DEF Saved
  <2>2. outbox' = box => Edits(outbox') /\ Grounds(outbox') /\ Saved(outbox')
    <3> DEFINE b == outbox'
    <3>1. b = box => Edits(b) /\ Grounds(b) /\ Saved(b)
      BY <1>3
    <3> QED BY <3>1
  <2> QED BY <2>1, <2>2
<1> QED BY <1>1, <1>2, <1>3, FileSteps DEF FileStep, Boxes, BoxMove

LEMMA FileInvKept ==
  ASSUME TypeOK, WriterInv, FileInv, QueueInv, [Next]_vars
  PROVE  FileInv'
<1> DEFINE Sound(b, n) ==
             /\ b.after # None => b.after <= n
             /\ \A t \in Turn : b.state[t] # "absent" => b.after # None /\ b.after < t /\ t <= n
<1>1. /\ Sound(outbox, completed) /\ Sound(stable, completed)
      /\ \A t \in Turn : outbox.state[t] \in {"absent", "pending"} => stable.state[t] \in {"absent", "pending"}
      /\ app # "down" /\ outbox.after = None => faults > 0
      /\ app = "reconciling" => outbox.after # None
  BY DEF FileInv, Boxes
<1>2. completed \in Nat /\ completed' \in Nat /\ completed <= completed'
  BY CompletedMoves
<1>3. \A t \in Turn : t \in Nat
  BY Values
<1>4. outbox.after \in Nat \cup {None} /\ stable.after \in Nat \cup {None} /\ None \notin Nat
  BY BoxTyped, BoxParts, Values
<1>5. Sound(outbox, completed') /\ Sound(stable, completed')
  BY <1>1, <1>2, <1>3, <1>4
<1>6. ASSUME NEW b, Edits(b), Grounds(b) PROVE Sound(b, completed')
  <2>1. CASE Rebased(b)
    BY <1>1, <1>2, <2>1 DEF Rebased
  <2>2. CASE ~Rebased(b)
    <3>1. b.after = outbox.after
      BY <1>6, <2>2 DEF Edits
    <3>2. ASSUME NEW t \in Turn, b.state[t] # "absent"
          PROVE  b.after # None /\ b.after < t /\ t <= completed'
      <4>1. CASE outbox.state[t] # "absent"
        BY <1>5, <3>1, <4>1
      <4>2. CASE outbox.state[t] = "absent"
        <5>1. b.state[t] = "pending" /\ b.state[t] # outbox.state[t]
          BY <1>6, <3>2, <4>2 DEF Edits, Transition
        <5>2. CASE app = "reconciling" /\ Missing # {} /\ t = Min(Missing)
          <6>1. completed \in 0..MaxTurn
            BY TypeParts DEF CountsOK
          <6>2. t > outbox.after /\ t \in 1..completed
            BY <5>2, <6>1, OldestMissing
          <6> QED BY <1>1, <1>2, <1>3, <1>4, <3>1, <5>2, <6>2
        <5>3. CASE 1 \in Waiting("queue") /\ commands[1].turn = t /\ outbox.after # None
          <6>1. outbox.after < t /\ (t <= completed \/ \E i \in Waiting("complete") : i < 1)
            BY <5>3 DEF QueueInv
          <6>2. \A i \in Waiting("complete") : ~(i < 1)
            <7>1. DOMAIN commands = 1..Len(commands) /\ Len(commands) \in Nat
              BY TypeParts, LenProperties DEF ChannelOK
            <7> QED BY <7>1 DEF Waiting
          <6> QED BY <1>2, <1>3, <3>1, <5>3, <6>1, <6>2
        <5> QED BY <1>6, <5>1, <5>2, <5>3 DEF Grounds
      <4> QED BY <4>1, <4>2
    <3> QED BY <1>2, <1>5, <3>1, <3>2
  <2> QED BY <2>1, <2>2
<1>7. Sound(outbox', completed') /\ Sound(stable', completed')
  <2>1. \A b : BoxMove(b) => Sound(b, completed')
    <3> HIDE DEF Sound
    <3> QED BY <1>5, <1>6 DEF BoxMove, Boxes
  <2> QED BY <2>1, BoxMoves
<1>8. \A t \in Turn : outbox'.state[t] \in {"absent", "pending"} => stable'.state[t] \in {"absent", "pending"}
  <2>1. CASE stable' = outbox'
    BY <2>1
  <2>2. CASE stable' = stable /\ ~Crash
    <3>1. \A t \in Turn : outbox'.state[t] \in {"absent", "pending"} => outbox.state[t] \in {"absent", "pending"}
      BY <2>2, BoxMoves DEF Edits, Transition
    <3> QED BY <1>1, <2>2, <3>1
  <2> QED BY <2>1, <2>2, BoxMoves
<1>9. Crash => app' = "down"
  BY DEF Crash
<1>10. CASE Activate
  <2>1. CASE Baselined
    <3>1. faults' = faults \/ faults' > 0
      BY Grows
    <3>2. faults' = faults => outbox'.after # None
      BY <1>2, <1>4, <2>1, BoxTyped, ActivatedBox DEF Baselined, Saved
    <3>3. app' = "reconciling" => faults' = faults
      BY <2>1 DEF Baselined
    <3> QED BY <1>7, <1>8, <3>1, <3>2, <3>3 DEF FileInv, Boxes
  <2>2. CASE ~Baselined
    BY <1>7, <1>8, <1>10, <2>2, ActivateMoves DEF FileInv, Boxes
  <2> QED BY <2>1, <2>2
<1>11. CASE ~Activate /\ ~Crash
  <2>1. app' = app \/ (app = "reconciling" /\ EnqueueMissing) \/ (app = "recovering" /\ app' = "up")
    BY <1>11, AppMoves DEF EnqueueMissing, RecoverInterrupted, Starting
  <2>2. app # "down" => outbox'.after = outbox.after
    BY <1>11, BaselineMoves
  <2>3. faults > 0 => faults' > 0
    BY Grows
  <2>4. app' = "reconciling" => app = "reconciling"
    BY <2>1
  <2>5. app' # "down" => app # "down"
    BY <2>1
  <2> QED BY <1>1, <1>7, <1>8, <2>2, <2>3, <2>4, <2>5 DEF FileInv, Boxes
<1> QED BY <1>7, <1>8, <1>9, <1>10, <1>11 DEF FileInv, Boxes

LEMMA Between ==
  ASSUME NEW a \in Nat, NEW b \in Nat, a <= b, NEW n \in Nat, NEW u \in (b + 1)..n
  PROVE  u \in (a + 1)..n /\ u > b /\ u \in Nat
OBVIOUS

LEMMA QueueInvKept ==
  ASSUME TypeOK, WriterInv, FileInv, QueueInv, [Next]_vars
  PROVE  QueueInv'
<1> DEFINE C == Waiting("complete")
           Q == Waiting("queue")
<1>1. /\ \A i \in C : commands[i].turn > completed
      /\ \A i, j \in C : i < j => commands[i].turn < commands[j].turn
      /\ \A i \in C : \A u \in (completed + 1)..commands[i].turn : \E m \in C : commands[m].turn = u
      /\ \A i, j \in Q : i < j => commands[i].turn < commands[j].turn
      /\ \A j \in Q : /\ outbox.after # None => outbox.after < commands[j].turn
                      /\ \/ commands[j].turn <= completed
                         \/ \E i \in C : i < j /\ commands[i].turn = commands[j].turn
  BY DEF QueueInv, TurnsOf
<1>2. \A i \in C \cup Q : i \in Nat \ {0} /\ commands[i].turn \in Nat
  <2>1. DOMAIN commands = 1..Len(commands) /\ Len(commands) \in Nat /\ \A i \in DOMAIN commands : commands[i] \in Command
    BY TypeParts, LenProperties DEF ChannelOK
  <2>2. \A i \in C \cup Q : commands[i].turn \in Turn
    BY <2>1, CommandParts DEF Waiting
  <2> QED BY <2>1, <2>2, Values DEF Waiting
<1>3. completed \in Nat /\ completed' \in Nat /\ completed <= completed'
  BY CompletedMoves
<1>4. CASE Crash
  <2>1. Waiting("complete")' = {} /\ Waiting("queue")' = {}
    BY <1>4 DEF Crash, Waiting
  <2> QED BY <2>1 DEF QueueInv
<1>5. CASE CompleteTurn
  <2> DEFINE t == LastCompleted + 1
             c == [kind |-> "complete", turn |-> t]
             d == [kind |-> "queue", turn |-> t]
             L == Len(commands)
  <2>1. /\ t \in Turn /\ Shifted(0, 2) /\ commands'[L + 1] = c /\ commands'[L + 2] = d
    BY <1>5, CompletionPosted
  <2>2. /\ L \in Nat /\ DOMAIN commands = 1..L /\ DOMAIN commands' = 1..(L + 2)
        /\ \A i \in 1..L : commands'[i] = commands[i]
    BY <2>1 DEF Shifted
  <2>3. c.kind = "complete" /\ d.kind = "queue" /\ c.turn = t /\ d.turn = t
    OBVIOUS
  <2>4. LastCompleted \in Nat /\ completed <= LastCompleted
        /\ (LastCompleted = completed \/ \E m \in C : commands[m].turn = LastCompleted)
        /\ \A m \in C : commands[m].turn <= LastCompleted
    <3>1. commands \in Seq(Command) /\ completed \in 0..MaxTurn
      BY TypeParts DEF ChannelOK, CountsOK
    <3>2. /\ LastCompleted \in 0..MaxTurn /\ completed <= LastCompleted
          /\ LastCompleted = completed \/ LastCompleted \in TurnsOf("complete")
          /\ \A u \in TurnsOf("complete") : u <= LastCompleted
      BY <3>1, TurnsPosted
    <3> QED BY <3>2, Values DEF TurnsOf
  <2> DEFINE n == LastCompleted
  <2>5. t = n + 1 /\ n \in Nat
    BY <2>4
  <2> HIDE DEF c, d, t, L, n
  <2>6. \A i \in DOMAIN commands' : i \in Nat \ {0} /\ (i \in DOMAIN commands \/ i = L + 1 \/ i = L + 2)
    BY <2>2
  <2>7. \A i \in Waiting("complete")' : (i \in C /\ commands'[i] = commands[i]) \/ (i = L + 1 /\ commands'[i].turn = t)
    BY <2>1, <2>2, <2>3, <2>6 DEF Waiting
  <2>8. \A i \in Waiting("queue")' : (i \in Q /\ commands'[i] = commands[i]) \/ (i = L + 2 /\ commands'[i].turn = t)
    BY <2>1, <2>2, <2>3, <2>6 DEF Waiting
  <2>9. /\ \A i \in C : i \in Waiting("complete")' /\ commands'[i] = commands[i]
        /\ L + 1 \in Waiting("complete")' /\ commands'[L + 1].turn = t
    BY <2>1, <2>2, <2>3, <2>6 DEF Waiting
  <2>10. completed' = completed /\ outbox' = outbox
    BY <1>5 DEF CompleteTurn, files
  <2>11. \A i \in C \cup Q : i <= L
    BY <2>2 DEF Waiting
  <2>12. \A i \in Q : commands[i].turn <= n
    <3> TAKE i \in Q
    <3>1. CASE commands[i].turn <= completed
      BY <1>2, <1>3, <2>4, <3>1 DEF n
    <3>2. CASE \E m \in C : commands[m].turn = commands[i].turn
      BY <2>4, <3>2 DEF n
    <3> QED BY <1>1, <3>1, <3>2
  <2>13. \A i \in Waiting("complete")' : commands'[i].turn > completed'
    BY <1>1, <1>3, <2>4, <2>5, <2>7, <2>10 DEF n
  <2>14. \A i, j \in Waiting("complete")' : i < j => commands'[i].turn < commands'[j].turn
    <3>1. \A i \in C : commands[i].turn < t
      BY <1>2, <2>4, <2>5 DEF n
    <3>2. \A i \in C : i <= L /\ i \in Nat
      BY <1>2, <2>11
    <3> QED BY <1>1, <2>2, <2>7, <3>1, <3>2
  <2>15. \A i \in Waiting("complete")' : \A u \in (completed' + 1)..commands'[i].turn : u \in TurnsOf("complete")'
    <3>1. \A m \in C : commands[m].turn \in TurnsOf("complete")'
      BY <2>9 DEF TurnsOf
    <3>2. t \in TurnsOf("complete")'
      BY <2>9 DEF TurnsOf
    <3>3. \A u \in (completed + 1)..n : u \in TurnsOf("complete")'
      BY <1>1, <2>4, <3>1 DEF n
    <3>4. \A u \in (completed + 1)..t : u = t \/ u \in (completed + 1)..n
      BY <1>3, <2>5
    <3>5. \A i \in Waiting("complete")' : \A u \in (completed + 1)..commands'[i].turn : u \in (completed + 1)..t
      BY <1>2, <1>3, <2>4, <2>5, <2>7 DEF n
    <3> QED BY <2>10, <3>2, <3>3, <3>4, <3>5
  <2>16. \A i, j \in Waiting("queue")' : i < j => commands'[i].turn < commands'[j].turn
    <3>1. \A i \in Q : commands[i].turn < t
      BY <1>2, <2>5, <2>12
    <3>2. \A i \in Q : i <= L /\ i \in Nat
      BY <1>2, <2>11
    <3> QED BY <1>1, <2>2, <2>8, <3>1, <3>2
  <2>17. ASSUME NEW j \in Waiting("queue")'
         PROVE  /\ outbox'.after # None => outbox'.after < commands'[j].turn
                /\ \/ commands'[j].turn <= completed'
                   \/ \E i \in Waiting("complete")' : i < j /\ commands'[i].turn = commands'[j].turn
    <3>1. CASE j \in Q /\ commands'[j] = commands[j]
      BY <1>1, <2>9, <2>10, <3>1
    <3>2. CASE j = L + 2 /\ commands'[j].turn = t
      <4>1. outbox.after # None => outbox.after <= completed /\ outbox.after \in Nat
        BY BoxTyped, BoxParts DEF FileInv, Boxes
      <4>2. outbox.after # None => outbox.after < t
        BY <1>3, <2>4, <2>5, <4>1 DEF n
      <4>3. L + 1 < L + 2
        BY <2>2
      <4> QED BY <2>9, <2>10, <3>2, <4>2, <4>3
    <3> QED BY <2>8, <3>1, <3>2
  <2> HIDE DEF C, Q
  <2> QED BY <2>13, <2>14, <2>15, <2>16, <2>17 DEF QueueInv
<1>6. CASE ~Crash /\ ~CompleteTurn
  <2> DEFINE k == IF Drains THEN 1 ELSE 0
  <2>1. Kept("complete", k) /\ Kept("queue", k) /\ k \in {0, 1}
    BY <1>6, Carried
  <2>2. /\ \A m \in C : m > k => commands[m].turn > completed'
        /\ \A m \in C : ~(m > k) => commands[m].turn <= completed'
    <3>1. CASE AppendCompletion
      <4>1. k = 1 /\ 1 \in C /\ completed' = commands[1].turn
        BY <3>1, TakeFacts DEF Drains, AppendCompletion, Taking
      <4>2. \A m \in C : m > 1 => commands[1].turn < commands[m].turn
        BY <1>1, <4>1
      <4>3. \A m \in C : ~(m > 1) => m = 1
        BY <1>2
      <4> QED BY <1>2, <1>3, <4>1, <4>2, <4>3
    <3>2. CASE ~AppendCompletion
      <4>1. completed' = completed
        BY <3>2, CompletedMoves
      <4>2. \A m \in C : m > k
        <5> TAKE m \in C
        <5>1. CASE Drains /\ m = 1
          BY <3>2, <5>1, DrainedKinds DEF Waiting
        <5>2. CASE ~(Drains /\ m = 1)
          BY <1>2, <5>2
        <5> QED BY <5>1, <5>2
      <4> QED BY <1>1, <4>1, <4>2
    <3> QED BY <3>1, <3>2
  <2> HIDE DEF k
  <2>3. \A i \in Waiting("complete")' : i \in Nat \ {0} /\ i + k \in C /\ i + k > k /\ commands'[i] = commands[i + k]
    BY <2>1 DEF Kept
  <2>4. \A i \in Waiting("queue")' : i \in Nat \ {0} /\ i + k \in Q /\ i + k > k /\ commands'[i] = commands[i + k]
    BY <2>1 DEF Kept
  <2>5. \A m \in C : m > k => m - k \in Waiting("complete")' /\ commands'[m - k] = commands[m]
    BY <2>1 DEF Kept
  <2> HIDE DEF C, Q
  <2>6. \A i \in Waiting("complete")' : commands'[i].turn > completed'
    BY <2>2, <2>3
  <2>7. \A i, j \in Waiting("complete")' : i < j => commands'[i].turn < commands'[j].turn
    <3> TAKE i, j \in Waiting("complete")'
    <3>1. i < j => i + k < j + k
      BY <2>1, <2>3
    <3> QED BY <1>1, <2>3, <3>1
  <2>8. \A i \in Waiting("complete")' : \A u \in (completed' + 1)..commands'[i].turn : u \in TurnsOf("complete")'
    <3> TAKE i \in Waiting("complete")'
    <3> TAKE u \in (completed' + 1)..commands'[i].turn
    <3>1. commands'[i] = commands[i + k] /\ i + k \in C /\ commands[i + k].turn \in Nat
      BY <1>2, <2>3
    <3>2. u \in (completed + 1)..commands[i + k].turn /\ u > completed' /\ u \in Nat
      BY <1>3, <3>1, Between
    <3>3. PICK m \in C : commands[m].turn = u
      BY <1>1, <3>1, <3>2
    <3>4. m > k
      BY <1>3, <2>2, <3>2, <3>3
    <3>5. m - k \in Waiting("complete")' /\ commands'[m - k].turn = u
      BY <2>5, <3>3, <3>4
    <3> QED BY <3>5 DEF TurnsOf
  <2>9. \A i, j \in Waiting("queue")' : i < j => commands'[i].turn < commands'[j].turn
    <3> TAKE i, j \in Waiting("queue")'
    <3>1. i < j => i + k < j + k
      BY <2>1, <2>4
    <3> QED BY <1>1, <2>4, <3>1
  <2>10. ASSUME NEW j \in Waiting("queue")'
         PROVE  /\ outbox'.after # None => outbox'.after < commands'[j].turn
                /\ \/ commands'[j].turn <= completed'
                   \/ \E i \in Waiting("complete")' : i < j /\ commands'[i].turn = commands'[j].turn
    <3>1. j \in Nat /\ j + k \in Q /\ commands'[j] = commands[j + k] /\ commands[j + k].turn \in Nat
      BY <1>2, <2>4
    <3>2. outbox'.after = outbox.after
      <4>1. app # "down"
        <5>1. commands # <<>>
          BY <3>1 DEF Q, Waiting
        <5> QED BY <5>1 DEF WriterInv
      <4> QED BY <1>6, <4>1, BaselineMoves
    <3>3. CASE commands[j + k].turn <= completed
      BY <1>1, <1>3, <3>1, <3>2, <3>3
    <3>4. CASE \E i \in C : i < j + k /\ commands[i].turn = commands[j + k].turn
      <4>1. PICK i \in C : i < j + k /\ commands[i].turn = commands[j + k].turn
        BY <3>4
      <4>2. CASE i > k
        <5>1. i - k \in Waiting("complete")' /\ commands'[i - k] = commands[i] /\ i - k < j
          BY <1>2, <2>1, <2>5, <3>1, <4>1, <4>2
        <5> QED BY <1>1, <3>1, <3>2, <4>1, <5>1
      <4>3. CASE ~(i > k)
        BY <1>1, <2>2, <3>1, <3>2, <4>1, <4>3
      <4> QED BY <4>2, <4>3
    <3> QED BY <1>1, <3>1, <3>3, <3>4
  <2> QED BY <2>6, <2>7, <2>8, <2>9, <2>10 DEF QueueInv
<1> QED BY <1>4, <1>5, <1>6

(* The last completion moves by the one that is posted. *)
LEMMA LastMoves ==
  ASSUME TypeOK, WriterInv, FileInv, QueueInv, [Next]_vars, ~Crash
  PROVE  /\ LastCompleted \in Nat /\ LastCompleted' \in Nat
         /\ LastCompleted' <= LastCompleted \/ (CompleteTurn /\ LastCompleted' <= LastCompleted + 1)
<1>1. /\ LastCompleted \in 0..MaxTurn /\ completed <= LastCompleted
      /\ \A u \in TurnsOf("complete") : u <= LastCompleted
  BY TurnsPosted, TypeParts DEF ChannelOK, CountsOK
<1>2. MaxTurn \in Nat /\ completed \in 0..MaxTurn /\ completed' \in 0..MaxTurn
  BY Values, CountsKept, TypeParts DEF CountsOK
<1> DEFINE S == {completed'} \cup TurnsOf("complete")'
<1>3. S \in SUBSET (0..MaxTurn) /\ S # {}
  <2>1. commands' \in Seq(Command)
    BY ChannelKept DEF ChannelOK
  <2>2. \A i \in DOMAIN commands' : commands'[i] \in Command
    BY <2>1
  <2>3. \A i \in Waiting("complete")' : commands'[i].turn \in Turn
    BY <2>2, CommandParts DEF Waiting
  <2>4. TurnsOf("complete")' \subseteq Turn
    BY <2>3 DEF TurnsOf
  <2>5. Turn \subseteq 0..MaxTurn
    BY <1>2 DEF Turn
  <2> QED BY <1>2, <2>4, <2>5
<1>4. Max(S) \in S /\ LastCompleted' = Max(S)
  BY <1>2, <1>3, Greatest DEF LastCompleted
<1>5. CASE CompleteTurn
  <2>1. \A x \in S : x <= LastCompleted + 1
    <3> DEFINE t == LastCompleted + 1
               c == [kind |-> "complete", turn |-> t]
               d == [kind |-> "queue", turn |-> t]
    <3>1. Shifted(0, 2) /\ commands'[Len(commands) + 1] = c /\ commands'[Len(commands) + 2] = d
      BY <1>5, CompletionPosted
    <3>2. c.turn = t /\ d.kind # "complete"
      OBVIOUS
    <3> HIDE DEF c, d
    <3>3. \A i \in DOMAIN commands' : i = Len(commands) + 1 \/ i = Len(commands) + 2
                                      \/ (i \in DOMAIN commands /\ commands'[i] = commands[i])
      BY <3>1 DEF Shifted
    <3>4. \A i \in Waiting("complete")' : commands'[i].turn = t \/ \E m \in Waiting("complete") : commands'[i].turn = commands[m].turn
      BY <3>1, <3>2, <3>3 DEF Waiting
    <3>5. \A x \in TurnsOf("complete")' : x = t \/ x \in TurnsOf("complete")
      BY <3>4 DEF TurnsOf
    <3>6. completed' = completed
      BY <1>5 DEF CompleteTurn, files
    <3>7. \A x \in S : x = t \/ x \in TurnsOf("complete") \/ x = completed
      BY <3>5, <3>6
    <3>8. \A x \in S : x \in 0..MaxTurn
      BY <1>3
    <3> HIDE DEF S
    <3>9. \A x \in S : x <= LastCompleted \/ x = t
      BY <1>1, <3>7
    <3> QED BY <1>1, <3>8, <3>9
  <2> QED BY <1>1, <1>2, <1>3, <1>4, <1>5, <2>1
<1>6. CASE ~CompleteTurn
  <2>1. Kept("complete", IF Drains THEN 1 ELSE 0)
    BY <1>6, Carried
  <2>2. \A i \in Waiting("complete")' : \E m \in Waiting("complete") : commands'[i] = commands[m]
    BY <2>1 DEF Kept
  <2>3. TurnsOf("complete")' \subseteq TurnsOf("complete")
    BY <2>2 DEF TurnsOf
  <2>4. completed' = completed \/ completed' \in TurnsOf("complete")
    BY CompletedMoves DEF TurnsOf
  <2>5. \A x \in S : x = completed \/ x \in TurnsOf("complete")
    BY <2>3, <2>4
  <2> HIDE DEF S
  <2>6. Max(S) <= LastCompleted
    BY <1>1, <1>4, <2>5
  <2>7. Max(S) \in Nat
    <3>1. Max(S) \in 0..MaxTurn
      BY <1>3, <1>4
    <3> QED BY <1>2, <3>1
  <2>8. LastCompleted' \in Nat /\ LastCompleted' <= LastCompleted
    BY <1>4, <2>6, <2>7
  <2> QED BY <1>1, <1>2, <2>8
<1> QED BY <1>5, <1>6

LEMMA KnownInvKept ==
  ASSUME TypeOK, WriterInv, FileInv, QueueInv, KnownInv, [Next]_vars
  PROVE  KnownInv'
<1> SUFFICES ASSUME app' \in {"recovering", "up"}, outbox'.after # None,
                    NEW u \in (outbox'.after + 1)..LastCompleted'
             PROVE  \/ outbox'.state[u] # "absent" \/ u \in TurnsOf("queue")'
                    \/ u \in history'.doubted /\ faults' > 0
  BY DEF KnownInv
<1> DEFINE Known == \/ outbox'.state[u] # "absent" \/ u \in TurnsOf("queue")'
                    \/ u \in history'.doubted /\ faults' > 0
<1>0. ~Crash
  BY DEF Crash
<1>1. LastCompleted \in Nat /\ LastCompleted' \in Nat /\ completed \in 0..MaxTurn /\ MaxTurn \in Nat
  BY <1>0, LastMoves, TypeParts, Values DEF CountsOK
<1>2. LastCompleted' <= MaxTurn
  <2> DEFINE S == {completed'} \cup TurnsOf("complete")'
  <2>1. commands' \in Seq(Command) /\ completed' \in 0..MaxTurn
    BY ChannelKept, CountsKept DEF ChannelOK, CountsOK
  <2>2. \A i \in Waiting("complete")' : commands'[i].turn \in Turn
    BY <2>1, CommandParts DEF Waiting
  <2>3. S \in SUBSET (0..MaxTurn) /\ S # {}
    BY <1>1, <2>1, <2>2 DEF TurnsOf, Turn
  <2>4. Max(S) \in S /\ LastCompleted' = Max(S)
    BY <1>1, <2>3, Greatest DEF LastCompleted
  <2> QED BY <1>1, <2>3, <2>4
<1>3. outbox'.after \in Nat /\ (outbox.after # None => outbox.after \in Nat)
  <2>1. outbox'.after \in Nat \cup {None}
    BY FileKept DEF FileOK, WellFormed, Outbox
  <2> QED BY <2>1, BoxTyped, BoxParts
<1>4. u \in Turn /\ u > outbox'.after /\ u <= LastCompleted' /\ u \in Nat
  <2> DEFINE a == outbox'.after
             n == LastCompleted'
  <2>1. u \in (a + 1)..n /\ a \in Nat /\ n \in Nat /\ n <= MaxTurn
    BY <1>1, <1>2, <1>3
  <2> HIDE DEF a, n
  <2>2. u \in 1..MaxTurn /\ u > a /\ u <= n /\ u \in Nat
    BY <1>1, <2>1
  <2> QED BY <2>2 DEF a, n, Turn
<1>5. app # "up" => commands = <<>>
  BY DEF WriterInv
<1>6. commands = <<>> => LastCompleted = completed
  <2>1. commands = <<>> => TurnsOf("complete") = {}
    BY DEF TurnsOf, Waiting
  <2> QED BY <2>1, TurnsPosted, TypeParts DEF ChannelOK, CountsOK
<1>7. CASE app \in {"down", "reconciling"}
  <2>1. ~CompleteTurn
    BY <1>7 DEF CompleteTurn
  <2>2. u <= completed
    BY <1>0, <1>1, <1>4, <1>5, <1>6, <1>7, <2>1, LastMoves
  <2>3. Activate \/ EnqueueMissing
    <3>1. ~RecoverInterrupted /\ app' # app
      BY <1>7 DEF RecoverInterrupted, Starting
    <3> QED BY <1>0, <3>1, AppMoves
  <2>4. CASE Activate
    <3>1. Baselined
      BY <2>4, ActivateMoves
    <3>2. outbox'.after = completed
      BY <1>0, <3>1, BaselineMoves DEF Baselined
    <3> QED BY <1>1, <1>4, <2>2, <3>2
  <2>5. CASE EnqueueMissing
    <3>1. app = "reconciling"
      BY <2>5 DEF EnqueueMissing
    <3>2. outbox'.after = outbox.after
      BY <1>0, <3>1, BaselineMoves
    <3>3. u \in 1..completed /\ u > outbox.after
      BY <1>1, <1>4, <2>2, <3>2 DEF Turn
    <3>4. outbox.state[u] = "absent" => u \in Missing
      BY <3>3 DEF Missing
    <3>5. CASE outbox.state[u] # "absent"
      BY <1>0, <1>4, <3>5, BaselineMoves
    <3>6. CASE u \in Missing
      <4>1. Reconciled
        BY <2>5, <3>6, EnqueueMissingMoves
      <4>2. faults' # faults
        BY <4>1 DEF Reconciled
      <4>3. Doubt(Missing)
        BY <4>1, <4>2 DEF Reconciled
      <4>4. u \in history'.doubted
        <5>1. history \in [base : [Turn -> SUBSET Turn], since : Nat, doubted : SUBSET Turn]
          BY TypeParts DEF HistoryOK
        <5> QED BY <3>6, <4>3, <5>1 DEF Doubt
      <4>5. faults' > 0
        BY <4>2, Grows
      <4> QED BY <4>4, <4>5
    <3> QED BY <3>4, <3>5, <3>6
  <2> QED BY <2>3, <2>4, <2>5
<1>8. CASE app \notin {"down", "reconciling"}
  <2>1. app \in {"recovering", "up"}
    BY <1>8, TypeParts DEF WindowOK
  <2>2. outbox'.after = outbox.after
    BY <1>0, <1>8, BaselineMoves
  <2> DEFINE Q == Waiting("queue")
  <2>3. CASE u <= LastCompleted
    <3>1. u \in (outbox.after + 1)..LastCompleted
      BY <1>1, <1>3, <1>4, <2>2, <2>3
    <3>2. outbox.state[u] # "absent" \/ u \in TurnsOf("queue") \/ (u \in history.doubted /\ faults > 0)
      BY <2>1, <2>2, <3>1 DEF KnownInv
    <3>3. CASE outbox.state[u] # "absent"
      BY <1>0, <1>4, <3>3, BaselineMoves
    <3>4. CASE u \in history.doubted /\ faults > 0
      BY <3>4, Grows
    <3>5. CASE u \in TurnsOf("queue")
      <4>1. PICK m \in Q : commands[m].turn = u
        BY <3>5 DEF TurnsOf
      <4>2. CASE CompleteTurn
        <5>1. Shifted(0, 2)
          BY <4>2, CompletionPosted
        <5>2. m \in Waiting("queue")' /\ commands'[m] = commands[m]
          <6>1. m \in 1..Len(commands) /\ Len(commands) \in Nat
            BY <5>1 DEF Shifted, Waiting
          <6>2. m \in DOMAIN commands' /\ commands'[m] = commands[m]
            BY <5>1, <6>1 DEF Shifted
          <6> QED BY <6>2 DEF Waiting
        <5> QED BY <4>1, <5>2 DEF TurnsOf
      <4>3. CASE ~CompleteTurn
        <5> DEFINE k == IF Drains THEN 1 ELSE 0
        <5>1. Kept("queue", k)
          BY <1>0, <4>3, Carried
        <5>2. CASE m > k
          <6>1. m - k \in Waiting("queue")' /\ commands'[m - k] = commands[m]
            BY <5>1, <5>2 DEF Kept
          <6> QED BY <4>1, <6>1 DEF TurnsOf
        <5>3. CASE ~(m > k)
          <6>1. Drains /\ m = 1
            BY <5>1, <5>3 DEF Kept
          <6>2. QueueCheckpoint /\ commands[1].turn = u
            BY <4>1, <6>1, DrainedKinds DEF Waiting
          <6>3. CASE \E t \in Turn : Queued(t)
            <7>1. Queued(u)
              BY <6>2, <6>3 DEF Queued
            <7>2. CASE faults' = faults
              <8>1. outbox' = Enqueued(outbox, u) /\ outbox.state[u] = "absent"
                BY <7>1, <7>2 DEF Queued, Entered, Saved
              <8>2. Enqueued(outbox, u).state[u] = "pending"
                BY <1>4, <8>1, BoxTyped, EnqueuedBox DEF Edited
              <8> QED BY <8>1, <8>2
            <7>3. CASE faults' # faults
              <8>1. Doubt({u})
                BY <7>1, <7>3 DEF Queued
              <8>2. history \in [base : [Turn -> SUBSET Turn], since : Nat, doubted : SUBSET Turn]
                BY TypeParts DEF HistoryOK
              <8>3. u \in history'.doubted
                BY <8>1, <8>2 DEF Doubt
              <8> QED BY <7>3, <8>3, Grows
            <7> QED BY <7>2, <7>3
          <6>4. CASE ~\E t \in Turn : Queued(t)
            <7>1. outbox.state[u] # "absent"
              BY <2>2, <6>2, <6>4, QueueMoves
            <7> QED BY <3>3, <7>1
          <6> QED BY <6>3, <6>4
        <5> QED BY <5>2, <5>3
      <4> QED BY <4>2, <4>3
    <3> QED BY <3>2, <3>3, <3>4, <3>5
  <2>4. CASE ~(u <= LastCompleted)
    <3>1. CompleteTurn /\ u = LastCompleted + 1
      BY <1>0, <1>1, <1>4, <2>4, LastMoves
    <3> DEFINE d == [kind |-> "queue", turn |-> u]
    <3>2. Shifted(0, 2) /\ commands'[Len(commands) + 2] = d
      BY <3>1, CompletionPosted
    <3>3. d.kind = "queue" /\ d.turn = u
      OBVIOUS
    <3> HIDE DEF d
    <3>4. Len(commands) + 2 \in Waiting("queue")' /\ commands'[Len(commands) + 2].turn = u
      BY <3>2, <3>3 DEF Shifted, Waiting
    <3> QED BY <3>4 DEF TurnsOf
  <2> QED BY <2>3, <2>4
<1> QED BY <1>7, <1>8

LEMMA FaultInvKept ==
  ASSUME TypeOK, WriterInv, FileInv, QueueInv, FaultInv, [Next]_vars
  PROVE  FaultInv'
<1> SUFFICES ASSUME faults' = 0
             PROVE  /\ stable' = outbox'
                    /\ outbox'.after = None => app' = "down" /\ completed' = history'.since
                    /\ outbox'.after # None => outbox'.after = history'.since
  BY DEF FaultInv
<1>1. faults = 0 /\ faults' = faults
  BY Grows
<1>2. /\ stable = outbox
      /\ outbox.after = None => app = "down" /\ completed = history.since
      /\ outbox.after # None => outbox.after = history.since
  BY <1>1 DEF FaultInv
<1>3. history'.since = history.since
  BY Grows
<1>4. stable' = outbox'
  BY <1>1, <1>2, BoxMoves DEF Saved
<1>5. outbox'.after = None => app' = "down"
  <2>1. FileInv'
    BY FileInvKept
  <2>2. app' # "down" /\ outbox'.after = None => faults' > 0
    BY <2>1 DEF FileInv
  <2> QED BY <2>2
<1>6. CASE Crash
  <2>1. outbox' = outbox /\ app # "down"
    BY <1>2, <1>6 DEF Crash
  <2> QED BY <1>2, <1>3, <1>4, <2>1
<1>7. CASE ~Crash
  <2>1. app = "down" => completed' = completed
    BY CompletedMoves
  <2>2. completed \in Nat /\ None \notin Nat
    BY CompletedMoves, Values
  <2>3. \/ outbox'.after = outbox.after
        \/ app = "down" /\ outbox.after = None /\ outbox'.after = completed
    BY <1>7, BaselineMoves
  <2> QED BY <1>2, <1>3, <1>4, <1>5, <2>1, <2>2, <2>3
<1> QED BY <1>6, <1>7

LEMMA WindowMoves ==
  ASSUME TypeOK, [Next]_vars
  PROVE  /\ window'.blocked \subseteq window.blocked \cup history'.doubted
         /\ window'.asked = window.asked \/ window'.asked = None \/ \E t \in Turn : AskSummary(t) /\ window'.asked = t
<1>1. /\ window \in [asked : Turn \cup {None}, blocked : SUBSET Turn]
      /\ history \in [base : [Turn -> SUBSET Turn], since : Nat, doubted : SUBSET Turn]
  BY TypeParts DEF WindowOK, HistoryOK
<1>2. UNCHANGED vars \/ Threads => window' = window
  BY DEF vars, memory, Threads, SendCreate, ReadBack, VerifyUncertain, PreflightEnds, ApplyLate
<1>3. Worker => window' = window \/ SaveSummary
  BY DEF Worker, Activate, EnqueueMissing, RecoverInterrupted, AppendCompletion, QueueCheckpoint, StartPreflight,
         IgnoreDispatch, ClaimWrite, SpawnFails, RecordPreflight, RecordOutcome, RecordReadback, Elapse
<1>4. Crash => window'.blocked = {} /\ window'.asked = None
  BY DEF Crash, Idle
<1>5. Window => \/ window' = window
                \/ \E t \in Turn : AskSummary(t)
                \/ GiveUp(window.asked)
  BY DEF Window, CompleteTurn, SummaryFails, Nudge, AnswerSummary
<1>6. ASSUME NEW t \in Turn, AskSummary(t) PROVE window'.blocked = window.blocked /\ window'.asked = t
  BY <1>1, <1>6 DEF AskSummary
<1>7. GiveUp(window.asked) => window'.blocked \subseteq window.blocked \cup history'.doubted /\ window'.asked = None
  BY <1>1 DEF GiveUp, Doubt
<1>8. SaveSummary => window' = window
                     \/ (window'.blocked \subseteq window.blocked \cup history'.doubted /\ window'.asked = None)
  <2> HAVE SaveSummary
  <2>1. \E t, ok : Settled(t, ok)
    BY DEF SaveSummary
  <2>2. PICK t, ok : Settled(t, ok)
    BY <2>1
  <2> DEFINE ts == IF ok THEN {} ELSE {t}
  <2>3. /\ window' = IF window.asked # t THEN window ELSE [asked |-> None, blocked |-> window.blocked \cup ts]
        /\ history' = [history EXCEPT !.doubted = history.doubted \cup ts]
    BY <2>2 DEF Settled, Doubt
  <2>4. history'.doubted = history.doubted \cup ts
    BY <1>1, <2>3
  <2> HIDE DEF ts
  <2> QED BY <2>3, <2>4
<1> QED BY <1>2, <1>3, <1>4, <1>5, <1>6, <1>7, <1>8 DEF Next

LEMMA DoubtInvKept ==
  ASSUME TypeOK, WriterInv, FileInv, QueueInv, KnownInv, DoubtInv, [Next]_vars
  PROVE  DoubtInv'
<1>1. window'.blocked \subseteq history'.doubted
  BY WindowMoves, Grows DEF DoubtInv
<1> DEFINE Doubted(b, d) ==
             /\ \A t \in Turn : b.state[t] = "uncertain" => t \in d
             /\ \A t \in Turn : \A u \in 1..(t - 1) :
                  b.state[t] # "absent" /\ b.state[u] = "absent" /\ u > b.after => u \in d
<1>2. \A b \in Boxes : Doubted(b, history.doubted)
  BY DEF DoubtInv
<1>3. \A b \in Boxes : Doubted(b, history'.doubted)
  BY <1>2, Grows
<1>4. ASSUME NEW b, Edits(b), Grounds(b) PROVE Doubted(b, history'.doubted)
  <2>1. ASSUME NEW t \in Turn, b.state[t] = "uncertain" PROVE t \in history'.doubted
    <3>1. CASE outbox.state[t] = "uncertain"
      BY <1>3, <3>1 DEF Boxes
    <3>2. CASE outbox.state[t] # "uncertain"
      BY <1>4, <2>1, <3>2 DEF Grounds
    <3> QED BY <3>1, <3>2
  <2>2. ASSUME NEW t \in Turn, NEW u \in 1..(t - 1), b.state[t] # "absent", b.state[u] = "absent", u > b.after
        PROVE  u \in history'.doubted
    <3>1. t \in Nat /\ u \in Nat /\ u < t /\ u \in Turn /\ 1 <= u
      BY Values DEF Turn
    <3>2. outbox.state[u] = "absent"
      BY <1>4, <2>2, <3>1 DEF Edits, Transition
    <3>3. CASE Rebased(b)
      <4>1. outbox.after = None /\ outbox.state[t] # "absent"
        BY <2>2, <3>3 DEF Rebased
      <4> QED BY <4>1 DEF FileInv, Boxes
    <3>4. CASE b.after = outbox.after /\ outbox.state[t] # "absent"
      BY <1>3, <2>2, <3>2, <3>4 DEF Boxes
    <3>5. CASE b.after = outbox.after /\ outbox.state[t] = "absent"
      <4>1. b.state[t] = "pending" /\ b.state[t] # outbox.state[t]
        BY <1>4, <2>2, <3>5 DEF Edits, Transition
      <4>2. completed \in 0..MaxTurn /\ MaxTurn \in Nat
        BY TypeParts, Values DEF CountsOK
      <4>3. CASE app = "reconciling" /\ Missing # {} /\ t = Min(Missing)
        <5>1. t \in 1..completed /\ \A v \in Missing : t <= v
          BY <4>2, <4>3, OldestMissing
        <5>2. u \in 1..completed
          BY <3>1, <4>2, <5>1
        <5>3. u \in Missing
          BY <2>2, <3>2, <3>5, <5>2 DEF Missing
        <5> QED BY <3>1, <5>1, <5>3
      <4>4. CASE 1 \in Waiting("queue") /\ commands[1].turn = t /\ outbox.after # None
        <5>1. commands \in Seq(Command) /\ DOMAIN commands = 1..Len(commands) /\ Len(commands) \in Nat
          BY TypeParts, LenProperties DEF ChannelOK
        <5>2. app = "up"
          <6>1. commands # <<>>
            BY <4>4 DEF Waiting
          <6> QED BY <6>1 DEF WriterInv
        <5>3. t <= completed
          <6>1. \A i \in Waiting("complete") : ~(i < 1)
            BY <5>1 DEF Waiting
          <6> QED BY <4>4, <6>1 DEF QueueInv
        <5>4. LastCompleted \in 0..MaxTurn /\ completed <= LastCompleted
          BY <4>2, <5>1, TurnsPosted
        <5>5. outbox.after \in Nat
          BY <4>4, BoxTyped, BoxParts
        <5>6. u \in (outbox.after + 1)..LastCompleted
          BY <2>2, <3>1, <3>5, <4>2, <5>3, <5>4, <5>5
        <5>7. u \in TurnsOf("queue") \/ u \in history.doubted
          BY <3>2, <4>4, <5>2, <5>6 DEF KnownInv
        <5>8. u \notin TurnsOf("queue")
          <6>1. ASSUME NEW m \in Waiting("queue"), commands[m].turn = u PROVE FALSE
            <7>1. m \in Nat \ {0} /\ m # 1
              BY <3>1, <4>4, <5>1, <6>1 DEF Waiting
            <7>2. commands[1].turn < commands[m].turn
              BY <4>4, <7>1 DEF QueueInv
            <7> QED BY <3>1, <4>4, <6>1, <7>2
          <6> QED BY <6>1 DEF TurnsOf
        <5> QED BY <5>7, <5>8, Grows
      <4> QED BY <1>4, <4>1, <4>3, <4>4 DEF Grounds
    <3> QED BY <1>4, <3>3, <3>4, <3>5 DEF Edits
  <2> QED BY <2>1, <2>2
<1>5. Doubted(outbox', history'.doubted) /\ Doubted(stable', history'.doubted)
  <2> HIDE DEF Doubted
  <2>1. \A b : BoxMove(b) => Doubted(b, history'.doubted)
    BY <1>3, <1>4 DEF BoxMove
  <2> QED BY <2>1, BoxMoves
<1> QED BY <1>1, <1>5 DEF DoubtInv, Boxes

(* The turns whose summaries wait to be saved were asked for. *)
LEMMA SavesMoves ==
  ASSUME TypeOK, WriterInv, [Next]_vars
  PROVE  \A t \in TurnsOf("save")' : ~Crash /\ (t \in TurnsOf("save") \/ (t = window.asked /\ app = "up"))
<1>1. CASE Crash
  BY <1>1 DEF Crash, TurnsOf, Waiting
<1>2. CASE ~Crash /\ ~\E text \in Text \cup {NoMemory} : AnswerSummary(text)
  <2>1. Kept("save", IF Drains THEN 1 ELSE 0)
    BY <1>2, Carried
  <2>2. \A i \in Waiting("save")' : \E m \in Waiting("save") : commands'[i] = commands[m]
    BY <2>1 DEF Kept
  <2> QED BY <1>2, <2>2 DEF TurnsOf
<1>3. CASE ~Crash /\ \E text \in Text \cup {NoMemory} : AnswerSummary(text)
  <2>1. PICK text \in Text \cup {NoMemory} : AnswerSummary(text)
    BY <1>3
  <2>2. app = "up"
    BY <2>1 DEF AnswerSummary
  <2>3. CASE commands' = commands
    BY <1>3, <2>3 DEF TurnsOf, Waiting
  <2>4. CASE commands' # commands
    <3> DEFINE c == [kind |-> "save", turn |-> window.asked, text |-> text]
    <3>1. c \in Command /\ commands' = Append(commands, c) /\ c.turn = window.asked
      BY <2>1, <2>4, SummaryPosted
    <3> HIDE DEF c
    <3>2. Shifted(0, 1) /\ commands'[Len(commands) + 1] = c
      BY <3>1, PostKeeps
    <3>3. \A i \in DOMAIN commands' : i = Len(commands) + 1 \/ (i \in DOMAIN commands /\ commands'[i] = commands[i])
      BY <3>2 DEF Shifted
    <3>4. \A i \in Waiting("save")' : commands'[i].turn = window.asked
                                      \/ \E m \in Waiting("save") : commands'[i].turn = commands[m].turn
      BY <3>1, <3>2, <3>3 DEF Waiting
    <3> QED BY <1>3, <2>2, <3>4 DEF TurnsOf
  <2> QED BY <2>3, <2>4
<1> QED BY <1>1, <1>2, <1>3

BuiltNext(b, t) ==
  \A u \in Older(t) :
    \/ u \in history'.base[t] \cup history'.doubted
    \/ b.state[u] = "skipped"
    \/ b.state[u] = "absent" /\ b.after # None /\ u <= b.after

LEMMA ChainInvKept ==
  ASSUME TypeOK, WriterInv, FileInv, QueueInv, KnownInv, DoubtInv, ChainInv, [Next]_vars
  PROVE  ChainInv'
<1>1. /\ \A b \in Boxes : \A t \in Turn : b.state[t] \in Written => Built(b, t)
      /\ \A t \in Turn : t = window.asked \/ t \in TurnsOf("save") => outbox.state[t] # "absent" /\ Built(outbox, t)
  BY DEF ChainInv
<1>2. \A t \in Turn : Older(t) \subseteq Turn /\ \A u \in Older(t) : u \in 1..(t - 1)
  BY Values DEF Older, Turn
<1>3. ASSUME NEW b, NEW t \in Turn, Built(b, t), ~AskSummary(t) PROVE BuiltNext(b, t)
  <2>1. history'.base[t] = history.base[t] /\ history.doubted \subseteq history'.doubted
    BY <1>3, Grows
  <2> QED BY <1>3, <2>1 DEF Built, BuiltNext
(* A summary that is asked for is built on all that is settled. *)
<1>4. ASSUME NEW t \in Turn, AskSummary(t)
      PROVE  BuiltNext(outbox, t) /\ outbox.state[t] = "pending" /\ outbox' = outbox /\ stable' = stable
  <2>1. /\ outbox.state[t] = "pending" /\ Unsettled(t) \subseteq window.blocked
        /\ history' = [history EXCEPT !.base[t] = Confirmed(outbox, t)] /\ UNCHANGED files
    BY <1>4 DEF AskSummary
  <2>2. history'.base[t] = Confirmed(outbox, t)
    <3>1. history \in [base : [Turn -> SUBSET Turn], since : Nat, doubted : SUBSET Turn]
      BY TypeParts DEF HistoryOK
    <3> DEFINE c == Confirmed(outbox, t)
               f == [history.base EXCEPT ![t] = c]
    <3>2. history' = [history EXCEPT !.base = f]
      BY <2>1
    <3>3. f[t] = c
      BY <3>1
    <3> HIDE DEF f, c
    <3>4. history'.base[t] = c
      BY <3>1, <3>2, <3>3
    <3> QED BY <3>4 DEF c
  <2>3. ASSUME NEW u \in Older(t)
        PROVE  \/ u \in history'.base[t] \cup history'.doubted
               \/ outbox.state[u] = "skipped"
               \/ outbox.state[u] = "absent" /\ outbox.after # None /\ u <= outbox.after
    <3>1. u \in Turn /\ u \in 1..(t - 1) /\ outbox.state[u] \in State /\ u \in Nat
      BY <1>2, BoxTyped, BoxParts, Values
    <3>2. CASE outbox.state[u] = "confirmed"
      BY <2>2, <3>2 DEF Confirmed
    <3>3. CASE outbox.state[u] \in {"pending", "ready", "dispatched"}
      BY <2>1, <3>3, Grows DEF Unsettled, DoubtInv
    <3>4. CASE outbox.state[u] = "uncertain"
      BY <3>1, <3>4, Grows DEF DoubtInv, Boxes
    <3>5. CASE outbox.state[u] = "absent"
      <4>1. outbox.after # None /\ outbox.after \in Nat
        BY <2>1, BoxTyped, BoxParts DEF FileInv, Boxes
      <4>2. CASE u > outbox.after
        BY <2>1, <3>1, <3>5, <4>2, Grows DEF DoubtInv, Boxes
      <4>3. CASE ~(u > outbox.after)
        BY <3>1, <3>5, <4>1, <4>3
      <4> QED BY <4>2, <4>3
    <3> QED BY <3>1, <3>2, <3>3, <3>4, <3>5 DEF State
  <2> QED BY <2>1, <2>3 DEF BuiltNext, files
(* An edit leaves what is built as it is. *)
<1>5. ASSUME NEW b, Edits(b), Grounds(b), ~Rebased(b), NEW t \in Turn, BuiltNext(outbox, t)
      PROVE  BuiltNext(b, t)
  <2> SUFFICES ASSUME NEW u \in Older(t)
               PROVE  \/ u \in history'.base[t] \cup history'.doubted
                      \/ b.state[u] = "skipped"
                      \/ b.state[u] = "absent" /\ b.after # None /\ u <= b.after
    BY DEF BuiltNext
  <2>1. u \in Turn /\ b.after = outbox.after /\ u \in Nat
    BY <1>2, <1>5, Values DEF Edits
  <2>2. CASE outbox.state[u] = "skipped"
    BY <1>5, <2>1, <2>2 DEF Edits, Transition
  <2>3. CASE outbox.state[u] = "absent" /\ outbox.after # None /\ u <= outbox.after
    <3>1. CASE b.state[u] = "absent"
      BY <2>1, <2>3, <3>1
    <3>2. CASE b.state[u] # "absent"
      <4>1. b.state[u] = "pending" /\ b.state[u] # outbox.state[u]
        BY <1>5, <2>1, <2>3, <3>2 DEF Edits, Transition
      <4>2. outbox.after \in Nat
        BY <2>3, BoxTyped, BoxParts
      <4>3. u > outbox.after
        <5>1. CASE app = "reconciling" /\ Missing # {} /\ u = Min(Missing)
          <6>1. completed \in 0..MaxTurn
            BY TypeParts DEF CountsOK
          <6> QED BY <5>1, <6>1, OldestMissing
        <5>2. CASE 1 \in Waiting("queue") /\ commands[1].turn = u /\ outbox.after # None
          <6>1. outbox.after < u
            BY <5>2 DEF QueueInv
          <6> QED BY <2>1, <4>2, <6>1
        <5> QED BY <1>5, <2>1, <4>1, <5>1, <5>2 DEF Grounds
      <4> QED BY <2>1, <2>3, <4>2, <4>3
    <3> QED BY <3>1, <3>2
  <2> QED BY <1>5, <2>2, <2>3 DEF BuiltNext
<1>6. ASSUME NEW b \in Boxes, NEW t \in Turn, b.state[t] \in Written PROVE BuiltNext(b, t)
  <2>1. ~AskSummary(t)
    <3>1. outbox.state[t] # "pending" \/ stable.state[t] \in {"absent", "pending"}
      BY DEF FileInv
    <3>2. AskSummary(t) => outbox.state[t] = "pending" /\ b = stable
      BY <1>6 DEF AskSummary, Boxes, Written
    <3> QED BY <1>6, <3>1, <3>2 DEF Written
  <2> QED BY <1>1, <1>3, <1>6, <2>1
<1>7. ASSUME NEW b, Edits(b), Grounds(b), NEW t \in Turn, b.state[t] \in Written PROVE BuiltNext(b, t)
  <2>1. ~Rebased(b)
    <3>1. ASSUME Rebased(b) PROVE outbox.after = None /\ outbox.state[t] # "absent"
      BY <1>7, <3>1 DEF Rebased, Written
    <3> QED BY <3>1 DEF FileInv, Boxes
  <2>2. CASE outbox.state[t] \in Written
    BY <1>5, <1>6, <1>7, <2>1, <2>2 DEF Boxes
  <2>3. CASE outbox.state[t] \notin Written
    <3>1. b.state[t] = "ready" /\ b.state[t] # outbox.state[t]
      BY <1>7, <2>3 DEF Edits, Transition, Written
    <3>2. 1 \in Waiting("save") /\ commands[1].turn = t
      BY <1>7, <3>1 DEF Grounds
    <3>3. Built(outbox, t)
      BY <1>1, <3>2 DEF TurnsOf
    <3>4. ~AskSummary(t) \/ BuiltNext(outbox, t)
      BY <1>4
    <3>5. BuiltNext(outbox, t)
      BY <1>3, <3>3, <3>4
    <3> QED BY <1>5, <1>7, <2>1, <3>5
  <2> QED BY <2>2, <2>3
<1>8. \A b : BoxMove(b) => \A t \in Turn : b.state[t] \in Written => BuiltNext(b, t)
  BY <1>6, <1>7 DEF BoxMove
<1>9. /\ \A t \in Turn : outbox'.state[t] \in Written => BuiltNext(outbox', t)
      /\ \A t \in Turn : stable'.state[t] \in Written => BuiltNext(stable', t)
  BY <1>8, BoxMoves
<1>10. ASSUME NEW t \in Turn, t = window'.asked \/ t \in TurnsOf("save")'
       PROVE  outbox'.state[t] # "absent" /\ BuiltNext(outbox', t)
  <2>1. CASE AskSummary(t)
    BY <1>4, <2>1
  <2>2. CASE ~AskSummary(t)
    <3>1. t = window.asked \/ t \in TurnsOf("save")
      BY <1>10, <2>2, WindowMoves, SavesMoves, Values
    <3>2. ~Crash
      <4>1. Crash => window'.asked = None /\ TurnsOf("save")' = {}
        BY DEF Crash, Idle, TurnsOf, Waiting
      <4> QED BY <1>10, <4>1, Values
    <3>3. app = "up"
      <4>1. app # "up" => window.asked = None /\ TurnsOf("save") = {}
        BY DEF WriterInv, Idle, TurnsOf, Waiting
      <4> QED BY <3>1, <4>1, Values
    <3>4. outbox.state[t] # "absent" /\ BuiltNext(outbox, t)
      BY <1>1, <1>3, <2>2, <3>1
    <3>5. outbox'.state[t] # "absent"
      BY <3>2, <3>4, BaselineMoves
    <3>6. outbox' = outbox \/ (Edits(outbox') /\ Grounds(outbox') /\ ~Rebased(outbox'))
      BY <3>2, <3>3, BoxMoves DEF Rebased
    <3>7. BuiltNext(outbox', t)
      <4> DEFINE b == outbox'
      <4>1. Edits(b) /\ Grounds(b) /\ ~Rebased(b) => BuiltNext(b, t)
        BY <1>5, <3>4
      <4> QED BY <3>4, <3>6, <4>1
    <3> QED BY <3>5, <3>7
  <2> QED BY <2>1, <2>2
<1> QED BY <1>9, <1>10 DEF ChainInv, Built, BuiltNext, Boxes, Older

-----------------------------------------------------------------------------
LEMMA Initially ==
  ASSUME Init
  PROVE  IInv
<1>1. /\ completed \in 0..(MaxTurn - 1) /\ outbox = EmptyOutbox /\ stable = EmptyOutbox
      /\ summary = [t \in Turn |-> None]
      /\ app = "down" /\ commands = <<>> /\ window = Idle /\ worker = Forgetful
      /\ writer = Quiet /\ reader = {}
      /\ remote = [t \in Turn |-> None] /\ late = {} /\ creates = [t \in Turn |-> 0]
      /\ history = [base |-> [t \in Turn |-> {}], since |-> completed, doubted |-> {}]
      /\ kills = 0 /\ faults = 0
  BY DEF Init
<1>2. /\ completed \in Nat /\ completed \in 0..MaxTurn
      /\ 0 \in 0..MaxKills /\ 0 \in 0..MaxFaults
  BY <1>1, Values
<1>3. EmptyOutbox \in Outbox /\ EmptyOutbox.after = None /\ EmptyOutbox.queue = <<>>
      /\ \A t \in Turn : EmptyOutbox.state[t] = "absent"
  <2>1. <<>> \in Seq(Turn)
    OBVIOUS
  <2>2. [t \in Turn |-> "absent"] \in [Turn -> State]
    BY DEF State
  <2> QED BY <2>1, <2>2 DEF EmptyOutbox, Outbox
<1>4. WellFormed(EmptyOutbox)
  BY <1>3 DEF WellFormed, IsInjective, ToSet
<1>5. TypeOK
  <2>1. CountsOK
    BY <1>1, <1>2 DEF CountsOK
  <2>2. WindowOK
    BY <1>1 DEF WindowOK, Idle
  <2>3. WorkerOK
    BY <1>1 DEF WorkerOK, Forgetful, Quiet
  <2>4. ServiceOK
    BY <1>1 DEF ServiceOK
  <2>5. HistoryOK
    BY <1>1, <1>2 DEF HistoryOK
  <2>6. FileOK
    BY <1>1, <1>4 DEF FileOK
  <2>7. ChannelOK
    BY <1>1 DEF ChannelOK
  <2> QED BY <2>1, <2>2, <2>3, <2>4, <2>5, <2>6, <2>7, TypeParts
<1>6. \A kind : Waiting(kind) = {} /\ TurnsOf(kind) = {}
  BY <1>1 DEF Waiting, TurnsOf
<1>7. ~Active /\ writer.phase = "none"
  BY <1>1 DEF Active, Quiet
<1>8. WriterInv
  BY <1>1, <1>6, <1>7 DEF WriterInv
<1>9. CreateInv
  BY <1>1, <1>7 DEF CreateInv
<1>10. StoreInv
  BY <1>1, <1>3, <1>6, <1>7 DEF StoreInv, Boxes, Written
<1>11. FileInv
  BY <1>1, <1>3 DEF FileInv, Boxes
<1>12. QueueInv
  BY <1>6 DEF QueueInv
<1>13. KnownInv /\ FaultInv
  BY <1>1, <1>3 DEF KnownInv, FaultInv
<1>14. DoubtInv
  BY <1>1, <1>3 DEF DoubtInv, Boxes, Idle
<1>15. ChainInv
  <2>1. window.asked = None
    BY <1>1 DEF Idle
  <2> QED BY <1>1, <1>3, <1>6, <2>1, Values DEF ChainInv, Boxes, Written
<1> QED BY <1>5, <1>8, <1>9, <1>10, <1>11, <1>12, <1>13, <1>14, <1>15 DEF IInv

LEMMA Preserved == IInv /\ [Next]_vars => IInv'
<1> SUFFICES ASSUME IInv, [Next]_vars PROVE IInv'
  OBVIOUS
<1>1. /\ TypeOK /\ WriterInv /\ CreateInv /\ StoreInv
      /\ FileInv /\ QueueInv /\ KnownInv /\ FaultInv /\ DoubtInv /\ ChainInv
  BY DEF IInv
<1>2. TypeOK' /\ WriterInv' /\ CreateInv' /\ StoreInv'
  BY <1>1, TypeKept, WriterInvKept, CreateInvKept, StoreInvKept
<1>3. FileInv' /\ QueueInv' /\ KnownInv'
  BY <1>1, FileInvKept, QueueInvKept, KnownInvKept
<1>4. FaultInv' /\ DoubtInv' /\ ChainInv'
  BY <1>1, FaultInvKept, DoubtInvKept, ChainInvKept
<1> QED BY <1>2, <1>3, <1>4 DEF IInv

(* The inductive invariant holds. *)
THEOREM Inductive == Spec => []IInv
<1>1. Init => IInv
  BY Initially
<1> QED BY <1>1, Preserved, PTL DEF Spec

(* The state is always of the declared type: in particular both forms of   *)
(* the file list each entry once, and the read-back thread holds entries.  *)
THEOREM TypeCorrect == Spec => []TypeOK
<1>1. IInv => TypeOK
  BY DEF IInv
<1> QED BY <1>1, Inductive, PTL

(* The one create of a turn: the claim is on disk before it is sent, and   *)
(* neither a crash, a failing save nor a power loss makes it claimable     *)
(* again.                                                                  *)
THEOREM CreatesHappenOnce == Spec => []CreatedOnce
<1>1. IInv => CreatedOnce
  <2> SUFFICES ASSUME IInv, NEW t \in Turn
               PROVE  /\ creates[t] <= 1
                      /\ creates[t] = 1 => { outbox.state[t], stable.state[t] } \cap {"absent", "pending", "ready"} = {}
    BY DEF CreatedOnce
  <2>1. creates[t] <= 1 /\ (creates[t] = 1 => InPast(t))
    BY CreateParts DEF IInv
  <2> QED BY <2>1 DEF InPast, Past
<1> QED BY <1>1, Inductive, PTL

(* "confirmed" is written only for what the service holds byte for byte.   *)
THEOREM ConfirmationsAreTrue == Spec => []ConfirmedIsStored
<1>1. IInv => ConfirmedIsStored
  BY DEF IInv, StoreInv, ConfirmedIsStored, Stored, Boxes
<1> QED BY <1>1, Inductive, PTL

(* While no save fails, every completion since the first start is in the   *)
(* outbox or on its way there, through any number of crashes, and none     *)
(* from before it is.                                                      *)
THEOREM CompletionsAreKept == Spec => []NothingForgotten
<1>1. IInv => NothingForgotten
  <2> SUFFICES ASSUME IInv, faults = 0, app = "up"
               PROVE  { t \in Turn : outbox.state[t] # "absent" } \cup TurnsOf("queue")
                        = (history.since + 1)..LastCompleted
    BY DEF NothingForgotten
  <2>1. TypeOK /\ FileInv /\ QueueInv /\ KnownInv /\ FaultInv
    BY DEF IInv
  <2>2. outbox.after # None /\ outbox.after = history.since /\ outbox.after \in Nat
    <3>1. outbox.after # None
      BY <2>1 DEF FileInv
    <3> QED BY <2>1, <3>1, BoxTyped, BoxParts DEF FaultInv
  <2>3. /\ LastCompleted \in 0..MaxTurn /\ completed <= LastCompleted /\ completed \in 0..MaxTurn /\ MaxTurn \in Nat
        /\ \A u \in TurnsOf("complete") : u <= LastCompleted
        /\ TurnsOf("queue") \subseteq Turn
    BY <2>1, TurnsPosted, TypeParts, Values DEF ChannelOK, CountsOK
  <2>4. \A t \in Turn : outbox.state[t] # "absent" => t \in (history.since + 1)..LastCompleted
    <3>1. \A t \in Turn : outbox.state[t] # "absent" => outbox.after < t /\ t <= completed
      BY <2>1 DEF FileInv, Boxes
    <3> QED BY <2>2, <2>3, <3>1, Values
  <2>5. \A t \in TurnsOf("queue") : t \in (history.since + 1)..LastCompleted
    <3> TAKE t \in TurnsOf("queue")
    <3>1. t \in Turn /\ t \in Nat
      BY <2>3, Values
    <3>2. outbox.after < t /\ (t <= completed \/ t \in TurnsOf("complete"))
      BY <2>1, <2>2 DEF QueueInv, TurnsOf
    <3> QED BY <2>2, <2>3, <3>1, <3>2
  <2>6. \A u \in (history.since + 1)..LastCompleted : u \in Turn /\ (outbox.state[u] # "absent" \/ u \in TurnsOf("queue"))
    <3> TAKE u \in (history.since + 1)..LastCompleted
    <3>1. u \in Turn
      BY <2>2, <2>3 DEF Turn
    <3>2. u \in (outbox.after + 1)..LastCompleted
      BY <2>2
    <3> QED BY <2>1, <2>2, <3>1, <3>2 DEF KnownInv
  <2> QED BY <2>4, <2>5, <2>6
<1> QED BY <1>1, Inductive, PTL

(* What is written out was summarised over every older confirmed           *)
(* checkpoint of its conversation whose fate was never in doubt.           *)
THEOREM ChainsHold == Spec => []ChainUnbroken
<1>1. IInv => ChainUnbroken
  <2> SUFFICES ASSUME IInv, NEW t \in Turn, NEW u \in Older(t),
                      outbox.state[t] \in {"ready", "dispatched", "confirmed"}, outbox.state[u] = "confirmed"
               PROVE  u \in history.base[t] \cup history.doubted
    BY DEF ChainUnbroken
  <2>1. Built(outbox, t)
    BY DEF IInv, ChainInv, Boxes, Written
  <2> QED BY <2>1 DEF Built
<1> QED BY <1>1, Inductive, PTL
=============================================================================
