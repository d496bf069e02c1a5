---------------------------- MODULE LocalMemory ----------------------------
(***************************************************************************)
(* Local memory: texts the user records, admits to the requests of a       *)
(* conversation or excludes from them, replaces by later ones, labels, or  *)
(* chooses for the next request only.                                      *)
(*                                                                         *)
(* The window asks the worker for each of these but the last, one at a     *)
(* time ("pending"), and keeps the choices for the next request in its own *)
(* memory.  Send freezes, from the window's copy of the journal, what goes *)
(* out; the worker commits the message and then, in a second append, which *)
(* memories the turn was given; and the notice of both lets the request    *)
(* leave.  Sending is not held up by a memory command, nor a memory        *)
(* command by sending, so that either may overtake the other.              *)
(*                                                                         *)
(* A set S of numbers of events stands for a copy, or a prefix, of the     *)
(* journal that holds just those.                                          *)
(***************************************************************************)
EXTENDS Naturals, Sequences, FiniteSetsExt

CONSTANTS
  Conversation,
  PerRequest,   \* memories that may be chosen for one request
  MaxMemories,  \* bound: memories recorded
  MaxChanges,   \* bound: memories recorded, admitted, excluded, superseded, labelled
                \*   or unlabelled, in all
  MaxTurns,     \* bound: messages sent, the last of which ends what the user does
  MaxFaults     \* bound: failed appends and restarts

ASSUME LocalMemoryAssumption ==
  {PerRequest, MaxMemories, MaxChanges, MaxTurns, MaxFaults} \subseteq Nat

VARIABLES
  journal,  \* the events of this part of the journal
  queue,    \* commands on their way to the worker
  notices,  \* the worker's answers on their way to the window
  known,    \* the events the window has
  pending,  \* a memory command of the window waits for its notice
  shown,    \* the conversation in the window
  selected, \* the memories chosen for each conversation's next request
  sending,  \* the message being committed, and what was frozen for it
  turns,    \* messages sent
  chosen,   \* history: choices of the user that no request has used
  asked,    \* history: the last request that left
  faults

window == <<known, pending, shown, selected, sending>>

vars == <<journal, queue, notices, window, turns, chosen, asked, faults>>

Memory == 1..MaxMemories

-----------------------------------------------------------------------------
(***************************************************************************)
(* The journal.                                                            *)
(***************************************************************************)
Event(kind, of, with) == [kind |-> kind, of |-> of, with |-> with]

At(S, kinds) == {i \in S : journal[i].kind \in kinds}

Recorded(S) == {journal[i].of : i \in At(S, {"recorded"})}

(* The event that recorded m. *)
Record(S, m) == CHOOSE i \in At(S, {"recorded"}) : journal[i].of = m

(* The last decision about m in the requests of c, or 0. *)
Decision(S, m, c) ==
  Max({0} \cup {i \in At(S, {"admitted", "excluded"}) :
                  journal[i].of = m /\ journal[i].with = c})

Decided(S, m, c, kind) ==
  Decision(S, m, c) # 0 /\ journal[Decision(S, m, c)].kind = kind

Superseded(S) == {journal[i].of : i \in At(S, {"superseded"})}

Successors(S) == {journal[i].with : i \in At(S, {"superseded"})}

Labelled(S, m) ==
  LET last == Max({0} \cup {i \in At(S, {"labelled", "unlabelled"}) : journal[i].of = m})
  IN  last # 0 /\ journal[last].kind = "labelled"

(* Mutant: a memory stays admitted when a later one takes its place. *)
AdmittedForGood(S, c) == {m \in Recorded(S) : Decided(S, m, c, "admitted")}

Admitted(S, c) ==
  {m \in Recorded(S) : Decided(S, m, c, "admitted")} \ Superseded(S)

(* What may be chosen for one request. *)
Eligible(S, c) == Recorded(S) \ (Superseded(S) \cup Admitted(S, c))

(* The memories the journal says a turn was given. *)
GivenTo(S, t) ==
  UNION {journal[i].with.memories : i \in {j \in At(S, {"given"}) : journal[j].of = t}}

-----------------------------------------------------------------------------
(***************************************************************************)
(* The worker.                                                             *)
(***************************************************************************)
Accepts(S, cmd) ==
  LET m == cmd.of IN
  CASE cmd.kind = "recorded" -> m \notin Recorded(S)
    [] cmd.kind \in {"admitted", "excluded"} ->
         /\ m \in Recorded(S)
         /\ cmd.kind = "admitted" => m \notin Superseded(S)
         /\ ~Decided(S, m, cmd.with, cmd.kind)
    [] cmd.kind = "superseded" ->
         /\ {m, cmd.with} \subseteq Recorded(S)
         /\ journal[Record(S, m)].with = journal[Record(S, cmd.with)].with
         /\ Record(S, m) < Record(S, cmd.with)
         /\ m \notin Superseded(S)
         /\ cmd.with \notin Successors(S)
    [] cmd.kind = "labelled" -> m \in Recorded(S) /\ ~Labelled(S, m)
    [] cmd.kind = "unlabelled" -> m \in Recorded(S) /\ Labelled(S, m)
    [] cmd.kind = "committed" ->
         cmd.with.memories # {} =>
           /\ cmd.with.upto <= Len(journal)
           /\ Cardinality(cmd.with.memories) <= PerRequest
           /\ cmd.with.memories \subseteq Eligible(1..cmd.with.upto, cmd.with.conversation)

(* A memory command is the event it appends; a message with memories for   *)
(* one request takes two.                                                  *)
Plan(cmd) ==
  IF cmd.kind # "committed" THEN << cmd >>
  ELSE << Event("committed", cmd.of, cmd.with.conversation) >>
       \o IF cmd.with.memories = {} THEN <<>> ELSE << Event("given", cmd.of, cmd.with) >>

None == "none"

Notice(ok, of, new) == [ok |-> ok, of |-> of, new |-> new]

Serve ==
  /\ queue # <<>>
  /\ queue' = Tail(queue)
  /\ LET cmd == Head(queue)
         plan == Plan(cmd)
         S == DOMAIN journal
     IN  \/ /\ Accepts(S, cmd)
            /\ journal' = journal \o plan
            /\ notices' = Append(notices,
                 Notice(TRUE, cmd, Len(journal) + 1 .. Len(journal) + Len(plan)))
            /\ UNCHANGED faults
         \/ /\ ~Accepts(S, cmd)
            /\ notices' = Append(notices, Notice(FALSE, cmd, {}))
            /\ UNCHANGED <<journal, faults>>
         (* The file fails; the message may be there and what it was given *)
         (* not, and the window hears of a failure all the same.           *)
         \/ /\ Accepts(S, cmd)
            /\ faults < MaxFaults
            /\ faults' = faults + 1
            /\ \E n \in 0..Len(plan) - 1 : journal' = journal \o SubSeq(plan, 1, n)
            /\ notices' = Append(notices, Notice(FALSE, cmd, {}))
  /\ UNCHANGED <<window, turns, chosen, asked>>

-----------------------------------------------------------------------------
(***************************************************************************)
(* The window and its user.                                                *)
(***************************************************************************)
NoMessage ==
  [turn |-> 0, remote |-> FALSE, admitted |-> {}, memories |-> {}, upto |-> 0]

Upto == Max({0} \cup known)

(* What the panel offers, from the window's copy. *)
Offered ==
  LET rec == Recorded(known)
      sup == Superseded(known)
      new == Max({0} \cup rec) + 1
      here(m, kind) == Decided(known, m, shown, kind)
  IN  { Event("recorded", m, shown) : m \in {new} \cap Memory }
      \cup { Event("admitted", m, shown) : m \in {k \in rec \ sup : ~here(k, "admitted")} }
      \cup { Event("excluded", m, shown) : m \in {k \in rec : here(k, "admitted")} }
      \cup { Event("superseded", p[1], p[2]) :
               p \in {q \in (rec \ sup) \X (rec \ Successors(known)) :
                        /\ journal[Record(known, q[1])].with = journal[Record(known, q[2])].with
                        /\ Record(known, q[1]) < Record(known, q[2])} }
      \cup { Event("labelled", m, 0) : m \in {k \in rec : ~Labelled(known, k)} }
      \cup { Event("unlabelled", m, 0) : m \in {k \in rec : Labelled(known, k)} }

Busy == turns < MaxTurns \/ sending # NoMessage

Changes ==
  Cardinality(At(DOMAIN journal, {"recorded", "admitted", "excluded", "superseded",
                                  "labelled", "unlabelled"}))

UserAsks ==
  /\ ~pending
  /\ Busy
  /\ Changes < MaxChanges
  /\ \E cmd \in Offered : queue' = Append(queue, cmd)
  /\ pending' = TRUE
  /\ UNCHANGED <<journal, notices, known, shown, selected, sending, turns, chosen, asked,
                 faults>>

(* Another conversation is opened; a message being committed forbids it.   *)
Show(c) ==
  /\ sending = NoMessage
  /\ turns < MaxTurns
  /\ c # shown
  /\ shown' = c
  /\ UNCHANGED <<journal, queue, notices, known, pending, selected, sending, turns, chosen,
                 asked, faults>>

UseOnce(m) ==
  /\ sending = NoMessage
  /\ turns < MaxTurns
  /\ m \in Recorded(known) \ (Superseded(known) \cup selected[shown])
  /\ ~Decided(known, m, shown, "admitted")
  /\ Cardinality(selected[shown]) < PerRequest
  /\ selected' = [selected EXCEPT ![shown] = @ \cup {m}]
  /\ chosen' = [chosen EXCEPT ![shown] = @ \cup {m}]
  /\ UNCHANGED <<journal, queue, notices, known, pending, shown, sending, turns, asked,
                 faults>>

RemoveOnce(m) ==
  /\ sending = NoMessage
  /\ turns < MaxTurns
  /\ m \in selected[shown]
  /\ selected' = [selected EXCEPT ![shown] = @ \ {m}]
  /\ chosen' = [chosen EXCEPT ![shown] = @ \ {m}]
  /\ UNCHANGED <<journal, queue, notices, known, pending, shown, sending, turns, asked,
                 faults>>

(* Without a connection the message is committed alone.  With one, a       *)
(* choice the window's copy makes ineligible forbids to send.              *)
Send ==
  /\ sending = NoMessage
  /\ turns < MaxTurns
  /\ turns' = turns + 1
  /\ \E remote \in BOOLEAN :
       LET once == IF remote THEN selected[shown] ELSE {} IN
       /\ once \subseteq Eligible(known, shown)
       /\ sending' = [ turn |-> turns', remote |-> remote,
                       admitted |-> IF remote THEN Admitted(known, shown) ELSE {},
                       memories |-> once, upto |-> Upto ]
       /\ queue' = Append(queue, Event("committed", turns',
                     [ conversation |-> shown, memories |-> once,
                       upto |-> IF once = {} THEN 0 ELSE Upto ]))
  /\ UNCHANGED <<journal, notices, known, pending, shown, selected, chosen, asked, faults>>

(* Mutant: a superseded memory is dropped from the open conversation only. *)
DroppedHere(n) ==
  LET cmd == n.of
      S == known \cup n.new
  IN  CASE cmd.kind \in {"admitted", "excluded"} ->
             [c \in Conversation |-> IF Decided(S, cmd.of, c, "admitted")
                                     THEN selected[c] \ {cmd.of} ELSE selected[c]]
        [] cmd.kind = "superseded" -> [selected EXCEPT ![shown] = @ \ {cmd.of}]
        [] OTHER -> selected

(* The choices left when the window has heard of a memory command. *)
Dropped(n) ==
  LET cmd == n.of
      S == known \cup n.new
  IN  CASE cmd.kind \in {"admitted", "excluded"} ->
             [c \in Conversation |-> IF Decided(S, cmd.of, c, "admitted")
                                     THEN selected[c] \ {cmd.of} ELSE selected[c]]
        [] cmd.kind = "superseded" -> [c \in Conversation |-> selected[c] \ {cmd.of}]
        [] OTHER -> selected

HearMemory(n) ==
  /\ n.of.kind # "committed"
  /\ known' = known \cup n.new
  /\ pending' = FALSE
  /\ selected' = IF n.ok THEN Dropped(n) ELSE selected
  /\ UNCHANGED <<sending, chosen, asked>>

Request(t, c, admitted, once, upto, fits) ==
  [turn |-> t, conversation |-> c, admitted |-> admitted, once |-> once, upto |-> upto,
   fits |-> fits]

NoRequest == Request(0, None, {}, {}, 0, TRUE)

(* Mutant: the choices stay until the user takes them back. *)
KeptAfterUse(n) == selected

(* The choices left when the window has heard of the commit of a message:  *)
(* those of its conversation are used up, if any were recorded with it.    *)
LeftAfterUse(n) ==
  IF n.of.with.memories # {} THEN [selected EXCEPT ![n.of.with.conversation] = {}]
  ELSE selected

(* Mutant: the request takes the choices as they are now. *)
OnceNow(n) == IF n.of.with.memories # {} THEN selected[n.of.with.conversation] ELSE {}

(* The memories for this request only, read back from the journal. *)
OnceOf(n) == IF n.of.with.memories # {} THEN GivenTo(known \cup n.new, n.of.of) ELSE {}

HearCommit(n) ==
  LET t == n.of.of
      c == n.of.with.conversation
      once == OnceOf(n)
  IN  /\ n.of.kind = "committed"
      /\ n.ok
      /\ known' = known \cup n.new
      /\ selected' = LeftAfterUse(n)
      /\ sending' = NoMessage
      (* compose_bounded: a context that does not fit its budget goes     *)
      (* without some of what was admitted; what was chosen for this      *)
      (* request only is kept, or the request does not leave.             *)
      /\ \/ /\ sending.turn = t /\ sending.remote
            /\ \E fits \in BOOLEAN :
                 \E kept \in IF fits THEN {sending.admitted} ELSE SUBSET sending.admitted :
                   asked' = Request(t, c, kept, once, sending.upto, fits)
            /\ chosen' = [chosen EXCEPT ![c] = @ \ once]
         \/ UNCHANGED <<asked, chosen>>
      /\ UNCHANGED pending

(* The draft and the choices are kept; what was frozen is not. *)
HearCommitFailed(n) ==
  /\ n.of.kind = "committed"
  /\ ~n.ok
  /\ sending' = NoMessage
  /\ UNCHANGED <<known, pending, selected, chosen, asked>>

Hear ==
  /\ notices # <<>>
  /\ notices' = Tail(notices)
  /\ LET n == Head(notices) IN HearMemory(n) \/ HearCommit(n) \/ HearCommitFailed(n)
  /\ UNCHANGED <<journal, queue, shown, turns, faults>>

(* The program ends, at any moment, and is started again: the window has   *)
(* the whole journal and no choices, and opens the conversation it showed. *)
Restart ==
  /\ faults < MaxFaults
  /\ faults' = faults + 1
  /\ queue' = <<>>
  /\ notices' = <<>>
  /\ known' = DOMAIN journal
  /\ pending' = FALSE
  /\ selected' = [c \in Conversation |-> {}]
  /\ chosen' = [c \in Conversation |-> {}]
  /\ sending' = NoMessage
  /\ UNCHANGED <<journal, shown, turns, asked>>

(* The program opens a journal with one memory, admitted to a conversation *)
(* already.                                                                *)
Init ==
  /\ \E c, d \in Conversation :
       journal = << Event("recorded", 1, c), Event("admitted", 1, d) >>
  /\ queue = <<>>
  /\ notices = <<>>
  /\ known = DOMAIN journal
  /\ pending = FALSE
  /\ shown \in Conversation
  /\ selected = [c \in Conversation |-> {}]
  /\ sending = NoMessage
  /\ turns = 0
  /\ chosen = [c \in Conversation |-> {}]
  /\ asked = NoRequest
  /\ faults = 0

Next ==
  \/ Serve \/ Hear \/ UserAsks \/ Send \/ Restart
  \/ \E c \in Conversation : Show(c)
  \/ \E m \in Memory : UseOnce(m) \/ RemoveOnce(m)

Spec == Init /\ [][Next]_vars

-----------------------------------------------------------------------------
(* State types. *)
TypeOK ==
  /\ known \subseteq DOMAIN journal
  /\ {pending, sending.remote} \subseteq BOOLEAN
  /\ shown \in Conversation
  /\ selected \in [Conversation -> SUBSET Memory]
  /\ chosen \in [Conversation -> SUBSET Memory]
  /\ sending.turn \in 0..turns
  /\ turns \in 0..MaxTurns
  /\ faults \in 0..MaxFaults

(* A memory chosen for the next request goes out with one request at most: *)
(* whatever fails, is overtaken or is sent again, a request carries only   *)
(* choices of its conversation that no request before it carried and that  *)
(* the user made since the program started.                                *)
OncePerChoice ==
  [][asked' # asked => asked'.once \subseteq chosen[asked'.conversation]]_vars

(* The journal tells what the model was given: the memories for one        *)
(* request that left with a turn are those the journal gives to the turn.  *)
SentAsRecorded == asked.once = GivenTo(DOMAIN journal, asked.turn)

(* Nothing stale leaves: in the journal as it was up to the event the      *)
(* window last knew when the user sent, every admitted memory a request    *)
(* carries was admitted to its conversation, and all that were are there   *)
(* if its context fits the budget; those it carries once were recorded and *)
(* not admitted; and none of either had been superseded.                   *)
ValidWhenSent ==
  LET S == 1..asked.upto
      inForce == Recorded(S) \ Superseded(S)
      admitted == {m \in inForce : Decided(S, m, asked.conversation, "admitted")}
  IN  /\ asked.admitted \subseteq admitted
      /\ asked.fits => asked.admitted = admitted
      /\ asked.once \subseteq inForce \ admitted

(* No choice makes sending impossible: admitting or superseding a memory   *)
(* takes it out of every choice it would spoil, in whichever conversation. *)
ChoicesSendable ==
  \A c \in Conversation : selected[c] \subseteq Eligible(known, c)
=============================================================================
