---------------------------- MODULE RenewalProofs ----------------------------
(***************************************************************************)
(* Theorems about Renewal, for any number of renewals, events and flushes. *)
(***************************************************************************)
EXTENDS Renewal, SequenceTheorems, TLAPS

Firing == pending \in {"armed", "clearing"}

\* The rotation window is a renewal's from its arming to its rotation, or a prune's, and no rewrite
\* runs beside a renewal.
WindowsOK ==
  /\ rotation = "renew" <=> Firing
  /\ rotation = "prune" <=> mutating = "prune"
  /\ Firing => renewing /\ number > 0 /\ mutating = "none"
  /\ mutating # "none" => cli = "gone"

\* A process that has gone has taken its queue, its turn and its context with it.
ProcessOK == ~Alive => stdin = <<>> /\ turn = NoTurn /\ segment = backing

\* Every /clear on its way is some renewal's.
ClearsOwned == \A i \in 1..Len(stdin) : stdin[i].kind = "clear" => stdin[i].of \in 1..number

\* Up to a hole, a /clear on its way is the pending renewal's, the only one, and the context it will
\* clear is the one the renewal remembers: so no turn that ends before it can pass for its own.
ClearPending ==
  hole = "none" =>
    /\ \A i \in 1..Len(stdin) : stdin[i].kind = "clear" =>
         pending = "clearing" /\ stdin[i].of = number /\ segment = oldSid
    /\ \A i, j \in 1..Len(stdin) : stdin[i].kind = "clear" /\ stdin[j].kind = "clear" => i = j

\* Up to a hole, only a pending renewal's /clear begins a context.
ContextOK ==
  hole = "none" =>
    /\ segment # backing => pending = "clearing"
    /\ pending = "clearing" /\ segment # oldSid => number \in cleared

\* Up to a hole, one reseed waits at a time, of a context that was cleared, behind the wider window; a
\* process that has gone has excused it.
ReseedsOK ==
  hole = "none" =>
    /\ \A k \in Renewals : reseeds[k] > 0 => k \in cleared \union excused
    /\ \A k \in Renewals : reseeds[k] > 0 => renewing \/ k \in excused
    /\ \A k \in Renewals : reseeds[k] > 0 => Alive \/ k \in excused
    /\ \A j, k \in Renewals : reseeds[j] > 0 /\ reseeds[k] > 0 => j = k
    /\ ~Alive => cleared \subseteq seeded \union excused

IInv ==
  /\ TypeOK /\ WindowsOK /\ ProcessOK /\ ClearsOwned /\ ClearPending /\ ContextOK /\ ReseedsOK
  /\ SummaryNotLost

\* TypeOK's parts: the queue, the CLI's contexts, the flags, what was cleared and seeded, the reseeds.
QueueTyped == stdin \in Seq(Message) /\ turn \in Message \union {NoTurn}
ContextTyped == segment \in Nat /\ backing \in 1..segment /\ oldSid \in 0..backing
FlagsTyped == {owed, tasks, notif, queued, renewing, waiting, stranded} \subseteq BOOLEAN
HistoryTyped == cleared \union seeded \union excused \subseteq 1..number
ReseedsTyped ==
  /\ reseeds \in [Renewals -> 0..Attempts]
  /\ \A r \in Renewals : reseeds[r] > 0 => r <= number
StagesTyped ==
  /\ cli \in {"gone", "idle", "turn", "removed"}
  /\ hole \in {"none", "watchdog", "overlap"}
  /\ pending \in {"none", "requested", "armed", "clearing"}
  /\ rotation \in {"none", "renew", "prune"} /\ mutating \in {"none", "prune", "rewind"}
  /\ number \in 0..MaxRenewals /\ events \in 0..MaxEvents

-----------------------------------------------------------------------------
(* The queue. *)

LEMMA Sent ==
  ASSUME NEW q \in Seq(Message), NEW m \in Message
  PROVE  /\ Append(q, m) \in Seq(Message) /\ Append(q, m) # <<>>
         /\ \A i \in 1..Len(Append(q, m)) :
              \/ i \in 1..Len(q) /\ Append(q, m)[i] = q[i]
              \/ i = Len(q) + 1 /\ Append(q, m)[i] = m
OBVIOUS

LEMMA Taken ==
  ASSUME NEW q \in Seq(Message), q # <<>>
  PROVE  /\ Head(q) \in Message /\ Head(q) = q[1]
         /\ Tail(q) \in Seq(Message)
         /\ Len(q) > 0 /\ Len(Tail(q)) = Len(q) - 1
         /\ \A i \in 1..Len(Tail(q)) : Tail(q)[i] = q[i + 1]
BY HeadTailProperties, Z3

\* A /clear sent when no other is on its way, into the context the server knows of.
LEMMA ClearFired ==
  ASSUME IInv, FireClear, pending = "armed", hole = "none" => segment = backing, UNCHANGED segment
  PROVE  ClearsOwned' /\ ClearPending'
<1> DEFINE m == [kind |-> "clear", of |-> number]
<1>1. m \in Message /\ m.kind = "clear" /\ m.of = number /\ number \in 1..number
  BY DEF IInv, TypeOK, WindowsOK, Firing, Message, Kinds
<1>2. stdin' = Append(stdin, m) /\ stdin \in Seq(Message)
  BY DEF IInv, TypeOK, FireClear, Send
<1> HIDE DEF m
<1>3. hole = "none" => \A i \in 1..Len(stdin) : stdin[i].kind # "clear"
  BY DEF IInv, ClearPending
<1>4. ClearsOwned'
  BY <1>1, <1>2, Sent DEF IInv, ClearsOwned, FireClear
<1>5. \A i \in 1..Len(stdin') : hole = "none" /\ stdin'[i].kind = "clear" => i = Len(stdin) + 1 /\ stdin'[i] = m
  BY <1>1, <1>2, <1>3, Sent
<1> QED BY <1>1, <1>4, <1>5 DEF ClearPending, FireClear

-----------------------------------------------------------------------------
(* One lemma per action. *)

LEMMA TakeNextKeeps ==
  ASSUME IInv, TakeNext
  PROVE  IInv'
<1>1. TypeOK'
  <2>1. QueueTyped'
    BY DEF IInv, TakeNext, TypeOK, QueueTyped
  <2>2. ContextTyped'
    BY DEF IInv, TakeNext, server, entry, TypeOK, ContextTyped
  <2>3. FlagsTyped'
    BY RenewalAssumption DEF IInv, TakeNext, Alive, server, windows, entry, reseed, Firing, TypeOK,
       NoTurn, FlagsTyped
  <2>4. HistoryTyped'
    BY DEF IInv, TakeNext, entry, reseed, TypeOK, ClearsOwned, HistoryTyped
  <2>5. ReseedsTyped'
    BY DEF IInv, TakeNext, entry, reseed, TypeOK, ReseedsTyped
  <2>6. StagesTyped'
    BY DEF IInv, TakeNext, windows, entry, TypeOK, StagesTyped
  <2> QED BY <2>1, <2>2, <2>3, <2>4, <2>5, <2>6 DEF TypeOK, QueueTyped, ContextTyped, FlagsTyped,
     HistoryTyped, ReseedsTyped, StagesTyped
<1>2. WindowsOK'
  BY DEF IInv, TakeNext, windows, entry, Firing, WindowsOK
<1>3. ProcessOK'
  BY DEF TakeNext, Alive, ProcessOK
<1>4. ClearsOwned'
  BY DEF IInv, TakeNext, entry, ClearsOwned
<1>5. ClearPending'
  BY DEF IInv, TakeNext, entry, ClearPending
<1>6. ContextOK'
  BY Taken DEF IInv, TakeNext, server, entry, ClearPending, ContextOK
<1>7. ReseedsOK'
  BY DEF IInv, TakeNext, Alive, windows, entry, reseed, ReseedsOK
<1>8. SummaryNotLost'
  BY DEF IInv, TakeNext, entry, reseed, Firing, ClearPending, SummaryNotLost, Kept
<1> QED BY <1>1, <1>2, <1>3, <1>4, <1>5, <1>6, <1>7, <1>8 DEF IInv

LEMMA OwnTurnKeeps ==
  ASSUME IInv, OwnTurn
  PROVE  IInv'
<1>1. TypeOK'
  <2>0. turn' \in Message \union {NoTurn}
    BY RenewalAssumption DEF OwnTurn, Plain, Message, Kinds
  <2>1. QueueTyped'
    BY RenewalAssumption DEF IInv, OwnTurn, TypeOK, Plain, Message, Kinds, QueueTyped
  <2>2. ContextTyped'
    BY DEF IInv, OwnTurn, server, entry, TypeOK, ContextTyped
  <2>3. FlagsTyped'
    BY RenewalAssumption DEF IInv, OwnTurn, Alive, server, windows, entry, reseed, Firing, TypeOK,
       NoTurn, FlagsTyped
  <2>4. HistoryTyped'
    BY DEF IInv, OwnTurn, entry, reseed, TypeOK, HistoryTyped
  <2>5. ReseedsTyped'
    BY DEF IInv, OwnTurn, entry, reseed, TypeOK, ReseedsTyped
  <2>6. StagesTyped'
    BY DEF IInv, OwnTurn, windows, entry, TypeOK, StagesTyped
  <2> QED BY <2>1, <2>2, <2>3, <2>4, <2>5, <2>6 DEF TypeOK, QueueTyped, ContextTyped, FlagsTyped,
     HistoryTyped, ReseedsTyped, StagesTyped
<1>2. WindowsOK'
  BY DEF IInv, OwnTurn, windows, entry, Firing, WindowsOK
<1>3. ProcessOK'
  BY DEF OwnTurn, Alive, ProcessOK
<1>4. ClearsOwned'
  BY DEF IInv, OwnTurn, entry, ClearsOwned
<1>5. ClearPending'
  BY DEF IInv, OwnTurn, entry, ClearPending
<1>6. ContextOK'
  BY DEF IInv, OwnTurn, server, entry, ContextOK
<1>7. ReseedsOK'
  BY DEF IInv, OwnTurn, Alive, windows, entry, reseed, ReseedsOK
<1>8. SummaryNotLost'
  BY DEF IInv, OwnTurn, entry, reseed, SummaryNotLost, Kept
<1> QED BY <1>1, <1>2, <1>3, <1>4, <1>5, <1>6, <1>7, <1>8 DEF IInv

LEMMA InitSeenKeeps ==
  ASSUME IInv, InitSeen
  PROVE  IInv'
<1>1. TypeOK'
  BY DEF IInv, InitSeen, TypeOK, entry, windows, reseed
<1>2. WindowsOK'
  BY DEF IInv, InitSeen, Alive, windows, entry, Firing, WindowsOK
<1>3. ProcessOK'
  BY DEF InitSeen, Alive, ProcessOK
<1>4. ClearsOwned'
  BY DEF IInv, InitSeen, entry, ClearsOwned
<1>5. ClearPending'
  BY DEF IInv, InitSeen, entry, ClearPending
<1>6. ContextOK'
  BY DEF IInv, InitSeen, entry, ContextOK
<1>7. ReseedsOK'
  BY DEF IInv, InitSeen, Alive, windows, entry, reseed, ReseedsOK
<1>8. SummaryNotLost'
  BY DEF IInv, InitSeen, entry, reseed, SummaryNotLost, Kept
<1> QED BY <1>1, <1>2, <1>3, <1>4, <1>5, <1>6, <1>7, <1>8 DEF IInv

LEMMA TurnEndsKeeps ==
  ASSUME IInv, TurnEnds
  PROVE  IInv'
<1>0. number > 0 => [kind |-> "clear", of |-> number] \in Message
  BY DEF IInv, TypeOK, Message, Kinds
<1>1. TypeOK'
  <2>1. QueueTyped'
    BY <1>0, Sent DEF IInv, TurnEnds, Firing, Send, FireClear, TypeOK, WindowsOK, QueueTyped
  <2>2. ContextTyped'
    BY DEF IInv, TurnEnds, FireClear, ClearDone, TypeOK, ContextTyped
  <2>3. FlagsTyped'
    BY RenewalAssumption DEF IInv, TurnEnds, Alive, windows, Firing, Send, FireClear, ClearDone,
       Rotated, Deferred, TypeOK, NoTurn, FlagsTyped
  <2>4. HistoryTyped'
    BY DEF IInv, TurnEnds, FireClear, ClearDone, TypeOK, HistoryTyped
  <2>5. ReseedsTyped'
    BY RenewalAssumption DEF IInv, TurnEnds, Alive, windows, FireClear, ClearDone, TypeOK,
       ReseedsTyped
  <2>6. StagesTyped'
    BY DEF IInv, TurnEnds, windows, Send, FireClear, ClearDone, TypeOK, StagesTyped
  <2> QED BY <2>1, <2>2, <2>3, <2>4, <2>5, <2>6 DEF TypeOK, QueueTyped, ContextTyped, FlagsTyped,
     HistoryTyped, ReseedsTyped, StagesTyped
<1>2. WindowsOK'
  BY DEF IInv, TurnEnds, windows, Firing, FireClear, ClearDone, WindowsOK
<1>3. ProcessOK'
  BY DEF TurnEnds, Alive, Send, FireClear, ProcessOK
<1>4. ClearsOwned'
  <2>1. CASE pending = "armed" /\ ~Deferred(tasks, notif)
    BY <2>1, ClearFired DEF TurnEnds
  <2>2. CASE ~(pending = "armed" /\ ~Deferred(tasks, notif))
    BY <2>2 DEF IInv, TurnEnds, ClearDone, ClearsOwned
  <2> QED BY <2>1, <2>2
<1>5. ClearPending'
  <2>1. CASE pending = "armed" /\ ~Deferred(tasks, notif)
    BY <2>1, ClearFired DEF TurnEnds
  <2>2. CASE ~(pending = "armed" /\ ~Deferred(tasks, notif))
    BY <2>2, Sent DEF IInv, TurnEnds, ClearDone, Rotated, ClearPending
  <2> QED BY <2>1, <2>2
<1>6. ContextOK'
  BY DEF TurnEnds, FireClear, ClearDone, Rotated, ContextOK
<1>7. ReseedsOK'
  BY RenewalAssumption DEF IInv, TurnEnds, Alive, windows, Firing, Send, FireClear, ClearDone, Rotated,
     Deferred, TypeOK, NoTurn, WindowsOK, ProcessOK, ContextOK, ReseedsOK, SummaryNotLost, Kept
<1>8. SummaryNotLost'
  BY Sent, RenewalAssumption DEF IInv, TurnEnds, FireClear, ClearDone, Deferred, TypeOK, Renewals,
     SummaryNotLost, Kept
<1> QED BY <1>1, <1>2, <1>3, <1>4, <1>5, <1>6, <1>7, <1>8 DEF IInv

LEMMA AbsorbKeeps ==
  ASSUME IInv, Absorb
  PROVE  IInv'
<1>1. TypeOK'
  BY DEF IInv, Absorb, TypeOK, server, entry, windows, reseed
<1>2. WindowsOK'
  BY DEF IInv, Absorb, windows, entry, Firing, WindowsOK
<1>3. ProcessOK'
  BY DEF Absorb, Alive, ProcessOK
<1>4. ClearsOwned'
  BY DEF IInv, Absorb, entry, ClearsOwned
<1>5. ClearPending'
  BY DEF IInv, Absorb, entry, ClearPending
<1>6. ContextOK'
  BY DEF IInv, Absorb, server, entry, ContextOK
<1>7. ReseedsOK'
  BY DEF IInv, Absorb, Alive, windows, entry, reseed, ReseedsOK
<1>8. SummaryNotLost'
  BY DEF IInv, Absorb, entry, reseed, SummaryNotLost, Kept
<1> QED BY <1>1, <1>2, <1>3, <1>4, <1>5, <1>6, <1>7, <1>8 DEF IInv

LEMMA TaskStartsKeeps ==
  ASSUME IInv, TaskStarts
  PROVE  IInv'
<1>1. TypeOK'
  BY RenewalAssumption DEF IInv, TaskStarts, process, TypeOK, entry, windows, reseed, Alive, Event
<1>2. WindowsOK'
  BY DEF IInv, TaskStarts, windows, entry, Firing, WindowsOK
<1>3. ProcessOK'
  BY DEF TaskStarts, Alive, process, ProcessOK
<1>4. ClearsOwned'
  BY DEF IInv, TaskStarts, process, entry, ClearsOwned
<1>5. ClearPending'
  BY DEF IInv, TaskStarts, process, entry, ClearPending
<1>6. ContextOK'
  BY DEF IInv, TaskStarts, process, entry, ContextOK
<1>7. ReseedsOK'
  BY DEF IInv, TaskStarts, Alive, process, windows, entry, reseed, ReseedsOK
<1>8. SummaryNotLost'
  BY DEF IInv, TaskStarts, entry, reseed, SummaryNotLost, Kept
<1> QED BY <1>1, <1>2, <1>3, <1>4, <1>5, <1>6, <1>7, <1>8 DEF IInv

LEMMA TaskEndsKeeps ==
  ASSUME IInv, TaskEnds
  PROVE  IInv'
<1>0. number > 0 => [kind |-> "clear", of |-> number] \in Message
  BY DEF IInv, TypeOK, Message, Kinds
<1>1. TypeOK'
  <2>0. turn' \in Message \union {NoTurn}
    BY RenewalAssumption DEF IInv, TypeOK, TaskEnds, OwnTurn, Plain, Message, Kinds
  <2>1. QueueTyped'
    BY <1>0, Sent, <2>0 DEF IInv, TaskEnds, Firing, Send, FireClear, DrainFires, Deferred, TypeOK,
       WindowsOK, QueueTyped
  <2>2. ContextTyped'
    BY DEF IInv, TaskEnds, FireClear, TypeOK, ContextTyped
  <2>3. FlagsTyped'
    BY RenewalAssumption DEF IInv, TaskEnds, Alive, windows, Firing, Send, FireClear, DrainFires,
       Deferred, TypeOK, NoTurn, FlagsTyped
  <2>4. HistoryTyped'
    BY DEF IInv, TaskEnds, FireClear, TypeOK, HistoryTyped
  <2>5. ReseedsTyped'
    BY RenewalAssumption DEF IInv, TaskEnds, FireClear, TypeOK, ReseedsTyped
  <2>6. StagesTyped'
    BY DEF IInv, TaskEnds, windows, Send, FireClear, TypeOK, StagesTyped
  <2> QED BY <2>1, <2>2, <2>3, <2>4, <2>5, <2>6 DEF TypeOK, QueueTyped, ContextTyped, FlagsTyped,
     HistoryTyped, ReseedsTyped, StagesTyped
<1>2. WindowsOK'
  BY DEF IInv, TaskEnds, windows, Firing, FireClear, DrainFires, Deferred, WindowsOK
<1>3. ProcessOK'
  BY DEF TaskEnds, Alive, Send, FireClear, ProcessOK
<1>4. ClearsOwned'
  <2>1. CASE DrainFires
    BY <2>1, ClearFired DEF IInv, TaskEnds, DrainFires, ContextOK
  <2>2. CASE ~DrainFires
    BY <2>2 DEF IInv, TaskEnds, ClearsOwned
  <2> QED BY <2>1, <2>2
<1>5. ClearPending'
  <2>1. CASE DrainFires
    BY <2>1, ClearFired DEF IInv, TaskEnds, DrainFires, ContextOK
  <2>2. CASE ~DrainFires
    BY <2>2, <1>0 DEF IInv, TaskEnds, ClearPending
  <2> QED BY <2>1, <2>2
<1>6. ContextOK'
  BY DEF IInv, TaskEnds, FireClear, TypeOK, ContextOK
<1>7. ReseedsOK'
  BY RenewalAssumption DEF IInv, TaskEnds, Alive, windows, Send, FireClear, ReseedsOK
<1>8. SummaryNotLost'
  BY RenewalAssumption DEF IInv, TaskEnds, FireClear, SummaryNotLost, Kept
<1> QED BY <1>1, <1>2, <1>3, <1>4, <1>5, <1>6, <1>7, <1>8 DEF IInv

LEMMA DeliveredInTurnKeeps ==
  ASSUME IInv, DeliveredInTurn
  PROVE  IInv'
<1>1. TypeOK'
  BY RenewalAssumption DEF IInv, DeliveredInTurn, TypeOK, entry, Alive, windows, reseed, Firing, NoTurn
<1>2. WindowsOK'
  BY DEF IInv, DeliveredInTurn, windows, entry, Firing, WindowsOK
<1>3. ProcessOK'
  BY DEF DeliveredInTurn, Alive, ProcessOK
<1>4. ClearsOwned'
  BY DEF IInv, DeliveredInTurn, entry, ClearsOwned
<1>5. ClearPending'
  BY DEF IInv, DeliveredInTurn, entry, ClearPending
<1>6. ContextOK'
  BY DEF IInv, DeliveredInTurn, entry, ContextOK
<1>7. ReseedsOK'
  BY DEF IInv, DeliveredInTurn, Alive, windows, entry, reseed, ReseedsOK
<1>8. SummaryNotLost'
  BY DEF IInv, DeliveredInTurn, entry, reseed, SummaryNotLost, Kept
<1> QED BY <1>1, <1>2, <1>3, <1>4, <1>5, <1>6, <1>7, <1>8 DEF IInv

LEMMA ArmKeeps ==
  ASSUME IInv, Arm
  PROVE  IInv'
<1>1. TypeOK'
  BY RenewalAssumption DEF IInv, Arm, process, TypeOK, server, OpensWindows, reseed, Renewals, Alive
<1>2. WindowsOK'
  BY DEF IInv, Arm, Firing, OpensWindows, TypeOK, WindowsOK
<1>3. ProcessOK'
  BY DEF Arm, Alive, process, ProcessOK
<1>4. ClearsOwned'
  BY DEF IInv, Arm, process, TypeOK, ClearsOwned
<1>5. ClearPending'
  BY DEF IInv, Arm, process, ClearPending
<1>6. ContextOK'
  BY DEF IInv, Arm, process, server, ContextOK
<1>7. ReseedsOK'
  BY DEF IInv, Arm, Alive, process, reseed, OpensWindows, ReseedsOK
<1>8. SummaryNotLost'
  BY DEF IInv, Arm, reseed, SummaryNotLost, Kept
<1> QED BY <1>1, <1>2, <1>3, <1>4, <1>5, <1>6, <1>7, <1>8 DEF IInv

LEMMA RequestKeeps ==
  ASSUME IInv, Request
  PROVE  IInv'
<1>0. Plain("request") \in Message /\ Plain("request").kind # "clear"
  BY RenewalAssumption DEF Plain, Message, Kinds, Renewals
<1>1. TypeOK'
  BY <1>0, RenewalAssumption DEF IInv, Request, Send, TypeOK, windows, reseed, Alive, Event
<1>2. WindowsOK'
  BY DEF IInv, Request, windows, Firing, WindowsOK
<1>3. ProcessOK'
  BY DEF Request, Alive, Send, ProcessOK
<1>4. ClearsOwned'
  BY <1>0 DEF IInv, Request, Send, ClearsOwned
<1>5. ClearPending'
  BY <1>0 DEF IInv, Request, Firing, Send, WindowsOK, ClearPending
<1>6. ContextOK'
  BY DEF IInv, Request, Firing, WindowsOK, ContextOK
<1>7. ReseedsOK'
  BY DEF IInv, Request, Alive, reseed, Send, ReseedsOK
<1>8. SummaryNotLost'
  BY DEF IInv, Request, reseed, Firing, WindowsOK, SummaryNotLost, Kept
<1> QED BY <1>1, <1>2, <1>3, <1>4, <1>5, <1>6, <1>7, <1>8 DEF IInv

LEMMA WatchdogKeeps ==
  ASSUME IInv, Watchdog
  PROVE  IInv'
<1>1. TypeOK'
  BY RenewalAssumption DEF IInv, Watchdog, process, TypeOK, server, Alive, reseed, Firing, Abandon,
     NoTurn
<1>2. WindowsOK'
  BY DEF IInv, Watchdog, Firing, Abandon, WindowsOK
<1>3. ProcessOK'
  BY DEF IInv, Watchdog, Alive, process, server, ProcessOK
<1>4. ClearsOwned'
  BY DEF IInv, Watchdog, process, ClearsOwned
<1>5. ClearPending'
  BY DEF IInv, Watchdog, process, ProcessOK, ClearPending
<1>6. ContextOK'
  BY DEF IInv, Watchdog, process, server, ProcessOK, ContextOK
<1>7. ReseedsOK'
  BY DEF IInv, Watchdog, reseed, ReseedsOK
<1>8. SummaryNotLost'
  BY DEF IInv, Watchdog, reseed, ReseedsOK, SummaryNotLost, Kept
<1> QED BY <1>1, <1>2, <1>3, <1>4, <1>5, <1>6, <1>7, <1>8 DEF IInv

LEMMA PromptKeeps ==
  ASSUME IInv, Prompt
  PROVE  IInv'
<1>0. Plain("prompt") \in Message /\ Plain("prompt").kind # "clear"
  BY RenewalAssumption DEF Plain, Message, Kinds, Renewals
<1>1. TypeOK'
  <2>1. QueueTyped'
    BY <1>0 DEF IInv, Prompt, Send, TypeOK, QueueTyped
  <2>2. ContextTyped'
    BY DEF IInv, Prompt, entry, TypeOK, ContextTyped
  <2>3. FlagsTyped'
    BY RenewalAssumption DEF IInv, Prompt, Alive, Event, windows, entry, reseed, Firing, Send,
       TypeOK, NoTurn, FlagsTyped
  <2>4. HistoryTyped'
    BY DEF IInv, Prompt, entry, reseed, TypeOK, HistoryTyped
  <2>5. ReseedsTyped'
    BY DEF IInv, Prompt, entry, reseed, TypeOK, ReseedsTyped
  <2>6. StagesTyped'
    BY RenewalAssumption DEF IInv, Prompt, Event, windows, entry, Send, TypeOK, StagesTyped
  <2> QED BY <2>1, <2>2, <2>3, <2>4, <2>5, <2>6 DEF TypeOK, QueueTyped, ContextTyped, FlagsTyped,
     HistoryTyped, ReseedsTyped, StagesTyped
<1>2. WindowsOK'
  BY DEF IInv, Prompt, windows, entry, Firing, WindowsOK
<1>3. ProcessOK'
  BY DEF Prompt, Alive, Send, ProcessOK
<1>4. ClearsOwned'
  <2>1. CASE Send(Plain("prompt"))
    BY <1>0, Sent DEF IInv, Prompt, Event, windows, entry, Firing, Send, ClearsOwned
  <2>2. CASE UNCHANGED stdin
    BY <1>0, Sent DEF IInv, Prompt, Alive, Event, entry, reseed, Firing, Send, ClearsOwned
  <2> QED BY <2>1, <2>2 DEF Prompt, Alive, Event, windows, entry, reseed, Firing
<1>5. ClearPending'
  <2>1. CASE Send(Plain("prompt"))
    BY <2>1, <1>0 DEF IInv, Prompt, entry, Send, ClearPending
  <2>2. CASE UNCHANGED stdin
    BY <2>2 DEF IInv, Prompt, entry, ClearPending
  <2> QED BY <2>1, <2>2 DEF Prompt, Alive, Event, windows, entry, reseed, Firing
<1>6. ContextOK'
  BY DEF IInv, Prompt, entry, ContextOK
<1>7. ReseedsOK'
  BY DEF IInv, Prompt, Alive, windows, entry, reseed, Send, ReseedsOK
<1>8. SummaryNotLost'
  BY DEF IInv, Prompt, entry, reseed, SummaryNotLost, Kept
<1> QED BY <1>1, <1>2, <1>3, <1>4, <1>5, <1>6, <1>7, <1>8 DEF IInv

LEMMA QueueFlushedKeeps ==
  ASSUME IInv, QueueFlushed
  PROVE  IInv'
<1>0. Plain("prompt") \in Message /\ Plain("prompt").kind # "clear"
  BY RenewalAssumption DEF Plain, Message, Kinds, Renewals
<1>1. TypeOK'
  <2>1. QueueTyped'
    BY <1>0 DEF IInv, QueueFlushed, Send, TypeOK, QueueTyped
  <2>2. ContextTyped'
    BY DEF IInv, QueueFlushed, entry, TypeOK, ContextTyped
  <2>3. FlagsTyped'
    BY RenewalAssumption DEF IInv, QueueFlushed, Alive, windows, entry, reseed, Firing, Send, TypeOK,
       NoTurn, FlagsTyped
  <2>4. HistoryTyped'
    BY DEF IInv, QueueFlushed, entry, reseed, TypeOK, HistoryTyped
  <2>5. ReseedsTyped'
    BY DEF IInv, QueueFlushed, entry, reseed, TypeOK, ReseedsTyped
  <2>6. StagesTyped'
    BY DEF IInv, QueueFlushed, windows, entry, Send, TypeOK, StagesTyped
  <2> QED BY <2>1, <2>2, <2>3, <2>4, <2>5, <2>6 DEF TypeOK, QueueTyped, ContextTyped, FlagsTyped,
     HistoryTyped, ReseedsTyped, StagesTyped
<1>2. WindowsOK'
  BY DEF IInv, QueueFlushed, windows, entry, Firing, WindowsOK
<1>3. ProcessOK'
  BY DEF QueueFlushed, Alive, Send, ProcessOK
<1>4. ClearsOwned'
  BY <1>0 DEF IInv, QueueFlushed, entry, Send, ClearsOwned
<1>5. ClearPending'
  BY <1>0 DEF IInv, QueueFlushed, entry, Send, ClearPending
<1>6. ContextOK'
  BY DEF IInv, QueueFlushed, entry, ContextOK
<1>7. ReseedsOK'
  BY DEF IInv, QueueFlushed, Alive, windows, entry, reseed, Send, ReseedsOK
<1>8. SummaryNotLost'
  BY DEF IInv, QueueFlushed, entry, reseed, SummaryNotLost, Kept
<1> QED BY <1>1, <1>2, <1>3, <1>4, <1>5, <1>6, <1>7, <1>8 DEF IInv

LEMMA QueueDroppedKeeps ==
  ASSUME IInv, QueueDropped
  PROVE  IInv'
<1>1. TypeOK'
  BY RenewalAssumption DEF IInv, QueueDropped, process, TypeOK, Alive, windows, reseed, Firing, NoTurn
<1>2. WindowsOK'
  BY DEF IInv, QueueDropped, process, windows, Firing, WindowsOK
<1>3. ProcessOK'
  BY DEF QueueDropped, Alive, process, ProcessOK
<1>4. ClearsOwned'
  BY DEF IInv, QueueDropped, process, ClearsOwned
<1>5. ClearPending'
  BY DEF IInv, QueueDropped, process, ClearPending
<1>6. ContextOK'
  BY DEF IInv, QueueDropped, process, ContextOK
<1>7. ReseedsOK'
  BY DEF IInv, QueueDropped, Alive, process, windows, reseed, ReseedsOK
<1>8. SummaryNotLost'
  BY DEF IInv, QueueDropped, reseed, SummaryNotLost, Kept
<1> QED BY <1>1, <1>2, <1>3, <1>4, <1>5, <1>6, <1>7, <1>8 DEF IInv

LEMMA ExitKeeps ==
  ASSUME IInv, Exit
  PROVE  IInv'
<1>0. <<>> \in Seq(Message) /\ Len(<<>>) = 0
  OBVIOUS
<1>1. TypeOK'
  <2>1. QueueTyped'
    BY DEF Exit, CliEnds, QueueTyped
  <2>2. ContextTyped'
    BY DEF IInv, Exit, server, entry, CliEnds, TypeOK, ContextTyped
  <2>3. FlagsTyped'
    BY RenewalAssumption DEF IInv, Exit, Alive, Event, server, windows, entry, Firing, CliEnds,
       TypeOK, NoTurn, FlagsTyped
  <2>4. HistoryTyped'
    BY DEF IInv, Exit, entry, TypeOK, HistoryTyped
  <2>5. ReseedsTyped'
    BY DEF IInv, Exit, entry, TypeOK, ReseedsTyped
  <2>6. StagesTyped'
    BY RenewalAssumption DEF IInv, Exit, Event, windows, entry, TypeOK, StagesTyped
  <2> QED BY <2>1, <2>2, <2>3, <2>4, <2>5, <2>6 DEF TypeOK, QueueTyped, ContextTyped, FlagsTyped,
     HistoryTyped, ReseedsTyped, StagesTyped
<1>2. WindowsOK'
  BY DEF IInv, Exit, windows, entry, Firing, WindowsOK
<1>3. ProcessOK'
  BY DEF Exit, server, CliEnds, ProcessOK
<1>4. ClearsOwned'
  BY DEF Exit, CliEnds, ClearsOwned
<1>5. ClearPending'
  BY DEF Exit, CliEnds, ClearPending
<1>6. ContextOK'
  BY DEF IInv, Exit, server, entry, CliEnds, TypeOK, ContextOK
<1>7. ReseedsOK'
  BY DEF IInv, Exit, entry, ReseedsOK
<1>8. SummaryNotLost'
  BY DEF IInv, Exit, entry, SummaryNotLost, Kept
<1> QED BY <1>1, <1>2, <1>3, <1>4, <1>5, <1>6, <1>7, <1>8 DEF IInv

LEMMA RespawnKeeps ==
  ASSUME IInv, Respawn
  PROVE  IInv'
<1>1. TypeOK'
  BY RenewalAssumption DEF IInv, Respawn, TypeOK, entry, Alive, windows, reseed, Firing, NoTurn
<1>2. WindowsOK'
  BY DEF IInv, Respawn, windows, entry, Firing, WindowsOK
<1>3. ProcessOK'
  BY DEF Respawn, Alive, ProcessOK
<1>4. ClearsOwned'
  BY DEF IInv, Respawn, entry, ClearsOwned
<1>5. ClearPending'
  BY DEF IInv, Respawn, entry, ClearPending
<1>6. ContextOK'
  BY DEF IInv, Respawn, entry, ContextOK
<1>7. ReseedsOK'
  BY DEF IInv, Respawn, Alive, entry, reseed, ReseedsOK
<1>8. SummaryNotLost'
  BY DEF IInv, Respawn, entry, reseed, SummaryNotLost, Kept
<1> QED BY <1>1, <1>2, <1>3, <1>4, <1>5, <1>6, <1>7, <1>8 DEF IInv

LEMMA RemoveKeeps ==
  ASSUME IInv, Remove
  PROVE  IInv'
<1>0. <<>> \in Seq(Message) /\ Len(<<>>) = 0
  OBVIOUS
<1>1. TypeOK'
  <2>1. QueueTyped'
    BY DEF Remove, CliEnds, QueueTyped
  <2>2. ContextTyped'
    BY DEF IInv, Remove, server, CliEnds, TypeOK, ContextTyped
  <2>3. FlagsTyped'
    BY RenewalAssumption DEF IInv, Remove, Alive, Event, server, Firing, CliEnds, TypeOK, NoTurn,
       FlagsTyped
  <2>4. HistoryTyped'
    BY DEF IInv, Remove, TypeOK, HistoryTyped
  <2>5. ReseedsTyped'
    BY DEF IInv, Remove, TypeOK, ReseedsTyped
  <2>6. StagesTyped'
    BY RenewalAssumption DEF IInv, Remove, Alive, Event, TypeOK, StagesTyped
  <2> QED BY <2>1, <2>2, <2>3, <2>4, <2>5, <2>6 DEF TypeOK, QueueTyped, ContextTyped, FlagsTyped,
     HistoryTyped, ReseedsTyped, StagesTyped
<1>2. WindowsOK'
  BY DEF Remove, Firing, WindowsOK
<1>3. ProcessOK'
  BY DEF Remove, server, CliEnds, ProcessOK
<1>4. ClearsOwned'
  BY DEF Remove, CliEnds, ClearsOwned
<1>5. ClearPending'
  BY DEF Remove, CliEnds, ClearPending
<1>6. ContextOK'
  BY DEF Remove, server, CliEnds, ContextOK
<1>7. ReseedsOK'
  BY DEF IInv, Remove, ReseedsOK
<1>8. SummaryNotLost'
  BY DEF IInv, Remove, SummaryNotLost, Kept
<1> QED BY <1>1, <1>2, <1>3, <1>4, <1>5, <1>6, <1>7, <1>8 DEF IInv

LEMMA BeginRewriteKeeps ==
  ASSUME IInv, BeginRewrite
  PROVE  IInv'
<1>0. <<>> \in Seq(Message) /\ Len(<<>>) = 0
  OBVIOUS
<1>1. TypeOK'
  <2>1. QueueTyped'
    BY DEF BeginRewrite, CliEnds, QueueTyped
  <2>2. ContextTyped'
    BY DEF IInv, BeginRewrite, server, entry, CliEnds, TypeOK, ContextTyped
  <2>3. FlagsTyped'
    BY RenewalAssumption DEF IInv, BeginRewrite, Alive, Event, server, entry, reseed, Firing,
       CliEnds, KeepsOut, TypeOK, NoTurn, FlagsTyped
  <2>4. HistoryTyped'
    BY DEF IInv, BeginRewrite, entry, reseed, TypeOK, HistoryTyped
  <2>5. ReseedsTyped'
    BY DEF IInv, BeginRewrite, entry, reseed, TypeOK, ReseedsTyped
  <2>6. StagesTyped'
    BY RenewalAssumption DEF IInv, BeginRewrite, Alive, Event, entry, TypeOK, StagesTyped
  <2> QED BY <2>1, <2>2, <2>3, <2>4, <2>5, <2>6 DEF TypeOK, QueueTyped, ContextTyped, FlagsTyped,
     HistoryTyped, ReseedsTyped, StagesTyped
<1>2. WindowsOK'
  BY DEF IInv, BeginRewrite, entry, Firing, KeepsOut, WindowsOK
<1>3. ProcessOK'
  BY DEF BeginRewrite, server, CliEnds, ProcessOK
<1>4. ClearsOwned'
  BY DEF BeginRewrite, CliEnds, ClearsOwned
<1>5. ClearPending'
  BY DEF BeginRewrite, CliEnds, ClearPending
<1>6. ContextOK'
  BY DEF IInv, BeginRewrite, server, entry, CliEnds, TypeOK, ContextOK
<1>7. ReseedsOK'
  BY RenewalAssumption DEF IInv, BeginRewrite, entry, reseed, Firing, KeepsOut, TypeOK, Renewals,
     WindowsOK, ReseedsOK, SummaryNotLost, Kept
<1>8. SummaryNotLost'
  BY DEF IInv, BeginRewrite, entry, reseed, SummaryNotLost, Kept
<1> QED BY <1>1, <1>2, <1>3, <1>4, <1>5, <1>6, <1>7, <1>8 DEF IInv

LEMMA EndRewriteKeeps ==
  ASSUME IInv, EndRewrite
  PROVE  IInv'
<1>1. TypeOK'
  BY RenewalAssumption DEF IInv, EndRewrite, TypeOK, Alive, reseed, Firing, NoTurn
<1>2. WindowsOK'
  BY DEF IInv, EndRewrite, Firing, WindowsOK
<1>3. ProcessOK'
  BY DEF IInv, EndRewrite, Alive, WindowsOK, ProcessOK
<1>4. ClearsOwned'
  BY DEF IInv, EndRewrite, ClearsOwned
<1>5. ClearPending'
  BY DEF IInv, EndRewrite, ClearPending
<1>6. ContextOK'
  BY DEF IInv, EndRewrite, ContextOK
<1>7. ReseedsOK'
  BY DEF IInv, EndRewrite, Alive, reseed, WindowsOK, ReseedsOK
<1>8. SummaryNotLost'
  BY DEF IInv, EndRewrite, reseed, SummaryNotLost, Kept
<1> QED BY <1>1, <1>2, <1>3, <1>4, <1>5, <1>6, <1>7, <1>8 DEF IInv

LEMMA FlushFailsKeeps ==
  ASSUME IInv, NEW k \in Renewals, FlushFails(k)
  PROVE  IInv'
<1>1. TypeOK'
  BY RenewalAssumption DEF IInv, FlushFails, process, TypeOK, server, entry, windows, Alive
<1>2. WindowsOK'
  BY DEF IInv, FlushFails, process, windows, entry, Firing, WindowsOK
<1>3. ProcessOK'
  BY DEF IInv, FlushFails, Alive, process, server, ProcessOK
<1>4. ClearsOwned'
  BY DEF IInv, FlushFails, process, entry, ClearsOwned
<1>5. ClearPending'
  BY DEF IInv, FlushFails, process, entry, ClearPending
<1>6. ContextOK'
  BY DEF IInv, FlushFails, process, server, entry, ContextOK
<1>7. ReseedsOK'
  BY DEF IInv, FlushFails, Alive, process, windows, entry, ReseedsOK
<1>8. SummaryNotLost'
  BY DEF IInv, FlushFails, entry, SummaryNotLost, Kept
<1> QED BY <1>1, <1>2, <1>3, <1>4, <1>5, <1>6, <1>7, <1>8 DEF IInv

LEMMA ReseedKeeps ==
  ASSUME IInv, NEW k \in Renewals, Reseed(k)
  PROVE  IInv'
<1>0. [kind |-> "seed", of |-> k] \in Message /\ [kind |-> "seed", of |-> k].kind # "clear"
  BY RenewalAssumption DEF Plain, Message, Kinds, Renewals
<1>1. TypeOK'
  <2>1. QueueTyped'
    BY <1>0, Sent, RenewalAssumption DEF IInv, Reseed, Alive, entry, Firing, Send, TypeOK, WindowsOK,
       Plain, NoTurn, QueueTyped
  <2>2. ContextTyped'
    BY DEF IInv, Reseed, entry, TypeOK, ContextTyped
  <2>3. FlagsTyped'
    BY RenewalAssumption DEF IInv, Reseed, Alive, entry, Firing, Send, TypeOK, NoTurn, FlagsTyped
  <2>4. HistoryTyped'
    BY <1>0, Sent, RenewalAssumption DEF IInv, Reseed, Alive, entry, Firing, Send, TypeOK,
       ClearsOwned, HistoryTyped
  <2>5. ReseedsTyped'
    BY RenewalAssumption DEF IInv, Reseed, entry, Firing, TypeOK, ReseedsTyped
  <2>6. StagesTyped'
    BY DEF IInv, Reseed, entry, Send, TypeOK, StagesTyped
  <2> QED BY <2>1, <2>2, <2>3, <2>4, <2>5, <2>6 DEF TypeOK, QueueTyped, ContextTyped, FlagsTyped,
     HistoryTyped, ReseedsTyped, StagesTyped
<1>2. WindowsOK'
  BY DEF IInv, Reseed, entry, Firing, TypeOK, WindowsOK
<1>3. ProcessOK'
  BY DEF IInv, Reseed, Alive, Send, ProcessOK
<1>4. ClearsOwned'
  <2>1. CASE Send([kind |-> "seed", of |-> k])
    BY <2>1 DEF IInv, Reseed, entry, Send, ClearsOwned
  <2>2. CASE UNCHANGED stdin
    BY <2>2 DEF IInv, Reseed, entry, ClearsOwned
  <2> QED BY <2>1, <2>2 DEF Reseed, Alive, entry, Firing
<1>5. ClearPending'
  <2>1. CASE Send([kind |-> "seed", of |-> k])
    BY <2>1 DEF IInv, Reseed, entry, Send, ClearPending
  <2>2. CASE UNCHANGED stdin
    BY <2>2 DEF IInv, Reseed, entry, ClearPending
  <2> QED BY <2>1, <2>2 DEF Reseed, Alive, entry, Firing
<1>6. ContextOK'
  BY DEF IInv, Reseed, entry, ContextOK
<1>7. ReseedsOK'
  BY DEF IInv, Reseed, Alive, entry, Send, TypeOK, ReseedsOK
<1>8. SummaryNotLost'
  BY DEF IInv, Reseed, Alive, entry, WindowsOK, ReseedsOK, SummaryNotLost, Kept
<1> QED BY <1>1, <1>2, <1>3, <1>4, <1>5, <1>6, <1>7, <1>8 DEF IInv

-----------------------------------------------------------------------------
(* The invariant. *)

LEMMA InitHolds == Init => IInv
<1> SUFFICES ASSUME Init PROVE IInv
  OBVIOUS
<1>1. TypeOK
  <2>1. stdin \in Seq(Message) /\ turn \in Message \union {NoTurn}
    BY DEF Init
  <2>2. {owed, tasks, notif, queued, renewing, waiting, stranded} \subseteq BOOLEAN
    BY DEF Init
  <2>3. reseeds \in [Renewals -> 0..Attempts] /\ \A k \in Renewals : ~(reseeds[k] > 0)
    BY RenewalAssumption DEF Init
  <2> QED BY <2>1, <2>2, <2>3, RenewalAssumption DEF Init, TypeOK
<1>2. SummaryNotLost /\ ReseedsOK
  BY RenewalAssumption DEF Init, SummaryNotLost, Kept, ReseedsOK, Renewals, Alive
<1> QED
  BY <1>1, <1>2 DEF IInv, Init, WindowsOK, Firing, ProcessOK, Alive, ClearsOwned, ClearPending, ContextOK

LEMMA NextKeeps == IInv /\ [Next]_vars => IInv'
<1> SUFFICES ASSUME IInv, [Next]_vars PROVE IInv'
  OBVIOUS
<1>1. CASE TakeNext
  BY <1>1, TakeNextKeeps
<1>2. CASE OwnTurn
  BY <1>2, OwnTurnKeeps
<1>3. CASE InitSeen
  BY <1>3, InitSeenKeeps
<1>4. CASE TurnEnds
  BY <1>4, TurnEndsKeeps
<1>5. CASE Absorb
  BY <1>5, AbsorbKeeps
<1>6. CASE TaskStarts
  BY <1>6, TaskStartsKeeps
<1>7. CASE TaskEnds
  BY <1>7, TaskEndsKeeps
<1>8. CASE DeliveredInTurn
  BY <1>8, DeliveredInTurnKeeps
<1>9. CASE Arm
  BY <1>9, ArmKeeps
<1>10. CASE Request
  BY <1>10, RequestKeeps
<1>11. CASE Watchdog
  BY <1>11, WatchdogKeeps
<1>12. CASE Prompt
  BY <1>12, PromptKeeps
<1>13. CASE QueueFlushed
  BY <1>13, QueueFlushedKeeps
<1>14. CASE QueueDropped
  BY <1>14, QueueDroppedKeeps
<1>15. CASE Exit
  BY <1>15, ExitKeeps
<1>16. CASE Respawn
  BY <1>16, RespawnKeeps
<1>17. CASE Remove
  BY <1>17, RemoveKeeps
<1>18. CASE BeginRewrite
  BY <1>18, BeginRewriteKeeps
<1>19. CASE EndRewrite
  BY <1>19, EndRewriteKeeps
<1>20. ASSUME NEW k \in Renewals, FlushFails(k) PROVE IInv'
  BY <1>20, FlushFailsKeeps
<1>21. ASSUME NEW k \in Renewals, Reseed(k) PROVE IInv'
  BY <1>21, ReseedKeeps
<1>22. CASE UNCHANGED vars
  BY <1>22 DEF vars, process, server, windows, entry, reseed, IInv, TypeOK, WindowsOK, Firing,
     ProcessOK, Alive, ClearsOwned, ClearPending, ContextOK, ReseedsOK, SummaryNotLost, Kept
<1> QED
  BY <1>1, <1>2, <1>3, <1>4, <1>5, <1>6, <1>7, <1>8, <1>9, <1>10, <1>11, <1>12, <1>13, <1>14, <1>15,
     <1>16, <1>17, <1>18, <1>19, <1>20, <1>21, <1>22 DEF Next, CliSteps, ReseedSteps

LEMMA Invariant == Spec => []IInv
BY InitHolds, NextKeeps, PTL DEF Spec

-----------------------------------------------------------------------------
(* What the runs check, for every value of the constants. *)

\* Every variable keeps its type: no renewal, reseed or summary is of a renewal that was never armed.
THEOREM TypeCorrect == Spec => []TypeOK
<1>1. IInv => TypeOK
  BY DEF IInv
<1> QED BY <1>1, Invariant, PTL

\* Short of the two holes, a summary is sent only into the context it was written for, and a context that
\* was cleared gets its summary (_onTurnEnd's rotation test, and the window that keeps rewrites out).
THEOREM NoSummaryLost == Spec => []SummaryNotLost
<1>1. IInv => SummaryNotLost
  BY DEF IInv
<1> QED BY <1>1, Invariant, PTL

\* The owner's wake is for what the renewed session does, never for the turn that armed the renewal or for
\* the /clear: the rotation window, which the hub asks about, is open from the one to the other.
THEOREM NoEarlyWake == Spec => OwnerNotWokenEarly
<1>1. ASSUME IInv, [Next]_vars, waiting, ~waiting', cli' \in {"idle", "turn"}
      PROVE  pending' \notin {"armed", "clearing"}
  <2> USE <1>1
  <2>1. ~UNCHANGED waiting
    OBVIOUS
  <2>2. CASE TurnEnds
    BY <2>2 DEF TurnEnds, FireClear, Send, ClearDone, IInv, WindowsOK, Firing, TypeOK
  <2>3. CASE TaskEnds
    BY <2>3 DEF TaskEnds, FireClear, Send, IInv, WindowsOK, Firing, TypeOK
  <2>4. CASE Watchdog
    BY <2>4 DEF Watchdog, Abandon
  <2>5. ASSUME NEW k \in Renewals, Reseed(k) PROVE pending' \notin {"armed", "clearing"}
    BY <2>5 DEF Reseed, Send, Alive, entry, IInv, WindowsOK, Firing
  <2>6. CASE Exit \/ Remove
    BY <2>6 DEF Exit, Remove
  <2>7. CASE EndRewrite
    BY <2>7 DEF EndRewrite, IInv, WindowsOK, Firing
  <2>8. CASE TakeNext \/ OwnTurn \/ InitSeen \/ Absorb \/ TaskStarts \/ DeliveredInTurn \/ Arm \/ Request
    BY <2>8, <2>1 DEF TakeNext, OwnTurn, InitSeen, Absorb, TaskStarts, DeliveredInTurn, Arm, Request, Send
  <2>9. CASE Prompt \/ QueueFlushed \/ QueueDropped \/ Respawn \/ BeginRewrite
    BY <2>9, <2>1 DEF Prompt, QueueFlushed, QueueDropped, Respawn, BeginRewrite, Send
  <2>10. ASSUME NEW k \in Renewals, FlushFails(k) PROVE FALSE
    BY <2>10, <2>1 DEF FlushFails
  <2> QED
    BY <2>1, <2>2, <2>3, <2>4, <2>5, <2>6, <2>7, <2>8, <2>9, <2>10 DEF Next, CliSteps, ReseedSteps, vars
<1>2. IInv /\ [Next]_vars
      => [waiting /\ ~waiting' /\ cli' \in {"idle", "turn"} => pending' \notin {"armed", "clearing"}]_vars
  BY <1>1
<1> QED BY <1>2, Invariant, PTL DEF Spec, OwnerNotWokenEarly
=============================================================================
