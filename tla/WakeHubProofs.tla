--------------------------- MODULE WakeHubProofs ---------------------------
(***************************************************************************)
(* Theorems about WakeHub, for any finite set of sessions, any ownership   *)
(* among them, cycles included, and any number of wakes under way.         *)
(***************************************************************************)
EXTENDS WakeHub, SequenceTheorems, FiniteSetTheorems, WellFoundedInduction, TLAPS

-----------------------------------------------------------------------------
(* The inductive invariant *)

\* The hub's types, and what ties two of its maps together.
HubTyped(h) ==
  /\ h \in Hub
  /\ \A s \in Session : h.inFlight[s] <= Len(h.queued[s])
  /\ h.asked \subseteq Asker

Typed ==
  /\ inst \in [Session -> Inst]
  /\ HubTyped(hub)
  /\ owed \in [Session -> SUBSET Session]
  /\ starts \in 0..MaxStarts

\* Nothing is owed to a session that is gone for good.
OwedLive == \A t, c \in Session : c \in owed[t] => ~GoneForGood(inst, c)

\* Wakes stay deferred only behind a running turn or a parked steer.
ParkedAt(i, h, c) ==
  h.deferred[c] # <<>> => i[c].phase = "turn" \/ GoneForGood(i, c) \/ (Idle(i, c) /\ i[c].steered)
Parked(i, h) == \A c \in Session : ParkedAt(i, h, c)

\* A hold is taken between turns, where nothing else defers the target's wake, and a turn drops it.
HoldAt(i, h, x) == x \in h.holding => i[x].phase # "turn" /\ (Idle(i, x) => ~TargetDefers(i, x))
HoldOK(i, h) == \A x \in Session : HoldAt(i, h, x)

\* Sessions that are all held, with owners to tell and no wake on its way to any of them, and that
\* wait only on one another: nothing in S can end the wait of another.
Stuck(i, h, S) ==
  /\ S # {}
  /\ \A y \in S :
       /\ Held(i, h, y) /\ h.armed[y] # {}
       /\ h.queued[y] = <<>> /\ h.deferred[y] = <<>>
       /\ \A t \in Session : y \in h.armed[t] => t \in S

NoStuck == \A S \in SUBSET Session : ~Stuck(inst, hub, S)

IInv == Typed /\ OwedLive /\ WakeNotLost /\ Parked(inst, hub) /\ HoldOK(inst, hub) /\ NoStuck

-----------------------------------------------------------------------------
(* Sequences of wakes *)

\* One wake more.
LEMMA AppendFacts ==
  ASSUME NEW s \in Seq(Wake), NEW w \in Wake
  PROVE  /\ Append(s, w) \in Seq(Wake) /\ Append(s, w) # <<>>
         /\ Len(Append(s, w)) = Len(s) + 1
         /\ Range(Append(s, w)) = Range(s) \union {w}
<1> DEFINE a == Append(s, w)
<1>1. a \in Seq(Wake) /\ Len(a) = Len(s) + 1 /\ DOMAIN a = 1..(Len(s) + 1) /\ Len(s) \in Nat
      /\ DOMAIN s = 1..Len(s)
  OBVIOUS
<1>2. \A k \in 1..(Len(s) + 1) : a[k] = IF k = Len(s) + 1 THEN w ELSE s[k]
  OBVIOUS
<1>3. a # <<>>
  BY <1>1
<1> HIDE DEF a
<1>4. Range(a) \subseteq Range(s) \union {w}
  BY <1>1, <1>2 DEF Range
<1>5. \A x \in Range(s) : x \in Range(a)
  BY <1>1, <1>2 DEF Range
<1>6. w \in Range(a)
  BY <1>1, <1>2 DEF Range
<1> QED BY <1>1, <1>3, <1>4, <1>5, <1>6 DEF a

\* Two sequences of wakes, one after the other.
LEMMA ConcatFacts ==
  ASSUME NEW s \in Seq(Wake), NEW u \in Seq(Wake)
  PROVE  /\ s \o u \in Seq(Wake)
         /\ Len(s \o u) = Len(s) + Len(u)
         /\ Range(s \o u) = Range(s) \union Range(u)
<1> DEFINE a == s \o u
<1>1. a \in Seq(Wake) /\ Len(a) = Len(s) + Len(u) /\ Len(s) \in Nat /\ Len(u) \in Nat
      /\ DOMAIN s = 1..Len(s) /\ DOMAIN u = 1..Len(u) /\ DOMAIN a = 1..(Len(s) + Len(u))
  BY ConcatProperties
<1>2. \A k \in 1..(Len(s) + Len(u)) : a[k] = IF k <= Len(s) THEN s[k] ELSE u[k - Len(s)]
  BY ConcatProperties
<1> HIDE DEF a
<1>3. Range(a) \subseteq Range(s) \union Range(u)
  <2> SUFFICES ASSUME NEW k \in 1..(Len(s) + Len(u)) PROVE a[k] \in Range(s) \union Range(u)
    BY <1>1 DEF Range
  <2>1. CASE k <= Len(s)
    BY <1>1, <1>2, <2>1 DEF Range
  <2>2. CASE ~(k <= Len(s))
    <3>1. k - Len(s) \in 1..Len(u) /\ a[k] = u[k - Len(s)]
      BY <1>1, <1>2, <2>2
    <3> QED BY <1>1, <3>1 DEF Range
  <2> QED BY <2>1, <2>2
<1>4. ASSUME NEW k \in 1..Len(s) PROVE s[k] \in Range(a)
  <2>1. k \in DOMAIN a /\ a[k] = s[k]
    BY <1>1, <1>2
  <2> QED BY <2>1 DEF Range
<1>5. ASSUME NEW k \in 1..Len(u) PROVE u[k] \in Range(a)
  <2>1. Len(s) + k \in DOMAIN a /\ a[Len(s) + k] = u[k]
    BY <1>1, <1>2
  <2> QED BY <2>1 DEF Range
<1>6. Range(s) \subseteq Range(a) /\ Range(u) \subseteq Range(a)
  BY <1>1, <1>4, <1>5 DEF Range
<1> QED BY <1>1, <1>3, <1>6 DEF a

\* One wake less.
LEMMA RemoveAtFacts ==
  ASSUME NEW s \in Seq(Wake), NEW k \in 1..Len(s)
  PROVE  /\ RemoveAt(s, k) \in Seq(Wake)
         /\ Len(RemoveAt(s, k)) = Len(s) - 1
         /\ Range(RemoveAt(s, k)) \subseteq Range(s)
         /\ Range(s) \subseteq Range(RemoveAt(s, k)) \union {s[k]}
<1> DEFINE a == SubSeq(s, 1, k - 1)
           b == SubSeq(s, k + 1, Len(s))
<1>1. Len(s) \in Nat /\ DOMAIN s = 1..Len(s) /\ \A j \in 1..Len(s) : s[j] \in Wake
  OBVIOUS
<1>2. a \in Seq(Wake) /\ Len(a) = k - 1 /\ \A j \in 1..(k - 1) : a[j] = s[j]
  BY <1>1, SubSeqProperties
<1>3. b \in Seq(Wake) /\ Len(b) = Len(s) - k /\ \A j \in 1..(Len(s) - k) : b[j] = s[k + j]
  <2>1. \A j \in (k + 1)..Len(s) : s[j] \in Wake
    BY <1>1
  <2>2. /\ b \in Seq(Wake) /\ Len(b) = IF k + 1 <= Len(s) THEN Len(s) - (k + 1) + 1 ELSE 0
        /\ \A j \in 1..(Len(s) - (k + 1) + 1) : b[j] = s[(k + 1) + j - 1]
    BY <1>1, <2>1, SubSeqProperties
  <2> HIDE DEF b
  <2>3. Len(s) - (k + 1) + 1 = Len(s) - k /\ k \in Nat /\ k <= Len(s)
    BY <1>1
  <2>4. Len(b) = Len(s) - k
    <3>1. CASE k + 1 <= Len(s)
      BY <2>2, <2>3, <3>1
    <3>2. CASE ~(k + 1 <= Len(s))
      <4>1. Len(b) = 0
        <5>1. Len(b) = IF k + 1 <= Len(s) THEN Len(s) - (k + 1) + 1 ELSE 0
          BY <2>2
        <5> QED BY <3>2, <5>1
      <4>2. Len(s) - k = 0
        <5>1. \A m, j \in Nat : j <= m /\ ~(j + 1 <= m) => m - j = 0
          OBVIOUS
        <5>2. Len(s) \in Nat /\ k \in Nat /\ k <= Len(s)
          BY <1>1, <2>3
        <5> QED BY <3>2, <5>1, <5>2
      <4> QED BY <4>1, <4>2
    <3> QED BY <3>1, <3>2
  <2>5. ASSUME NEW j \in 1..(Len(s) - k) PROVE b[j] = s[k + j]
    <3>1. b[j] = s[(k + 1) + j - 1]
      BY <2>2, <2>3
    <3>2. (k + 1) + j - 1 = k + j
      BY <1>1, <2>3
    <3> QED BY <3>1, <3>2
  <2> QED BY <2>2, <2>4, <2>5
<1> HIDE DEF a, b
<1>4. DOMAIN a = 1..(k - 1) /\ DOMAIN b = 1..(Len(s) - k)
  BY <1>1, <1>2, <1>3
<1>5. RemoveAt(s, k) = a \o b
  BY DEF RemoveAt, a, b
<1>6. /\ a \o b \in Seq(Wake) /\ Len(a \o b) = Len(a) + Len(b)
      /\ Range(a \o b) = Range(a) \union Range(b)
  BY <1>2, <1>3, ConcatFacts
<1>7. Range(a) \subseteq Range(s) /\ Range(b) \subseteq Range(s)
  <2>1. \A j \in 1..(k - 1) : s[j] \in Range(s)
    BY <1>1 DEF Range
  <2>2. ASSUME NEW j \in 1..(Len(s) - k) PROVE s[k + j] \in Range(s)
    <3>1. k + j \in 1..Len(s)
      BY <1>1
    <3> QED BY <1>1, <3>1 DEF Range
  <2>3. \A j \in DOMAIN a : a[j] \in Range(s)
    BY <1>2, <1>4, <2>1
  <2>4. \A j \in DOMAIN b : b[j] \in Range(s)
    BY <1>3, <1>4, <2>2
  <2>5. Range(a) = {a[j] : j \in DOMAIN a} /\ Range(b) = {b[j] : j \in DOMAIN b}
    BY DEF Range
  <2> QED BY <2>3, <2>4, <2>5
<1>8. ASSUME NEW j \in 1..Len(s), j # k PROVE s[j] \in Range(a) \union Range(b)
  <2>1. CASE j < k
    <3>1. j \in DOMAIN a /\ a[j] = s[j]
      BY <1>2, <1>4, <2>1
    <3> QED BY <3>1 DEF Range
  <2>2. CASE j > k
    <3>1. j - k \in DOMAIN b /\ b[j - k] = s[j]
      BY <1>1, <1>3, <1>4, <2>2
    <3> QED BY <3>1 DEF Range
  <2> QED BY <1>1, <1>8, <2>1, <2>2
<1>9. Range(s) \subseteq Range(a) \union Range(b) \union {s[k]}
  BY <1>1, <1>8 DEF Range
<1> QED BY <1>1, <1>2, <1>3, <1>5, <1>6, <1>7, <1>9

-----------------------------------------------------------------------------
(* Delivering keeps the hub sound.  i is a map of instances, h and g are hubs, h before and g after. *)

Done(t) == [of |-> t, kind |-> "finished"]

\* What every part of a handler keeps of the hub: expected reports, wakes deferred for a reason,
\* holds that are due, no new stuck set; and what it may queue.
Keeps(i, h, g) ==
  /\ HubTyped(g)
  /\ \A c, t \in Session : Proc(i, c) /\ Expects(i, h, c, t) => Expects(i, g, c, t)
  /\ \A c, t \in Session :
       Done(t) \in WakesFor(g, c) /\ Done(t) \notin WakesFor(h, c) => Idle(i, t) /\ ~TargetDefers(i, t)
  /\ \A c \in Session : ParkedAt(i, h, c) => ParkedAt(i, g, c)
  /\ \A x \in Session : HoldAt(i, h, x) => HoldAt(i, g, x)
  /\ \A S \in SUBSET Session : Stuck(i, g, S) => Stuck(i, h, S)

\* A part that does nothing keeps it.
LEMMA KeepsSelf == ASSUME NEW i, NEW h, HubTyped(h) PROVE Keeps(i, h, h)
BY DEF Keeps

\* So do two parts, one after the other.
LEMMA KeepsTrans ==
  ASSUME NEW i, NEW f, NEW g, NEW h, Keeps(i, f, g), Keeps(i, g, h)
  PROVE  Keeps(i, f, h)
<1>1. ASSUME NEW c \in Session, NEW t \in Session, Done(t) \in WakesFor(h, c), Done(t) \notin WakesFor(f, c)
      PROVE  Idle(i, t) /\ ~TargetDefers(i, t)
  BY <1>1 DEF Keeps
<1> QED BY <1>1 DEF Keeps

\* The types of the hub's maps.
LEMMA HubFields ==
  ASSUME NEW h, h \in Hub
  PROVE  /\ h.armed \in [Session -> SUBSET Session] /\ h.owners \in [Session -> SUBSET Session]
         /\ h.holding \subseteq Session /\ h.asked \subseteq Session
         /\ h.deferred \in [Session -> Seq(Wake)] /\ h.inFlight \in [Session -> Nat]
         /\ h.queued \in [Session -> Seq(Wake)] /\ h.settle \in [Session -> {"none", "armed", "void"}]
BY DEF Hub

\* deliver(): it touches the wakes of its recipients only.
LEMMA DeliverShape ==
  ASSUME NEW i, NEW h, HubTyped(h), NEW C \in SUBSET Session, NEW w \in Wake
  PROVE  /\ HubTyped(DeliverAll(i, h, C, w))
         /\ DeliverAll(i, h, C, w).armed = h.armed /\ DeliverAll(i, h, C, w).owners = h.owners
         /\ DeliverAll(i, h, C, w).holding = h.holding /\ DeliverAll(i, h, C, w).asked = h.asked
         /\ DeliverAll(i, h, C, w).settle = h.settle
         /\ \A c \in Session :
              /\ DeliverAll(i, h, C, w).deferred[c] =
                   IF c \in C /\ Proc(i, c) /\ Waits(i, c) THEN Append(h.deferred[c], w) ELSE h.deferred[c]
              /\ DeliverAll(i, h, C, w).queued[c] =
                   IF c \in C /\ Proc(i, c) /\ ~Waits(i, c) THEN Append(h.queued[c], w) ELSE h.queued[c]
<1> DEFINE later == {c \in C : Proc(i, c) /\ Waits(i, c)}
           now == {c \in C : Proc(i, c) /\ ~Waits(i, c)}
           d == [c \in Session |-> IF c \in later THEN Append(h.deferred[c], w) ELSE h.deferred[c]]
           n == [c \in Session |-> IF c \in now THEN h.inFlight[c] + 1 ELSE h.inFlight[c]]
           q == [c \in Session |-> IF c \in now THEN Append(h.queued[c], w) ELSE h.queued[c]]
           g == [h EXCEPT !.deferred = d, !.inFlight = n, !.queued = q]
<1>1. h \in Hub /\ \A s \in Session : h.inFlight[s] <= Len(h.queued[s])
  BY DEF HubTyped
<1>2. /\ \A c \in Session : h.deferred[c] \in Seq(Wake) /\ h.queued[c] \in Seq(Wake) /\ h.inFlight[c] \in Nat
  BY <1>1, HubFields
<1>3. DeliverAll(i, h, C, w) = g
  BY DEF DeliverAll
<1>4. d \in [Session -> Seq(Wake)] /\ q \in [Session -> Seq(Wake)] /\ n \in [Session -> Nat]
  BY <1>2, AppendFacts
<1>5. \A s \in Session : n[s] <= Len(q[s])
  <2> SUFFICES ASSUME NEW s \in Session PROVE n[s] <= Len(q[s])
    OBVIOUS
  <2>1. CASE s \in now
    BY <1>1, <1>2, <2>1, AppendFacts
  <2>2. CASE s \notin now
    BY <1>1, <2>2
  <2> QED BY <2>1, <2>2
<1>6. \A s \in Session : /\ d[s] = IF s \in C /\ Proc(i, s) /\ Waits(i, s) THEN Append(h.deferred[s], w) ELSE h.deferred[s]
                         /\ q[s] = IF s \in C /\ Proc(i, s) /\ ~Waits(i, s) THEN Append(h.queued[s], w) ELSE h.queued[s]
  OBVIOUS
<1> HIDE DEF d, n, q, later, now
<1>7. g \in Hub
  BY <1>1, <1>4 DEF Hub
<1>8. /\ g.armed = h.armed /\ g.owners = h.owners /\ g.holding = h.holding /\ g.asked = h.asked
      /\ g.settle = h.settle /\ g.deferred = d /\ g.inFlight = n /\ g.queued = q
  BY <1>1 DEF Hub
<1>9. HubTyped(g)
  BY <1>1, <1>5, <1>7, <1>8 DEF HubTyped
<1> QED BY <1>3, <1>6, <1>8, <1>9

\* It changes no entry and no hold.
LEMMA DeliverArmed ==
  ASSUME NEW i, NEW h, HubTyped(h), NEW C \in SUBSET Session, NEW w \in Wake
  PROVE  DeliverAll(i, h, C, w).armed = h.armed /\ DeliverAll(i, h, C, w).holding = h.holding
<1>1. PICK d, n, q : DeliverAll(i, h, C, w) = [h EXCEPT !.deferred = d, !.inFlight = n, !.queued = q]
  BY DEF DeliverAll
<1> QED BY <1>1 DEF HubTyped, Hub

\* g is h with w under way to every recipient in C that has a process.
Underway(i, h, g, C, w) ==
  \A c \in Session :
    /\ WakesFor(g, c) = IF c \in C /\ Proc(i, c) THEN WakesFor(h, c) \union {w} ELSE WakesFor(h, c)
    /\ g.queued[c] = <<>> /\ g.deferred[c] = <<>> =>
         ~(c \in C /\ Proc(i, c)) /\ h.queued[c] = <<>> /\ h.deferred[c] = <<>>

\* Every recipient with a process has the wake under way; nobody loses one.
LEMMA DeliverWakes ==
  ASSUME NEW i, NEW h, HubTyped(h), NEW C \in SUBSET Session, NEW w \in Wake
  PROVE  Underway(i, h, DeliverAll(i, h, C, w), C, w)
<1> SUFFICES ASSUME NEW c \in Session
             PROVE  /\ WakesFor(DeliverAll(i, h, C, w), c) =
                         IF c \in C /\ Proc(i, c) THEN WakesFor(h, c) \union {w} ELSE WakesFor(h, c)
                    /\ DeliverAll(i, h, C, w).queued[c] = <<>> /\ DeliverAll(i, h, C, w).deferred[c] = <<>> =>
                         ~(c \in C /\ Proc(i, c)) /\ h.queued[c] = <<>> /\ h.deferred[c] = <<>>
  BY DEF Underway
<1> DEFINE g == DeliverAll(i, h, C, w)
<1>1. /\ g.deferred[c] = IF c \in C /\ Proc(i, c) /\ Waits(i, c) THEN Append(h.deferred[c], w) ELSE h.deferred[c]
      /\ g.queued[c] = IF c \in C /\ Proc(i, c) /\ ~Waits(i, c) THEN Append(h.queued[c], w) ELSE h.queued[c]
  BY DeliverShape
<1>2. h.deferred[c] \in Seq(Wake) /\ h.queued[c] \in Seq(Wake)
  BY HubFields DEF HubTyped
<1>3. /\ Range(Append(h.deferred[c], w)) = Range(h.deferred[c]) \union {w}
      /\ Range(Append(h.queued[c], w)) = Range(h.queued[c]) \union {w}
      /\ Append(h.deferred[c], w) # <<>> /\ Append(h.queued[c], w) # <<>>
  BY <1>2, AppendFacts
<1> HIDE DEF g
<1>4. CASE c \in C /\ Proc(i, c)
  <2>1. CASE Waits(i, c)
    BY <1>1, <1>3, <1>4, <2>1 DEF WakesFor, g
  <2>2. CASE ~Waits(i, c)
    BY <1>1, <1>3, <1>4, <2>2 DEF WakesFor, g
  <2> QED BY <2>1, <2>2
<1>5. CASE ~(c \in C /\ Proc(i, c))
  BY <1>1, <1>5 DEF WakesFor, g
<1> QED BY <1>4, <1>5

\* D is h without the entries of C on t, and perhaps without the hold of a target nobody awaits.
Stripped(h, D, t, C) ==
  /\ HubTyped(D)
  /\ D.armed[t] = h.armed[t] \ C /\ \A u \in Session \ {t} : D.armed[u] = h.armed[u]
  /\ D.deferred = h.deferred /\ D.queued = h.queued
  /\ D.holding \subseteq h.holding
  /\ \A x \in h.holding : x \in D.holding \/ (x = t /\ D.armed[t] = {})

\* Owners whose entries are spent on a report of t: nothing is lost, and whoever is told is no
\* longer stuck.
LEMMA Told ==
  ASSUME NEW i, NEW h, NEW D, NEW t \in Session, NEW C, C \subseteq h.armed[t], NEW w \in Wake,
         HubTyped(h), Stripped(h, D, t, C), Reports(i, w, t),
         w.kind = "finished" => Idle(i, t) /\ ~TargetDefers(i, t)
  PROVE  Keeps(i, h, DeliverAll(i, D, C, w))
<1> DEFINE g == DeliverAll(i, D, C, w)
<1>1. C \in SUBSET Session /\ HubTyped(D)
  <2>1. h.armed[t] \subseteq Session
    BY HubFields DEF HubTyped
  <2>2. \A c \in C : c \in Session
    BY <2>1
  <2> QED BY <2>2 DEF Stripped
<1>2. HubTyped(g) /\ g.armed = D.armed /\ g.holding = D.holding
  <2>1. HubTyped(g)
    BY <1>1, DeliverShape
  <2> QED BY <1>1, <2>1, DeliverArmed
<1>3. \A c \in Session :
        /\ WakesFor(g, c) = IF c \in C /\ Proc(i, c) THEN WakesFor(D, c) \union {w} ELSE WakesFor(D, c)
        /\ g.queued[c] = <<>> /\ g.deferred[c] = <<>> =>
             ~(c \in C /\ Proc(i, c)) /\ D.queued[c] = <<>> /\ D.deferred[c] = <<>>
  <2>1. Underway(i, D, g, C, w)
    BY <1>1, DeliverWakes
  <2> HIDE DEF g
  <2> QED BY <2>1 DEF Underway
<1>4. \A c \in Session : g.deferred[c] = h.deferred[c] \/ i[c].phase = "turn"
  BY <1>1, DeliverShape DEF Stripped, Waits
<1>5. \A c \in Session : WakesFor(D, c) = WakesFor(h, c)
  BY DEF WakesFor, Stripped
<1> HIDE DEF g
<1>6. ASSUME NEW c \in Session, NEW u \in Session, Proc(i, c), Expects(i, h, c, u) PROVE Expects(i, g, c, u)
  <2>1. CASE c \in h.armed[u]
    <3>1. CASE u = t /\ c \in C
      BY <1>3, <1>6, <3>1 DEF Expects
    <3>2. CASE ~(u = t /\ c \in C)
      BY <1>2, <2>1, <3>2 DEF Expects, Stripped
    <3> QED BY <3>1, <3>2
  <2>2. CASE \E x \in WakesFor(h, c) : Reports(i, x, u)
    BY <1>3, <1>5, <2>2 DEF Expects
  <2> QED BY <1>6, <2>1, <2>2 DEF Expects
<1>7. ASSUME NEW c \in Session, NEW u \in Session, Done(u) \in WakesFor(g, c), Done(u) \notin WakesFor(h, c)
      PROVE  Idle(i, u) /\ ~TargetDefers(i, u)
  <2>1. Done(u) = w
    BY <1>3, <1>5, <1>7
  <2> QED BY <2>1 DEF Done, Reports
<1>8. ASSUME NEW c \in Session, ParkedAt(i, h, c) PROVE ParkedAt(i, g, c)
  BY <1>4, <1>8 DEF ParkedAt
<1>9. ASSUME NEW x \in Session, HoldAt(i, h, x) PROVE HoldAt(i, g, x)
  BY <1>2, <1>9 DEF HoldAt, Stripped
<1>10. ASSUME NEW S \in SUBSET Session, Stuck(i, g, S) PROVE Stuck(i, h, S)
  <2>1. S # {}
    BY <1>10 DEF Stuck
  <2> SUFFICES ASSUME NEW y \in S
               PROVE  /\ Held(i, h, y) /\ h.armed[y] # {}
                      /\ h.queued[y] = <<>> /\ h.deferred[y] = <<>>
                      /\ \A u \in Session : y \in h.armed[u] => u \in S
    BY <2>1 DEF Stuck
  <2>2. /\ Held(i, g, y) /\ g.armed[y] # {} /\ g.queued[y] = <<>> /\ g.deferred[y] = <<>>
        /\ \A u \in Session : y \in g.armed[u] => u \in S
    BY <1>10 DEF Stuck
  <2>3. Held(i, h, y) /\ Proc(i, y)
    BY <1>2, <2>2 DEF Held, Idle, Proc, Stripped
  <2>4. h.armed[y] # {}
    BY <1>2, <2>2 DEF Stripped
  <2>5. h.queued[y] = <<>> /\ h.deferred[y] = <<>> /\ y \notin C
    BY <1>3, <2>2, <2>3 DEF Stripped
  <2>6. ASSUME NEW u \in Session, y \in h.armed[u] PROVE u \in S
    BY <1>2, <2>2, <2>5, <2>6 DEF Stripped
  <2> QED BY <2>3, <2>4, <2>5, <2>6
<1>11. Keeps(i, h, g)
  BY <1>2, <1>6, <1>7, <1>8, <1>9, <1>10 DEF Keeps
<1> QED BY <1>11 DEF g

\* Disarming t strips the hub so.
LEMMA Disarms ==
  ASSUME NEW h, HubTyped(h), NEW t \in Session
  PROVE  /\ Stripped(h, Disarmed(h, t), t, h.armed[t])
         /\ Disarmed(h, t).armed[t] = {}
<1> DEFINE D == Disarmed(h, t)
<1>1. h \in Hub
  BY DEF HubTyped
<1>2. /\ D \in Hub
      /\ D.armed = [h.armed EXCEPT ![t] = {}] /\ D.holding = h.holding \ {t}
      /\ D.deferred = h.deferred /\ D.queued = h.queued /\ D.inFlight = h.inFlight /\ D.asked = h.asked
  BY <1>1 DEF Hub, Disarmed
<1>3. HubTyped(D)
  BY <1>2 DEF HubTyped
<1> HIDE DEF D
<1>4. h.armed \in [Session -> SUBSET Session]
  BY <1>1, HubFields
<1> QED BY <1>2, <1>3, <1>4 DEF Stripped, D

\* So does dropping one of its entries.
LEMMA DropsArmed ==
  ASSUME NEW h, HubTyped(h), NEW t \in Session, NEW c \in h.armed[t]
  PROVE  Stripped(h, DropArmed(h, t, c), t, {c})
<1>1. CASE h.armed[t] = {c}
  BY <1>1, Disarms DEF DropArmed
<1>2. CASE h.armed[t] # {c}
  <2> DEFINE D == [h EXCEPT !.armed[t] = @ \ {c}]
  <2>1. h \in Hub
    BY DEF HubTyped
  <2>2. /\ D \in Hub
        /\ D.armed = [h.armed EXCEPT ![t] = @ \ {c}] /\ D.holding = h.holding
        /\ D.deferred = h.deferred /\ D.queued = h.queued /\ D.inFlight = h.inFlight /\ D.asked = h.asked
    BY <2>1 DEF Hub
  <2>3. HubTyped(D)
    BY <2>2 DEF HubTyped
  <2>4. DropArmed(h, t, c) = D
    BY <1>2 DEF DropArmed
  <2>5. h.armed \in [Session -> SUBSET Session]
    BY <2>1, HubFields
  <2> HIDE DEF D
  <2> QED BY <2>2, <2>3, <2>4, <2>5 DEF Stripped
<1> QED BY <1>1, <1>2

-----------------------------------------------------------------------------
(* Deciding *)

\* Nobody in a stuck set waits on work: whoever it could wait on is in the set, held as it is.
LEMMA StuckNoWork ==
  ASSUME NEW i, NEW h, HubTyped(h), NEW S \in SUBSET Session, NEW x \in S, Stuck(i, h, S)
  PROVE  ~WaitsOnWork(i, h, x)
<1>1. ASSUME NEW y \in WaitChain(i, h, x) PROVE y \in S
  <2>1. \A z \in S, t \in Session \ {x} : z \in h.armed[t] /\ Held(i, h, t) => t \in S
    BY DEF Stuck
  <2> QED BY <1>1, <2>1 DEF WaitChain
<1>2. ASSUME NEW y \in S
      PROVE  /\ ~(h.inFlight[y] > 0)
             /\ h.deferred[y] = <<>>
             /\ \A t \in Session : y \in h.armed[t] => Held(i, h, t)
  <2>1. h.queued[y] = <<>> /\ h.deferred[y] = <<>> /\ \A t \in Session : y \in h.armed[t] => t \in S
    BY DEF Stuck
  <2>2. \A t \in S : Held(i, h, t)
    BY DEF Stuck
  <2>3. h.inFlight[y] \in Nat /\ h.inFlight[y] <= Len(h.queued[y])
    BY HubFields DEF HubTyped
  <2>4. ~(h.inFlight[y] > 0)
    <3>1. Len(h.queued[y]) = 0
      BY <2>1
    <3> QED BY <2>3, <3>1
  <2> QED BY <2>1, <2>2, <2>4
<1> QED BY <1>1, <1>2 DEF WaitsOnWork

\* Whether x waits on work does not hang on x's own hold.
LEMMA OwnHold ==
  ASSUME NEW i, NEW h, NEW g, NEW x \in Session,
         g.armed = h.armed, g.deferred = h.deferred, g.inFlight = h.inFlight,
         \A t \in Session \ {x} : t \in g.holding <=> t \in h.holding
  PROVE  WaitsOnWork(i, g, x) <=> WaitsOnWork(i, h, x)
<1>1. \A t \in Session \ {x} : Held(i, g, t) <=> Held(i, h, t)
  BY DEF Held
<1>2. WaitChain(i, g, x) = WaitChain(i, h, x)
  <2>1. \A S \in SUBSET Session :
          (\A y \in S, t \in Session \ {x} : y \in g.armed[t] /\ Held(i, g, t) => t \in S)
            <=> (\A y \in S, t \in Session \ {x} : y \in h.armed[t] /\ Held(i, h, t) => t \in S)
    BY <1>1
  <2> QED BY <2>1 DEF WaitChain
<1> QED BY <1>1, <1>2 DEF WaitsOnWork

\* Spending the wakes of a target that is done keeps the hub, and leaves nobody waiting on it.
LEMMA Consumed ==
  ASSUME NEW i, i \in [Session -> Inst], NEW h, HubTyped(h), NEW t \in Session,
         Idle(i, t), ~TargetDefers(i, t)
  PROVE  Keeps(i, h, Consume(i, h, t)) /\ Consume(i, h, t).armed[t] = {}
<1> DEFINE w == [of |-> t, kind |-> IF i[t].aborted THEN "interrupted" ELSE "finished"]
           C == h.armed[t]
           D == Disarmed(h, t)
<1>1. w \in Wake /\ Reports(i, w, t)
  BY DEF Wake, Reports
<1> HIDE DEF w
<1>2. Stripped(h, D, t, C) /\ D.armed[t] = {}
  BY Disarms
<1>3. C \subseteq h.armed[t]
  OBVIOUS
<1>4. C \in SUBSET Session
  BY HubFields DEF HubTyped
<1>5. Consume(i, h, t) = DeliverAll(i, D, C, w)
  BY DEF Consume, w
<1> HIDE DEF C, D
<1>6. HubTyped(D)
  BY <1>2 DEF Stripped
<1>7. Keeps(i, h, DeliverAll(i, D, C, w))
  BY <1>1, <1>2, <1>3, Told
<1>8. DeliverAll(i, D, C, w).armed = D.armed
  BY <1>1, <1>4, <1>6, DeliverArmed
<1> QED BY <1>2, <1>5, <1>7, <1>8

\* A hold taken on a target that waits on work.
LEMMA HoldTaken ==
  ASSUME NEW i, NEW h, HubTyped(h), NEW t \in Session, Idle(i, t), ~TargetDefers(i, t),
         WaitsOnWork(i, h, t)
  PROVE  /\ Keeps(i, h, [h EXCEPT !.holding = @ \union {t}])
         /\ \A S \in SUBSET Session : Stuck(i, [h EXCEPT !.holding = @ \union {t}], S) => t \notin S
<1> DEFINE g == [h EXCEPT !.holding = @ \union {t}]
<1>1. /\ HubTyped(g)
      /\ g.armed = h.armed /\ g.deferred = h.deferred /\ g.inFlight = h.inFlight /\ g.queued = h.queued
      /\ g.holding = h.holding \union {t}
  BY DEF HubTyped, Hub
<1> HIDE DEF g
<1>2. WaitsOnWork(i, g, t)
  BY <1>1, OwnHold
<1>3. ASSUME NEW S \in SUBSET Session, Stuck(i, g, S) PROVE t \notin S /\ Stuck(i, h, S)
  <2>1. t \notin S
    BY <1>1, <1>2, <1>3, StuckNoWork
  <2>2. \A y \in S : Held(i, h, y)
    BY <1>1, <1>3, <2>1 DEF Stuck, Held
  <2> QED BY <1>1, <1>3, <2>1, <2>2 DEF Stuck
<1>4. \A c \in Session : WakesFor(g, c) = WakesFor(h, c)
  BY <1>1 DEF WakesFor
<1>5. \A c, u \in Session : Expects(i, h, c, u) => Expects(i, g, c, u)
  BY <1>1, <1>4 DEF Expects
<1>6. \A c \in Session : ParkedAt(i, h, c) => ParkedAt(i, g, c)
  BY <1>1 DEF ParkedAt
<1>7. \A x \in Session : HoldAt(i, h, x) => HoldAt(i, g, x)
  <2>1. i[t].phase # "turn"
    BY DEF Idle
  <2> QED BY <1>1, <2>1 DEF HoldAt
<1>8. Keeps(i, h, g)
  BY <1>1, <1>3, <1>4, <1>5, <1>6, <1>7 DEF Keeps
<1> QED BY <1>3, <1>8 DEF g

\* A decision on a target that is done keeps the hub, and the target is in no stuck set after it.
LEMMA Decided ==
  ASSUME NEW i, i \in [Session -> Inst], NEW h, HubTyped(h), NEW t \in Session,
         Idle(i, t), ~TargetDefers(i, t)
  PROVE  /\ Keeps(i, h, Decide(i, h, t))
         /\ \A S \in SUBSET Session : Stuck(i, Decide(i, h, t), S) => t \notin S
<1>1. CASE h.armed[t] = {}
  <2>1. Decide(i, h, t) = h
    BY <1>1 DEF Decide
  <2> QED BY <1>1, <2>1, KeepsSelf DEF Stuck
<1>2. CASE h.armed[t] # {} /\ Holds(i, h, t)
  <2>1. Decide(i, h, t) = [h EXCEPT !.holding = @ \union {t}]
    BY <1>2 DEF Decide
  <2>2. WaitsOnWork(i, h, t)
    BY <1>2 DEF Holds
  <2> QED BY <2>1, <2>2, HoldTaken
<1>3. CASE h.armed[t] # {} /\ ~Holds(i, h, t)
  <2>1. Decide(i, h, t) = Consume(i, h, t)
    BY <1>3 DEF Decide
  <2> QED BY <2>1, Consumed DEF Stuck
<1> QED BY <1>1, <1>2, <1>3

\* _releaseHeld keeps the hub, and x is in no stuck set after it.
LEMMA Released ==
  ASSUME NEW i, i \in [Session -> Inst], NEW h, HubTyped(h), NEW x \in Session
  PROVE  /\ Keeps(i, h, ReleaseHeld(i, h, x))
         /\ \A S \in SUBSET Session : Stuck(i, ReleaseHeld(i, h, x), S) => x \notin S
<1>1. CASE x \in h.holding /\ Idle(i, x) /\ ~TargetDefers(i, x)
  <2>1. ReleaseHeld(i, h, x) = Decide(i, h, x)
    BY <1>1 DEF ReleaseHeld
  <2> QED BY <1>1, <2>1, Decided
<1>2. CASE ~(x \in h.holding /\ Idle(i, x) /\ ~TargetDefers(i, x))
  <2>1. ReleaseHeld(i, h, x) = h
    BY <1>2 DEF ReleaseHeld
  <2> QED BY <1>2, <2>1, KeepsSelf DEF Stuck, Held
<1> QED BY <1>1, <1>2

\* A prune's decision point: the relaunched target comes up done.
LEMMA RotationCompleted ==
  ASSUME NEW i, i \in [Session -> Inst], NEW h, HubTyped(h), NEW t \in Session,
         Idle(i, t), ~TargetDefers(i, t)
  PROVE  /\ Keeps(i, h, OnRotationComplete(i, h, t))
         /\ \A S \in SUBSET Session : Stuck(i, OnRotationComplete(i, h, t), S) => t \notin S
<1>1. CASE Holds(i, h, t)
  <2>1. OnRotationComplete(i, h, t) = [h EXCEPT !.holding = @ \union {t}]
    BY <1>1 DEF OnRotationComplete
  <2>2. WaitsOnWork(i, h, t)
    BY <1>1 DEF Holds
  <2> QED BY <2>1, <2>2, HoldTaken
<1>2. CASE ~Holds(i, h, t) /\ h.armed[t] = {}
  <2>1. OnRotationComplete(i, h, t) = h
    BY <1>2 DEF OnRotationComplete
  <2> QED BY <1>2, <2>1, KeepsSelf DEF Stuck
<1>3. CASE ~Holds(i, h, t) /\ h.armed[t] # {}
  <2>1. OnRotationComplete(i, h, t) = Consume(i, h, t)
    BY <1>3 DEF OnRotationComplete
  <2> QED BY <2>1, Consumed DEF Stuck
<1> QED BY <1>1, <1>2, <1>3

\* Flushing keeps the hub, and leaves c nothing deferred without a reason.
LEMMA Flushed ==
  ASSUME NEW i, NEW h, HubTyped(h), NEW c \in Session, i[c].phase # "turn"
  PROVE  Keeps(i, h, FlushDeferred(i, h, c)) /\ ParkedAt(i, FlushDeferred(i, h, c), c)
<1>1. CASE h.deferred[c] = <<>> \/ (Proc(i, c) /\ i[c].steered)
  <2>1. ParkedAt(i, h, c)
    BY <1>1 DEF ParkedAt, Proc, Idle
  <2>2. FlushDeferred(i, h, c) = h
    BY <1>1 DEF FlushDeferred
  <2> QED BY <2>1, <2>2, KeepsSelf
<1>2. CASE h.deferred[c] # <<>> /\ ~(Proc(i, c) /\ i[c].steered)
  <2> DEFINE g == FlushDeferred(i, h, c)
             ws == h.deferred[c]
             emptied == [h EXCEPT !.deferred[c] = <<>>]
             aged == [k \in 1..Len(ws) |-> Aged(i, ws[k])]
  <2>1. /\ HubTyped(g)
        /\ g.armed = h.armed /\ g.holding = h.holding
        /\ g.deferred = [h.deferred EXCEPT ![c] = <<>>]
        /\ \A u \in Session \ {c} : g.queued[u] = h.queued[u]
        /\ Proc(i, c) =>
             /\ g.queued[c] # <<>>
             /\ \A w \in WakesFor(h, c) : w \in WakesFor(g, c) \/ Aged(i, w) \in WakesFor(g, c)
             /\ \A w \in WakesFor(g, c) : w \in WakesFor(h, c) \/ \E x \in WakesFor(h, c) : w = Aged(i, x)
    <3>1. h \in Hub /\ ws \in Seq(Wake) /\ h.queued[c] \in Seq(Wake) /\ h.inFlight[c] \in Nat
      BY HubFields DEF HubTyped
    <3>2. ws # <<>> /\ ~(Proc(i, c) /\ i[c].steered)
      BY <1>2
    <3>3. CASE ~Proc(i, c)
      <4>1. g = emptied
        BY <3>2, <3>3 DEF FlushDeferred
      <4>2. /\ emptied.armed = h.armed /\ emptied.holding = h.holding /\ emptied.queued = h.queued
            /\ emptied.inFlight = h.inFlight /\ emptied.asked = h.asked
            /\ emptied.deferred = [h.deferred EXCEPT ![c] = <<>>]
        BY <3>1 DEF Hub
      <4>3. <<>> \in Seq(Wake)
        OBVIOUS
      <4>4. emptied \in Hub
        BY <3>1, <4>3 DEF Hub
      <4>5. HubTyped(emptied)
        BY <4>2, <4>4 DEF HubTyped
      <4> HIDE DEF emptied, g
      <4> QED BY <3>3, <4>1, <4>2, <4>5
    <3>4. CASE Proc(i, c)
      <4>1. g = [emptied EXCEPT !.inFlight[c] = @ + Len(aged), !.queued[c] = @ \o aged]
        BY <3>2, <3>4 DEF FlushDeferred
      <4>2. \A w \in Wake : Aged(i, w) \in Wake
        BY DEF Aged, Wake
      <4>3. Len(ws) \in Nat /\ Len(ws) # 0 /\ \A k \in 1..Len(ws) : ws[k] \in Wake
        BY <3>1, <3>2
      <4>4. aged \in Seq(Wake) /\ Len(aged) = Len(ws)
        BY <4>2, <4>3
      <4>5. Range(ws) = {ws[k] : k \in 1..Len(ws)} /\ Range(aged) = {Aged(i, ws[k]) : k \in 1..Len(ws)}
        <5>1. DOMAIN ws = 1..Len(ws) /\ DOMAIN aged = 1..Len(ws)
          BY <3>1, <4>3
        <5> QED BY <5>1 DEF Range
      <4> HIDE DEF aged, g
      <4> DEFINE q == h.queued[c] \o aged
                 n == h.inFlight[c] + Len(ws)
      <4>6. /\ q \in Seq(Wake) /\ Len(q) = Len(h.queued[c]) + Len(ws)
            /\ Range(q) = Range(h.queued[c]) \union Range(aged)
        BY <3>1, <4>4, ConcatFacts
      <4>7. n \in Nat
        BY <3>1, <4>3
      <4>8. g = [h EXCEPT !.deferred = [@ EXCEPT ![c] = <<>>], !.inFlight = [@ EXCEPT ![c] = n],
                          !.queued = [@ EXCEPT ![c] = q]]
        BY <3>1, <4>1, <4>4 DEF Hub
      <4>9. h.inFlight[c] <= Len(h.queued[c]) /\ \A s \in Session : h.inFlight[s] <= Len(h.queued[s])
        BY DEF HubTyped
      <4>10. n <= Len(q) /\ Len(q) # 0
        <5>1. Len(h.queued[c]) \in Nat
          BY <3>1
        <5>2. n = h.inFlight[c] + Len(ws) /\ Len(q) = Len(h.queued[c]) + Len(ws)
          BY <4>6
        <5> HIDE DEF q, n, ws
        <5> QED BY <3>1, <4>3, <4>9, <5>1, <5>2
      <4> HIDE DEF n, q
      <4>11. <<>> \in Seq(Wake)
        OBVIOUS
      <4>12. /\ g \in Hub
             /\ g.armed = h.armed /\ g.holding = h.holding /\ g.asked = h.asked
             /\ g.deferred = [h.deferred EXCEPT ![c] = <<>>]
             /\ g.queued = [h.queued EXCEPT ![c] = q] /\ g.inFlight = [h.inFlight EXCEPT ![c] = n]
        BY <3>1, <4>6, <4>7, <4>8, <4>11 DEF Hub
      <4>13. /\ h.queued \in [Session -> Seq(Wake)] /\ h.inFlight \in [Session -> Nat]
             /\ h.deferred \in [Session -> Seq(Wake)]
        BY <3>1, HubFields
      <4>14. HubTyped(g)
        <5>1. \A s \in Session : g.inFlight[s] <= Len(g.queued[s])
          BY <4>9, <4>10, <4>12, <4>13
        <5> QED BY <4>12, <5>1 DEF HubTyped
      <4>15. g.queued[c] = q /\ g.deferred[c] = <<>> /\ q # <<>>
        <5>1. Len(<<>>) = 0
          OBVIOUS
        <5>2. q # <<>>
          BY <4>10, <5>1
        <5>3. g.queued[c] = q
          BY <4>12, <4>13
        <5>4. g.deferred[c] = <<>>
          BY <4>12, <4>13
        <5> QED BY <5>2, <5>3, <5>4
      <4>16. WakesFor(g, c) = Range(h.queued[c]) \union Range(aged)
        <5>1. Range(<<>>) = {}
          BY DEF Range
        <5>2. Range(g.queued[c]) = Range(q) /\ Range(g.deferred[c]) = Range(<<>>)
          BY <4>15
        <5> QED BY <4>6, <5>1, <5>2 DEF WakesFor
      <4>17. WakesFor(h, c) = Range(h.queued[c]) \union Range(ws)
        BY DEF WakesFor
      <4>18. \A w \in WakesFor(h, c) : w \in WakesFor(g, c) \/ Aged(i, w) \in WakesFor(g, c)
        BY <4>5, <4>16, <4>17
      <4>19. \A w \in WakesFor(g, c) : w \in WakesFor(h, c) \/ \E x \in WakesFor(h, c) : w = Aged(i, x)
        BY <4>5, <4>16, <4>17
      <4>20. \A u \in Session \ {c} : g.queued[u] = h.queued[u]
        BY <4>12, <4>13
      <4> QED BY <4>12, <4>14, <4>15, <4>18, <4>19, <4>20
    <3> QED BY <3>3, <3>4
  <2> HIDE DEF g, ws, emptied, aged
  <2>2. h.deferred \in [Session -> Seq(Wake)] /\ h.queued \in [Session -> Seq(Wake)]
        /\ g.queued \in [Session -> Seq(Wake)]
    BY <2>1, HubFields DEF HubTyped
  <2>3. g.deferred[c] = <<>> /\ \A u \in Session \ {c} : g.deferred[u] = h.deferred[u]
    BY <2>1, <2>2
  <2>4. \A u \in Session \ {c} : WakesFor(g, u) = WakesFor(h, u)
    BY <2>1, <2>3 DEF WakesFor
  <2>5. \A w \in WakesFor(h, c) : w \in Wake
    <3>1. \A s \in Seq(Wake) : \A w \in Range(s) : w \in Wake
      BY DEF Range
    <3>2. h.deferred[c] \in Seq(Wake) /\ h.queued[c] \in Seq(Wake)
      BY <2>2
    <3> QED BY <3>1, <3>2 DEF WakesFor
  <2>6. \A w \in Wake, t \in Session : Reports(i, w, t) => Reports(i, Aged(i, w), t)
    BY DEF Reports, Aged, Wake
  <2>7. \A w \in Wake, t \in Session : Done(t) = Aged(i, w) => Done(t) = w
    <3> SUFFICES ASSUME NEW w \in Wake, NEW t \in Session, Done(t) = Aged(i, w) PROVE Done(t) = w
      OBVIOUS
    <3>1. Aged(i, w).kind = "finished"
      BY DEF Done
    <3>2. Aged(i, w) = w
      BY <3>1 DEF Aged, Wake
    <3> QED BY <3>2
  <2>8. ASSUME NEW u \in Session, NEW t \in Session, Proc(i, u), Expects(i, h, u, t)
        PROVE  Expects(i, g, u, t)
    <3>1. CASE u \in h.armed[t] \/ u # c
      BY <2>1, <2>4, <2>8, <3>1 DEF Expects
    <3>2. CASE u = c /\ \E w \in WakesFor(h, c) : Reports(i, w, t)
      <4>1. PICK w \in WakesFor(h, c) : Reports(i, w, t)
        BY <3>2
      <4>2. Reports(i, Aged(i, w), t)
        BY <2>5, <2>6, <4>1
      <4>3. w \in WakesFor(g, c) \/ Aged(i, w) \in WakesFor(g, c)
        BY <2>1, <2>8, <3>2, <4>1
      <4> QED BY <3>2, <4>1, <4>2, <4>3 DEF Expects
    <3> QED BY <2>8, <3>1, <3>2 DEF Expects
  <2>9. ASSUME ~Proc(i, c) PROVE \A w \in WakesFor(g, c) : w \in WakesFor(h, c)
    <3>1. g = [h EXCEPT !.deferred[c] = <<>>]
      BY <1>2, <2>9 DEF FlushDeferred, g
    <3>2. g.queued = h.queued
      BY <3>1 DEF HubTyped, Hub
    <3>3. Range(<<>>) = {}
      BY DEF Range
    <3>4. Range(g.queued[c]) = Range(h.queued[c]) /\ Range(g.deferred[c]) = {}
      BY <2>3, <3>2, <3>3
    <3> QED BY <3>4 DEF WakesFor
  <2>10. ASSUME NEW u \in Session, NEW t \in Session, Done(t) \in WakesFor(g, u), Done(t) \notin WakesFor(h, u)
         PROVE  FALSE
    <3>1. u = c
      BY <2>4, <2>10
    <3>2. CASE Proc(i, c)
      BY <2>1, <2>5, <2>7, <2>10, <3>1, <3>2
    <3>3. CASE ~Proc(i, c)
      BY <2>9, <2>10, <3>1, <3>3
    <3> QED BY <3>2, <3>3
  <2>11. \A u \in Session : ParkedAt(i, h, u) => ParkedAt(i, g, u)
    BY <2>3 DEF ParkedAt
  <2>12. \A x \in Session : HoldAt(i, h, x) => HoldAt(i, g, x)
    BY <2>1 DEF HoldAt
  <2>13. ASSUME NEW S \in SUBSET Session, Stuck(i, g, S) PROVE Stuck(i, h, S)
    <3>1. c \notin S
      BY <2>1, <2>13 DEF Stuck, Held, Idle, Proc
    <3>2. \A y \in S : g.deferred[y] = h.deferred[y] /\ g.queued[y] = h.queued[y]
      BY <2>1, <2>3, <3>1
    <3>3. \A y \in S : Held(i, h, y)
      BY <2>1, <2>13 DEF Stuck, Held
    <3> QED BY <2>1, <2>13, <3>2, <3>3 DEF Stuck
  <2>14. Keeps(i, h, g)
    BY <2>1, <2>8, <2>10, <2>11, <2>12, <2>13 DEF Keeps
  <2>15. ParkedAt(i, g, c)
    BY <2>3 DEF ParkedAt
  <2> QED BY <2>14, <2>15 DEF g
<1> QED BY <1>1, <1>2

\* _redecideHold keeps the hub, and x is in no stuck set after it.
LEMMA Redecided ==
  ASSUME NEW i, NEW h, HubTyped(h), NEW x \in Session
  PROVE  /\ Keeps(i, h, RedecideHold(i, h, x))
         /\ \A S \in SUBSET Session : Stuck(i, RedecideHold(i, h, x), S) => x \notin S
<1> DEFINE g == RedecideHold(i, h, x)
<1>1. /\ HubTyped(g)
      /\ g.armed = h.armed /\ g.deferred = h.deferred /\ g.queued = h.queued
      /\ g.holding = IF x \in h.holding /\ ~Holds(i, h, x) THEN h.holding \ {x} ELSE h.holding
  <2>1. CASE x \in h.holding /\ ~Holds(i, h, x)
    <3>1. g = [h EXCEPT !.holding = @ \ {x}]
      BY <2>1 DEF RedecideHold
    <3> QED BY <2>1, <3>1 DEF HubTyped, Hub
  <2>2. CASE ~(x \in h.holding /\ ~Holds(i, h, x))
    BY <2>2 DEF RedecideHold
  <2> QED BY <2>1, <2>2
<1> HIDE DEF g
<1>2. \A c \in Session : WakesFor(g, c) = WakesFor(h, c)
  BY <1>1 DEF WakesFor
<1>3. ASSUME NEW S \in SUBSET Session, Stuck(i, g, S) PROVE Stuck(i, h, S) /\ x \notin S
  <2>1. \A y \in S : Held(i, h, y) /\ y \in g.holding
    BY <1>1, <1>3 DEF Stuck, Held
  <2>2. Stuck(i, h, S)
    BY <1>1, <1>3, <2>1 DEF Stuck
  <2>3. x \in S => ~WaitsOnWork(i, h, x)
    BY <2>2, StuckNoWork
  <2> QED BY <1>1, <2>1, <2>2, <2>3 DEF Holds, Held
<1>4. \A c, u \in Session : Expects(i, h, c, u) => Expects(i, g, c, u)
  BY <1>1, <1>2 DEF Expects
<1>5. \A c \in Session : (ParkedAt(i, h, c) => ParkedAt(i, g, c)) /\ (HoldAt(i, h, c) => HoldAt(i, g, c))
  BY <1>1 DEF ParkedAt, HoldAt
<1>6. Keeps(i, h, g)
  BY <1>1, <1>2, <1>3, <1>4, <1>5 DEF Keeps
<1> QED BY <1>3, <1>6 DEF g

-----------------------------------------------------------------------------
(* Every caller in turn *)

\* A set of naturals that holds 0 and, with each number, the next one, holds them all.
LEMMA Natural ==
  ASSUME NEW S, 0 \in S, \A n \in Nat : n \in S => n + 1 \in S
  PROVE  Nat \subseteq S
<1>1. SUFFICES ASSUME Nat \ S # {} PROVE FALSE
  OBVIOUS
<1>2. PICK x \in Nat \ S : \A y \in Nat \ S : ~(<<y, x>> \in OpToRel(<, Nat))
  BY <1>1, NatLessThanWellFounded, WFMin
<1>3. \A y \in Nat \ S : ~(y < x)
  BY <1>2 DEF OpToRel
<1>4. x # 0 /\ x - 1 \in Nat
  OBVIOUS
<1>5. x - 1 \in S
  BY <1>3, <1>4
<1>6. (x - 1) + 1 \in S
  BY <1>4, <1>5
<1> QED BY <1>6

\* n steps of a function G from a, each told its number.
IsRun(f, a, G, n) == f = [k \in 0..n |-> IF k = 0 THEN a ELSE G[<<k, f[k - 1]>>]]

\* There are such steps, of any number.
LEMMA RunExists ==
  ASSUME NEW D, NEW a \in D, NEW G \in [Nat \X D -> D], NEW n \in Nat
  PROVE  \E f \in [0..n -> D] : IsRun(f, a, G, n)
<1> DEFINE S == {m \in Nat : \E f \in [0..m -> D] : IsRun(f, a, G, m)}
<1>1. 0 \in S
  <2> DEFINE g == [k \in 0..0 |-> a]
  <2>1. g \in [0..0 -> D] /\ IsRun(g, a, G, 0)
    BY DEF IsRun
  <2> QED BY <2>1
<1>2. ASSUME NEW m \in Nat, m \in S PROVE m + 1 \in S
  <2>1. PICK f \in [0..m -> D] : IsRun(f, a, G, m)
    BY <1>2
  <2> DEFINE g == [k \in 0..(m + 1) |-> IF k = m + 1 THEN G[<<m + 1, f[m]>>] ELSE f[k]]
  <2>2. f[m] \in D /\ <<m + 1, f[m]>> \in Nat \X D
    OBVIOUS
  <2>3. g \in [0..(m + 1) -> D]
    BY <2>2
  <2>4. \A k \in 0..(m + 1) : g[k] = IF k = 0 THEN a ELSE G[<<k, g[k - 1]>>]
    <3> TAKE k \in 0..(m + 1)
    <3>1. CASE k = m + 1
      <4>1. m \in 0..(m + 1) /\ m # m + 1 /\ k - 1 = m /\ k # 0
        BY <3>1
      <4>2. g[m] = f[m] /\ g[m + 1] = G[<<m + 1, f[m]>>]
        BY <4>1
      <4> HIDE DEF g
      <4> QED BY <3>1, <4>1, <4>2
    <3>2. CASE k \in 0..m
      <4>1. f[k] = IF k = 0 THEN a ELSE G[<<k, f[k - 1]>>]
        BY <2>1, <3>2 DEF IsRun
      <4>2. g[k] = f[k] /\ (k # 0 => g[k - 1] = f[k - 1])
        BY <3>2
      <4> QED BY <4>1, <4>2
    <3> QED BY <3>1, <3>2
  <2>5. g = [k \in 0..(m + 1) |-> g[k]]
    OBVIOUS
  <2>6. IsRun(g, a, G, m + 1)
    <3> HIDE DEF g
    <3> QED BY <2>4, <2>5 DEF IsRun
  <2> QED BY <2>3, <2>6
<1> HIDE DEF S
<1>3. Nat \subseteq S
  BY <1>1, <1>2, Natural
<1> QED BY <1>3 DEF S

\* Steps that keep the hub and free their caller from every stuck set, over a list of callers.
LEMMA RunKeeps ==
  ASSUME NEW i, NEW h, HubTyped(h), NEW n \in Nat, NEW callers, NEW f, f[0] = h,
         \A k \in 1..n : HubTyped(f[k - 1]) =>
           /\ Keeps(i, f[k - 1], f[k])
           /\ \A S \in SUBSET Session : Stuck(i, f[k], S) => callers[k] \notin S
  PROVE  /\ Keeps(i, h, f[n])
         /\ \A S \in SUBSET Session : Stuck(i, f[n], S) => \A k \in 1..n : callers[k] \notin S
<1> DEFINE Good(k) == /\ Keeps(i, h, f[k])
                      /\ \A S \in SUBSET Session : Stuck(i, f[k], S) => \A j \in 1..k : callers[j] \notin S
           S0 == {k \in Nat : k <= n => Good(k)}
<1>1. 0 \in S0
  <2>1. Good(0)
    BY KeepsSelf
  <2> QED BY <2>1
<1>2. ASSUME NEW k \in Nat, k \in S0 PROVE k + 1 \in S0
  <2> SUFFICES ASSUME k + 1 <= n PROVE Good(k + 1)
    OBVIOUS
  <2>1. k + 1 \in 1..n /\ (k + 1) - 1 = k
    OBVIOUS
  <2>2. Good(k)
    BY <1>2
  <2>3. HubTyped(f[k])
    BY <2>2 DEF Keeps
  <2>4. /\ Keeps(i, f[k], f[k + 1])
        /\ \A S \in SUBSET Session : Stuck(i, f[k + 1], S) => callers[k + 1] \notin S
    BY <2>1, <2>3
  <2>5. Keeps(i, h, f[k + 1])
    BY <2>2, <2>4, KeepsTrans
  <2>6. ASSUME NEW S \in SUBSET Session, Stuck(i, f[k + 1], S), NEW j \in 1..(k + 1) PROVE callers[j] \notin S
    <3>1. Stuck(i, f[k], S)
      BY <2>4, <2>6 DEF Keeps
    <3>2. CASE j = k + 1
      BY <2>4, <2>6, <3>2
    <3>3. CASE j \in 1..k
      BY <2>2, <3>1, <3>3
    <3> QED BY <3>2, <3>3
  <2> QED BY <2>5, <2>6
<1> HIDE DEF S0, Good
<1>3. Nat \subseteq S0
  BY <1>1, <1>2, Natural
<1>4. Good(n)
  BY <1>3 DEF S0
<1> QED BY <1>4 DEF Good

\* Releasing every caller keeps the hub, and leaves none of them stuck.
LEMMA AllReleased ==
  ASSUME NEW i, i \in [Session -> Inst], NEW h, HubTyped(h), NEW callers \in Seq(Session)
  PROVE  /\ Keeps(i, h, ReleaseAll(i, h, callers))
         /\ \A S \in SUBSET Session :
              Stuck(i, ReleaseAll(i, h, callers), S) => \A k \in 1..Len(callers) : callers[k] \notin S
<1> DEFINE D == {g \in Hub : HubTyped(g)}
           n == Len(callers)
           Step(k, g) == IF k \in 1..n THEN ReleaseHeld(i, g, callers[k]) ELSE g
           G == [p \in Nat \X D |-> Step(p[1], p[2])]
           Is(f) == f = [k \in 0..n |-> IF k = 0 THEN h ELSE ReleaseHeld(i, f[k - 1], callers[k])]
           F == CHOOSE f : Is(f)
<1>1. n \in Nat /\ h \in D /\ \A k \in 1..n : callers[k] \in Session
  BY DEF HubTyped
<1>2. \A g : HubTyped(g) => g \in D
  BY DEF HubTyped
<1>3. ASSUME NEW k \in 1..n, NEW g, HubTyped(g)
      PROVE  /\ Keeps(i, g, ReleaseHeld(i, g, callers[k]))
             /\ \A S \in SUBSET Session : Stuck(i, ReleaseHeld(i, g, callers[k]), S) => callers[k] \notin S
  BY <1>1, <1>3, Released
<1>4. \A k \in Nat, g \in D : Step(k, g) \in D
  BY <1>2, <1>3 DEF Keeps
<1>5. \A k \in 1..n : \A g : Step(k, g) = ReleaseHeld(i, g, callers[k])
  OBVIOUS
<1> HIDE DEF Step
<1>6. G \in [Nat \X D -> D]
  BY <1>4
<1>7. \A k \in Nat, g \in D : G[<<k, g>>] = Step(k, g)
  OBVIOUS
<1> HIDE DEF G
<1>8. \E f : Is(f)
  <2>1. PICK e \in [0..n -> D] : IsRun(e, h, G, n)
    BY <1>1, <1>6, RunExists
  <2>2. \A k \in 0..n : e[k] = IF k = 0 THEN h ELSE ReleaseHeld(i, e[k - 1], callers[k])
    <3> TAKE k \in 0..n
    <3>1. CASE k = 0
      BY <2>1, <3>1 DEF IsRun
    <3>2. CASE k # 0
      <4>1. k \in 1..n /\ k \in Nat /\ k - 1 \in 0..n
        BY <1>1, <3>2
      <4>2. e[k] = G[<<k, e[k - 1]>>]
        BY <2>1, <3>2 DEF IsRun
      <4>3. e[k - 1] \in D
        BY <4>1
      <4> QED BY <1>5, <1>7, <3>2, <4>1, <4>2, <4>3
    <3> QED BY <3>1, <3>2
  <2>3. e = [k \in 0..n |-> e[k]]
    OBVIOUS
  <2>4. Is(e)
    BY <2>2, <2>3
  <2> QED BY <2>4
<1>9. Is(F)
  BY <1>8
<1>10. ReleaseAll(i, h, callers) = F[n]
  BY DEF ReleaseAll
<1> HIDE DEF F
<1>11. F[0] = h /\ \A k \in 1..n : F[k] = ReleaseHeld(i, F[k - 1], callers[k])
  BY <1>1, <1>9
<1>12. \A k \in 1..n : HubTyped(F[k - 1]) =>
         /\ Keeps(i, F[k - 1], F[k])
         /\ \A S \in SUBSET Session : Stuck(i, F[k], S) => callers[k] \notin S
  BY <1>3, <1>11
<1> HIDE DEF n
<1>13. /\ Keeps(i, h, F[n])
       /\ \A S \in SUBSET Session : Stuck(i, F[n], S) => \A k \in 1..n : callers[k] \notin S
  BY <1>1, <1>11, <1>12, RunKeeps
<1> QED BY <1>10, <1>13 DEF n

\* So does deciding every caller's hold again.
LEMMA AllRedecided ==
  ASSUME NEW i, NEW h, HubTyped(h), NEW callers \in Seq(Session)
  PROVE  /\ Keeps(i, h, RedecideAll(i, h, callers))
         /\ \A S \in SUBSET Session :
              Stuck(i, RedecideAll(i, h, callers), S) => \A k \in 1..Len(callers) : callers[k] \notin S
<1> DEFINE D == {g \in Hub : HubTyped(g)}
           n == Len(callers)
           Step(k, g) == IF k \in 1..n THEN RedecideHold(i, g, callers[k]) ELSE g
           G == [p \in Nat \X D |-> Step(p[1], p[2])]
           Is(f) == f = [k \in 0..n |-> IF k = 0 THEN h ELSE RedecideHold(i, f[k - 1], callers[k])]
           F == CHOOSE f : Is(f)
<1>1. n \in Nat /\ h \in D /\ \A k \in 1..n : callers[k] \in Session
  BY DEF HubTyped
<1>2. \A g : HubTyped(g) => g \in D
  BY DEF HubTyped
<1>3. ASSUME NEW k \in 1..n, NEW g, HubTyped(g)
      PROVE  /\ Keeps(i, g, RedecideHold(i, g, callers[k]))
             /\ \A S \in SUBSET Session : Stuck(i, RedecideHold(i, g, callers[k]), S) => callers[k] \notin S
  BY <1>1, <1>3, Redecided
<1>4. \A k \in Nat, g \in D : Step(k, g) \in D
  BY <1>2, <1>3 DEF Keeps
<1>5. \A k \in 1..n : \A g : Step(k, g) = RedecideHold(i, g, callers[k])
  OBVIOUS
<1> HIDE DEF Step
<1>6. G \in [Nat \X D -> D]
  BY <1>4
<1>7. \A k \in Nat, g \in D : G[<<k, g>>] = Step(k, g)
  OBVIOUS
<1> HIDE DEF G
<1>8. \E f : Is(f)
  <2>1. PICK e \in [0..n -> D] : IsRun(e, h, G, n)
    BY <1>1, <1>6, RunExists
  <2>2. \A k \in 0..n : e[k] = IF k = 0 THEN h ELSE RedecideHold(i, e[k - 1], callers[k])
    <3> TAKE k \in 0..n
    <3>1. CASE k = 0
      BY <2>1, <3>1 DEF IsRun
    <3>2. CASE k # 0
      <4>1. k \in 1..n /\ k \in Nat /\ k - 1 \in 0..n
        BY <1>1, <3>2
      <4>2. e[k] = G[<<k, e[k - 1]>>]
        BY <2>1, <3>2 DEF IsRun
      <4>3. e[k - 1] \in D
        BY <4>1
      <4> QED BY <1>5, <1>7, <3>2, <4>1, <4>2, <4>3
    <3> QED BY <3>1, <3>2
  <2>3. e = [k \in 0..n |-> e[k]]
    OBVIOUS
  <2>4. Is(e)
    BY <2>2, <2>3
  <2> QED BY <2>4
<1>9. Is(F)
  BY <1>8
<1>10. RedecideAll(i, h, callers) = F[n]
  BY DEF RedecideAll
<1> HIDE DEF F
<1>11. F[0] = h /\ \A k \in 1..n : F[k] = RedecideHold(i, F[k - 1], callers[k])
  BY <1>1, <1>9
<1>12. \A k \in 1..n : HubTyped(F[k - 1]) =>
         /\ Keeps(i, F[k - 1], F[k])
         /\ \A S \in SUBSET Session : Stuck(i, F[k], S) => callers[k] \notin S
  BY <1>3, <1>11
<1> HIDE DEF n
<1>13. /\ Keeps(i, h, F[n])
       /\ \A S \in SUBSET Session : Stuck(i, F[n], S) => \A k \in 1..n : callers[k] \notin S
  BY <1>1, <1>11, <1>12, RunKeeps
<1> QED BY <1>10, <1>13 DEF n

-----------------------------------------------------------------------------
(* What a step has to show *)

\* FinishedMeansDone, of one step.
Fresh ==
  \A c, t \in Session :
    Done(t) \in WakesFor(hub', c) /\ Done(t) \notin WakesFor(hub, c) => Idle(inst', t) /\ ~TargetDefers(inst', t)

\* A step that first changes the hub to h0, queueing nothing, then does what keeps a hub.
LEMMA Carried ==
  ASSUME IInv, NEW h0, Keeps(inst', h0, hub'),
         inst' \in [Session -> Inst], owed' \in [Session -> SUBSET Session], starts' \in 0..MaxStarts,
         \A c \in Session : WakesFor(h0, c) \subseteq WakesFor(hub, c),
         \A t, c \in Session : c \in owed'[t] => ~GoneForGood(inst', c),
         \A t, c \in Session : c \in owed'[t] /\ inst'[c].phase # "relaunch" => Expects(inst', h0, c, t),
         \A c \in Session : ParkedAt(inst', h0, c) \/ ParkedAt(inst', hub', c),
         \A x \in Session : HoldAt(inst', h0, x),
         \A S \in SUBSET Session : ~(Stuck(inst', h0, S) /\ Stuck(inst', hub', S))
  PROVE  IInv' /\ Fresh
<1>1. Typed'
  BY DEF Typed, Keeps
<1>2. OwedLive'
  BY DEF OwedLive
<1>3. WakeNotLost'
  <2> SUFFICES ASSUME NEW t \in Session, NEW c \in Session, c \in owed'[t], inst'[c].phase # "relaunch"
               PROVE  Expects(inst', hub', c, t)
    BY DEF WakeNotLost
  <2>1. Proc(inst', c)
    <3>1. ~GoneForGood(inst', c) /\ inst'[c].phase \in Phase
      BY DEF Inst
    <3> QED BY <3>1 DEF Proc, GoneForGood, Phase
  <2>2. Expects(inst', h0, c, t)
    OBVIOUS
  <2> QED BY <2>1, <2>2 DEF Keeps
<1>4. Parked(inst, hub)'
  BY DEF Parked, Keeps
<1>5. HoldOK(inst, hub)'
  BY DEF HoldOK, Keeps
<1>6. NoStuck'
  BY DEF NoStuck, Keeps
<1>7. Fresh
  BY DEF Fresh, Keeps
<1> QED BY <1>1, <1>2, <1>3, <1>4, <1>5, <1>6, <1>7 DEF IInv

\* All sessions but t are as they were.
SameOff(i, j, t) == \A y \in Session \ {t} : i[y] = j[y]

\* A stuck set without t stays one whatever becomes of t.
LEMMA StuckOff ==
  ASSUME NEW i, NEW j, NEW h, NEW t \in Session, SameOff(i, j, t), NEW S \in SUBSET Session, t \notin S,
         Stuck(j, h, S)
  PROVE  Stuck(i, h, S)
<1>1. \A y \in S : Held(j, h, y) => Held(i, h, y)
  BY DEF SameOff, Held, Idle, TargetDefers
<1> QED BY <1>1 DEF Stuck

\* Reports expected stay expected while nobody comes back from the dead.
LEMMA ExpectsMonotone ==
  ASSUME NEW i, NEW j, NEW h, NEW c, NEW t, Expects(i, h, c, t), GoneForGood(i, t) => GoneForGood(j, t)
  PROVE  Expects(j, h, c, t)
BY DEF Expects, Reports

\* A step that leaves t mid-turn: entries on t may be added, its hold is dropped.
LEMMA InTurn ==
  ASSUME IInv, NEW t \in Session, Proc(inst, t),
         inst' \in [Session -> Inst], owed' \in [Session -> SUBSET Session], starts' \in 0..MaxStarts,
         inst'[t].phase = "turn", SameOff(inst', inst, t),
         HubTyped(hub'), hub.armed[t] \subseteq hub'.armed[t],
         \A u \in Session \ {t} : hub'.armed[u] = hub.armed[u] /\ hub'.queued[u] = hub.queued[u],
         Range(hub'.queued[t]) \subseteq Range(hub.queued[t]), hub'.deferred = hub.deferred,
         hub'.holding \subseteq hub.holding, t \notin hub'.holding,
         \A x \in hub.holding : x \in hub'.holding \/ x = t,
         \A u, c \in Session : c \in owed'[u] =>
           (c \in owed[u] /\ (Expects(inst, hub, c, u) => Expects(inst, hub', c, u)))
             \/ (c \in hub'.armed[u] /\ ~GoneForGood(inst, c))
  PROVE  IInv' /\ Fresh
<1>1. \A c \in Session : WakesFor(hub', c) \subseteq WakesFor(hub, c)
  BY DEF WakesFor
<1>2. \A c \in Session : GoneForGood(inst', c) => GoneForGood(inst, c)
  BY DEF GoneForGood, SameOff
<1>3. \A c \in Session : GoneForGood(inst, c) => GoneForGood(inst', c)
  BY DEF GoneForGood, SameOff, Proc
<1>4. ASSUME NEW u \in Session, NEW c \in Session, c \in owed'[u] PROVE ~GoneForGood(inst', c)
  BY <1>2, <1>4 DEF IInv, OwedLive
<1>5. ASSUME NEW u \in Session, NEW c \in Session, c \in owed'[u], inst'[c].phase # "relaunch"
      PROVE  Expects(inst', hub', c, u)
  <2>1. CASE c \in hub'.armed[u]
    BY <2>1 DEF Expects
  <2>2. CASE c \in owed[u] /\ (Expects(inst, hub, c, u) => Expects(inst, hub', c, u))
    <3>1. inst[c].phase # "relaunch"
      BY <1>5 DEF SameOff, Proc
    <3>2. Expects(inst, hub, c, u)
      BY <2>2, <3>1 DEF IInv, WakeNotLost
    <3> QED BY <1>3, <2>2, <3>2, ExpectsMonotone
  <2> QED BY <1>5, <2>1, <2>2
<1>6. ASSUME NEW c \in Session PROVE ParkedAt(inst', hub', c)
  <2>1. ParkedAt(inst, hub, c)
    BY DEF IInv, Parked
  <2>2. CASE c = t
    BY <2>2 DEF ParkedAt
  <2>3. CASE c # t
    BY <2>1, <2>3 DEF ParkedAt, SameOff, GoneForGood, Idle
  <2> QED BY <2>2, <2>3
<1>7. ASSUME NEW x \in Session PROVE HoldAt(inst', hub', x)
  <2>1. HoldAt(inst, hub, x)
    BY DEF IInv, HoldOK
  <2>2. CASE x = t
    BY <2>2 DEF HoldAt
  <2>3. CASE x # t
    BY <2>1, <2>3 DEF HoldAt, SameOff, Idle, TargetDefers
  <2> QED BY <2>2, <2>3
<1>8. ASSUME NEW S \in SUBSET Session, Stuck(inst', hub', S) PROVE FALSE
  <2>1. t \notin S
    BY <1>8 DEF Stuck, Held
  <2>2. Stuck(inst, hub', S)
    BY <1>8, <2>1, StuckOff DEF SameOff
  <2>3. \A y \in S : Held(inst, hub, y)
    BY <2>2 DEF Stuck, Held
  <2>4. \A y \in S : hub'.queued[y] = hub.queued[y] /\ hub'.armed[y] = hub.armed[y]
    BY <2>1
  <2>5. \A y \in S, u \in Session : y \in hub.armed[u] => u \in S
    BY <2>2 DEF Stuck
  <2>6. Stuck(inst, hub, S)
    BY <2>2, <2>3, <2>4, <2>5 DEF Stuck
  <2> QED BY <2>6 DEF IInv, NoStuck
<1>9. Keeps(inst', hub', hub')
  BY KeepsSelf
<1> QED BY <1>1, <1>4, <1>5, <1>6, <1>7, <1>8, <1>9, Carried

-----------------------------------------------------------------------------
(* Prompts and turns *)

\* More entries on a target, and no wake less, is no report less.
LEMMA ExpectsMore ==
  ASSUME NEW i, NEW h, NEW g, NEW c, NEW t, Expects(i, h, c, t), h.armed[t] \subseteq g.armed[t],
         WakesFor(h, c) \subseteq WakesFor(g, c)
  PROVE  Expects(i, g, c, t)
BY DEF Expects

\* g is h with entries for C on t, and perhaps without its hold.
Armed(h, g, t, C) ==
  /\ HubTyped(g)
  /\ C \subseteq Session /\ g.armed[t] = h.armed[t] \union C
  /\ \A u \in Session \ {t} : g.armed[u] = h.armed[u]
  /\ g.queued = h.queued /\ g.deferred = h.deferred /\ g.inFlight = h.inFlight
  /\ g.holding \subseteq h.holding /\ \A x \in h.holding : x \in g.holding \/ x = t

\* onTurnStart: the live owners are armed, and the hold is dropped.
LEMMA TurnStarted ==
  ASSUME NEW i, NEW h, HubTyped(h), NEW t \in Session
  PROVE  Armed(h, OnTurnStart(i, h, t), t, OwnersOf(i, h, t)) /\ t \notin OnTurnStart(i, h, t).holding
<1> DEFINE O == OwnersOf(i, h, t)
           a == IF h.armed[t] = {} THEN h.asked \ {t} ELSE h.asked
           g == OnTurnStart(i, h, t)
<1>1. h \in Hub /\ h.armed \in [Session -> SUBSET Session] /\ h.asked \subseteq Asker /\ h.asked \subseteq Session
  BY HubFields DEF HubTyped
<1>2. O \subseteq Session
  <2>1. h.owners[t] \subseteq Session
    BY HubFields DEF HubTyped
  <2>2. Spawner[t] \in Session \union {NoSession}
    BY WakeHubAssumption
  <2> QED BY <2>1, <2>2 DEF OwnersOf
<1>3. a \subseteq h.asked
  OBVIOUS
<1>4. g = [h EXCEPT !.holding = @ \ {t}, !.armed[t] = @ \union O, !.asked = a]
  BY DEF OnTurnStart
<1> HIDE DEF O, a, g
<1> DEFINE b == [h.armed EXCEPT ![t] = @ \union O]
<1>5. b \in [Session -> SUBSET Session] /\ b[t] = h.armed[t] \union O /\ \A u \in Session \ {t} : b[u] = h.armed[u]
  BY <1>1, <1>2
<1>6. g = [h EXCEPT !.holding = @ \ {t}, !.armed = b, !.asked = a]
  BY <1>4
<1> HIDE DEF b
<1>7. /\ g.armed = b /\ g.holding = h.holding \ {t} /\ g.asked = a
      /\ g.queued = h.queued /\ g.deferred = h.deferred /\ g.inFlight = h.inFlight
  BY <1>1, <1>6 DEF Hub
<1>8. a \subseteq Session /\ a \subseteq Asker
  BY <1>1, <1>3
<1>9. g \in Hub
  BY <1>1, <1>5, <1>6, <1>8 DEF Hub
<1>10. HubTyped(g)
  BY <1>7, <1>8, <1>9 DEF HubTyped
<1>11. Armed(h, g, t, O)
  BY <1>2, <1>5, <1>7, <1>10 DEF Armed
<1> QED BY <1>7, <1>11 DEF O, g

\* A prompt's effect on the instances.
LEMMA PromptTurn ==
  ASSUME NEW i, i \in [Session -> Inst], NEW t \in Session
  PROVE  /\ PromptedInst(i, t) \in [Session -> Inst] /\ PromptedInst(i, t)[t].phase = "turn"
         /\ SameOff(PromptedInst(i, t), i, t)
<1> DEFINE r == [i[t] EXCEPT !.phase = "turn", !.aborted = FALSE,
                             !.notified = IF i[t].phase = "turn" THEN @ ELSE FALSE]
<1>1. i[t] \in Inst
  OBVIOUS
<1>2. r \in Inst /\ r.phase = "turn"
  BY <1>1 DEF Inst, Phase
<1>3. PromptedInst(i, t) = [i EXCEPT ![t] = r]
  BY DEF PromptedInst
<1> HIDE DEF r
<1> QED BY <1>2, <1>3 DEF SameOff

\* A prompt's effect on the hub and the history: whoever is owed a report of the turn it starts is
\* armed on it, and alive.
PromptArms(i, h, o, t) ==
  \E C \in SUBSET Session :
    /\ Armed(h, PromptedHub(i, h, t), t, C)
    /\ i[t].phase = "turn" \/ t \notin PromptedHub(i, h, t).holding
    /\ PromptedOwed(i, h, o, t) \in [Session -> SUBSET Session]
    /\ \A u, c \in Session : c \in PromptedOwed(i, h, o, t)[u] =>
         c \in o[u] \/ (u = t /\ c \in C /\ ~GoneForGood(i, c))

LEMMA PromptShape ==
  ASSUME NEW i, NEW h, HubTyped(h), NEW t \in Session, NEW o \in [Session -> SUBSET Session]
  PROVE  PromptArms(i, h, o, t)
<1>1. CASE i[t].phase = "turn"
  <2>1. PromptedHub(i, h, t) = h /\ PromptedOwed(i, h, o, t) = o
    BY <1>1 DEF PromptedHub, PromptedOwed
  <2>2. Armed(h, h, t, {})
    BY DEF Armed
  <2> QED BY <1>1, <2>1, <2>2 DEF PromptArms
<1>2. CASE i[t].phase # "turn"
  <2> DEFINE O == OwnersOf(i, h, t)
             p == PromptedOwed(i, h, o, t)
  <2>1. PromptedHub(i, h, t) = OnTurnStart(i, h, t)
    BY <1>2 DEF PromptedHub
  <2>2. Armed(h, PromptedHub(i, h, t), t, O) /\ t \notin PromptedHub(i, h, t).holding
    BY <2>1, TurnStarted
  <2>3. O \subseteq Session
    BY <2>2 DEF Armed
  <2>4. p = [o EXCEPT ![t] = @ \union LiveOwners(i, h, t)]
    BY <1>2 DEF PromptedOwed
  <2>5. LiveOwners(i, h, t) \subseteq O /\ \A c \in LiveOwners(i, h, t) : ~GoneForGood(i, c)
    BY DEF LiveOwners
  <2> HIDE DEF O, p
  <2>6. p \in [Session -> SUBSET Session]
    BY <2>3, <2>4, <2>5
  <2>7. \A u, c \in Session : c \in p[u] => c \in o[u] \/ (u = t /\ c \in O /\ ~GoneForGood(i, c))
    BY <2>4, <2>5
  <2> QED BY <2>2, <2>3, <2>6, <2>7 DEF PromptArms, p
<1> QED BY <1>1, <1>2

\* A prompt that reaches t, whose parked steers may be flushed by it.
LEMMA Prompted ==
  ASSUME IInv, NEW t \in Session, Proc(inst, t), starts' \in 0..MaxStarts,
         NEW i, i \in [Session -> Inst], SameOff(i, inst, t), i[t].phase = inst[t].phase,
         NEW h, NEW K, Armed(hub, h, t, K), h.holding = hub.holding,
         NEW o \in [Session -> SUBSET Session],
         \A u, c \in Session : c \in o[u] => c \in owed[u] \/ (c \in h.armed[u] /\ ~GoneForGood(inst, c)),
         inst' = PromptedInst(i, t), hub' = PromptedHub(i, h, t), owed' = PromptedOwed(i, h, o, t)
  PROVE  IInv' /\ Fresh
<1>1. inst' \in [Session -> Inst] /\ inst'[t].phase = "turn" /\ SameOff(inst', i, t)
  BY PromptTurn
<1>2. SameOff(inst', inst, t)
  BY <1>1 DEF SameOff
<1>3. HubTyped(h)
  BY DEF Armed
<1>4. PromptArms(i, h, o, t)
  BY <1>3, PromptShape
<1>5. PICK C \in SUBSET Session :
        /\ Armed(h, hub', t, C)
        /\ i[t].phase = "turn" \/ t \notin hub'.holding
        /\ owed' \in [Session -> SUBSET Session]
        /\ \A u, c \in Session : c \in owed'[u] => c \in o[u] \/ (u = t /\ c \in C /\ ~GoneForGood(i, c))
  BY <1>4 DEF PromptArms
<1>6. HoldAt(inst, hub, t)
  BY DEF IInv, HoldOK
<1>7. /\ hub'.holding \subseteq hub.holding /\ t \notin hub'.holding
      /\ \A x \in hub.holding : x \in hub'.holding \/ x = t
  BY <1>5, <1>6 DEF HoldAt, Armed
<1>8. \A c \in Session : GoneForGood(i, c) <=> GoneForGood(inst, c)
  BY DEF GoneForGood, SameOff
<1>9. \A u \in Session : hub.armed[u] \subseteq hub'.armed[u] /\ h.armed[u] \subseteq hub'.armed[u]
  BY <1>5 DEF Armed
<1>10. C \subseteq hub'.armed[t]
  BY <1>5 DEF Armed
<1>11. hub'.queued = hub.queued /\ hub'.deferred = hub.deferred
  BY <1>5 DEF Armed
<1>12. \A c \in Session : WakesFor(hub', c) = WakesFor(hub, c)
  BY <1>11 DEF WakesFor
<1>13. \A u, c \in Session : Expects(inst, hub, c, u) => Expects(inst, hub', c, u)
  BY <1>9, <1>12, ExpectsMore
<1>14. \A u, c \in Session : c \in owed'[u] =>
         (c \in owed[u] /\ (Expects(inst, hub, c, u) => Expects(inst, hub', c, u)))
           \/ (c \in hub'.armed[u] /\ ~GoneForGood(inst, c))
  BY <1>5, <1>8, <1>9, <1>10, <1>13
<1>15. /\ hub.armed[t] \subseteq hub'.armed[t]
       /\ \A u \in Session \ {t} : hub'.armed[u] = hub.armed[u] /\ hub'.queued[u] = hub.queued[u]
       /\ Range(hub'.queued[t]) \subseteq Range(hub.queued[t])
  BY <1>5, <1>9, <1>11 DEF Armed
<1>16. HubTyped(hub')
  BY <1>5 DEF Armed
<1> QED BY <1>1, <1>2, <1>5, <1>7, <1>11, <1>14, <1>15, <1>16, InTurn

\* The invariant's parts about one session, at hand.
LEMMA Parts ==
  ASSUME IInv, NEW t \in Session
  PROVE  /\ inst \in [Session -> Inst] /\ HubTyped(hub) /\ owed \in [Session -> SUBSET Session]
         /\ starts \in 0..MaxStarts
         /\ Armed(hub, hub, t, {})
         /\ HoldAt(inst, hub, t) /\ ParkedAt(inst, hub, t)
         /\ inst[t].phase = "turn" => t \notin hub.holding
<1>1. Typed /\ HoldOK(inst, hub) /\ Parked(inst, hub)
  BY DEF IInv
<1>2. HoldAt(inst, hub, t) /\ ParkedAt(inst, hub, t)
  BY <1>1 DEF HoldOK, Parked
<1>3. Armed(hub, hub, t, {})
  BY <1>1 DEF Typed, Armed
<1> QED BY <1>1, <1>2, <1>3 DEF Typed, HoldAt

\* One more event from outside stays within the bound.
LEMMA OutsideBound ==
  ASSUME starts \in 0..MaxStarts, starts' = starts \/ Outside
  PROVE  starts' \in 0..MaxStarts
BY WakeHubAssumption DEF Outside

\* promptOrQueueSteer, with what the sender may have recorded first.
LEMMA SendInv ==
  ASSUME IInv, NEW t \in Session, Proc(inst, t), starts' \in 0..MaxStarts,
         NEW h, NEW K, Armed(hub, h, t, K), h.holding = hub.holding,
         NEW o \in [Session -> SUBSET Session],
         \A u, c \in Session : c \in o[u] => c \in owed[u] \/ (c \in h.armed[u] /\ ~GoneForGood(inst, c)),
         Send(h, o, t)
  PROVE  IInv' /\ Fresh
<1>1. inst \in [Session -> Inst] /\ (inst[t].phase = "turn" => t \notin hub.holding)
  BY Parts
<1>2. CASE inst[t].phase = "turn" /\ t \in Unsteerable
  <2>1. inst' = [inst EXCEPT ![t].steered = TRUE] /\ hub' = h /\ owed' = o
    BY <1>2 DEF Send
  <2>2. inst' \in [Session -> Inst] /\ inst'[t].phase = "turn" /\ SameOff(inst', inst, t)
    BY <1>1, <1>2, <2>1 DEF Inst, SameOff
  <2>3. /\ HubTyped(hub') /\ \A u \in Session : hub.armed[u] \subseteq hub'.armed[u]
        /\ \A u \in Session \ {t} : hub'.armed[u] = hub.armed[u]
        /\ hub'.queued = hub.queued /\ hub'.deferred = hub.deferred /\ hub'.holding = hub.holding
    BY <2>1 DEF Armed
  <2>4. \A c \in Session : WakesFor(hub', c) = WakesFor(hub, c)
    BY <2>3 DEF WakesFor
  <2>5. \A u, c \in Session : Expects(inst, hub, c, u) => Expects(inst, hub', c, u)
    BY <2>3, <2>4, ExpectsMore
  <2>6. \A u, c \in Session : c \in owed'[u] =>
         (c \in owed[u] /\ (Expects(inst, hub, c, u) => Expects(inst, hub', c, u)))
           \/ (c \in hub'.armed[u] /\ ~GoneForGood(inst, c))
    BY <2>1, <2>5
  <2> QED BY <1>1, <1>2, <2>1, <2>2, <2>3, <2>6, InTurn
<1>3. CASE ~(inst[t].phase = "turn" /\ t \in Unsteerable)
  <2>1. inst' = PromptedInst(inst, t) /\ hub' = PromptedHub(inst, h, t) /\ owed' = PromptedOwed(inst, h, o, t)
    BY <1>3 DEF Send
  <2>2. SameOff(inst, inst, t)
    BY DEF SameOff
  <2> QED BY <1>1, <2>1, <2>2, Prompted
<1> QED BY <1>2, <1>3

\* The human's prompt.
LEMMA UserPromptInv == ASSUME IInv, NEW t \in Session, UserPrompt(t) PROVE IInv' /\ Fresh
<1>1. Proc(inst, t) /\ Outside /\ Send(hub, owed, t)
  BY DEF UserPrompt
<1>2. Armed(hub, hub, t, {}) /\ owed \in [Session -> SUBSET Session] /\ starts \in 0..MaxStarts
  BY Parts
<1>3. starts' \in 0..MaxStarts
  BY <1>1, <1>2, OutsideBound
<1> QED BY <1>1, <1>2, <1>3, SendInv

\* A dispatch: the edge and the entry on a running turn are recorded before the send.
LEMMA DispatchInv ==
  ASSUME IInv, NEW t \in Session, NEW c \in Session, Dispatch(c, t) PROVE IInv' /\ Fresh
<1> DEFINE recorded == [hub EXCEPT !.owners[t] = @ \union {c}]
           running == inst[t].phase = "turn"
           h == IF running THEN [recorded EXCEPT !.armed[t] = @ \union {c}] ELSE recorded
           o == IF running THEN [owed EXCEPT ![t] = @ \union {c}] ELSE owed
           K == IF running THEN {c} ELSE {}
<1>1. /\ inst[c].phase = "turn" /\ Proc(inst, t) /\ Outside
      /\ Send(h, o, t)
  BY DEF Dispatch
<1>2. HubTyped(hub) /\ owed \in [Session -> SUBSET Session] /\ starts \in 0..MaxStarts
  BY Parts
<1>3. starts' \in 0..MaxStarts
  BY <1>1, <1>2, OutsideBound
<1>4. hub \in Hub /\ hub.armed \in [Session -> SUBSET Session]
  BY <1>2, HubFields DEF HubTyped
<1>5. Armed(hub, h, t, K) /\ h.holding = hub.holding
  <2> DEFINE a == [hub.armed EXCEPT ![t] = @ \union K]
             w == [hub.owners EXCEPT ![t] = @ \union {c}]
  <2>1. hub.owners \in [Session -> SUBSET Session] /\ K \subseteq Session
    BY <1>4, HubFields
  <2>2. /\ a \in [Session -> SUBSET Session] /\ w \in [Session -> SUBSET Session]
        /\ a[t] = hub.armed[t] \union K /\ \A u \in Session \ {t} : a[u] = hub.armed[u]
    BY <1>4, <2>1
  <2>3. h = [hub EXCEPT !.owners = w, !.armed = a]
    <3>1. CASE running
      BY <1>4, <3>1 DEF Hub
    <3>2. CASE ~running
      <4>1. a = hub.armed
        BY <1>4, <3>2
      <4> QED BY <1>4, <3>2, <4>1 DEF Hub
    <3> QED BY <3>1, <3>2
  <2> HIDE DEF h, a, w, K
  <2>4. /\ h \in Hub /\ h.armed = a /\ h.holding = hub.holding /\ h.asked = hub.asked
        /\ h.queued = hub.queued /\ h.deferred = hub.deferred /\ h.inFlight = hub.inFlight
    BY <1>4, <2>2, <2>3 DEF Hub
  <2>5. HubTyped(h)
    BY <1>2, <2>4 DEF HubTyped
  <2> QED BY <2>1, <2>2, <2>4, <2>5 DEF Armed
<1>6. o \in [Session -> SUBSET Session]
  BY <1>2
<1>7. ASSUME NEW u \in Session, NEW d \in Session, d \in o[u]
      PROVE  d \in owed[u] \/ (d \in h.armed[u] /\ ~GoneForGood(inst, d))
  <2>1. ~GoneForGood(inst, c)
    BY <1>1 DEF GoneForGood
  <2>2. K \subseteq h.armed[t]
    BY <1>5 DEF Armed
  <2>3. d \in owed[u] \/ (u = t /\ d = c /\ d \in K)
    BY <1>2, <1>7
  <2> QED BY <2>1, <2>2, <2>3
<1> HIDE DEF h, o, K
<1> QED BY <1>1, <1>3, <1>5, <1>6, <1>7, SendInv

\* The parked steers go out.
LEMMA FlushSteerInv == ASSUME IInv, NEW t \in Session, FlushSteer(t) PROVE IInv' /\ Fresh
<1> DEFINE i == [inst EXCEPT ![t].steered = FALSE]
<1>1. /\ Idle(inst, t) /\ starts' = starts
      /\ inst' = PromptedInst(i, t) /\ hub' = PromptedHub(i, hub, t) /\ owed' = PromptedOwed(i, hub, owed, t)
  BY DEF FlushSteer
<1>2. /\ inst \in [Session -> Inst] /\ Armed(hub, hub, t, {}) /\ owed \in [Session -> SUBSET Session]
      /\ starts \in 0..MaxStarts
  BY Parts
<1>3. i \in [Session -> Inst] /\ SameOff(i, inst, t) /\ i[t].phase = inst[t].phase
  BY <1>2 DEF Inst, SameOff
<1>4. Proc(inst, t)
  BY <1>1 DEF Idle, Proc
<1> HIDE DEF i
<1> QED BY <1>1, <1>2, <1>3, <1>4, Prompted

\* A step of t's turn that changes only what inst says of t.
LEMMA MidTurn ==
  ASSUME IInv, NEW t \in Session, inst[t].phase = "turn", starts' \in 0..MaxStarts,
         inst' \in [Session -> Inst], inst'[t].phase = "turn", SameOff(inst', inst, t),
         HubTyped(hub'), hub'.armed = hub.armed, hub'.queued = hub.queued, hub'.deferred = hub.deferred,
         hub'.holding = hub.holding, owed' = owed
  PROVE  IInv' /\ Fresh
<1>1. owed \in [Session -> SUBSET Session] /\ t \notin hub.holding
  BY Parts
<1>2. Proc(inst, t)
  BY DEF Proc
<1>3. \A c \in Session : WakesFor(hub', c) = WakesFor(hub, c)
  BY DEF WakesFor
<1>4. \A u, c \in Session : c \in owed'[u] =>
        (c \in owed[u] /\ (Expects(inst, hub, c, u) => Expects(inst, hub', c, u)))
          \/ (c \in hub'.armed[u] /\ ~GoneForGood(inst, c))
  BY <1>3, ExpectsMore
<1> QED BY <1>1, <1>2, <1>4, InTurn

\* A background task starts.
LEMMA TaskStartsInv == ASSUME IInv, NEW t \in Session, TaskStarts(t) PROVE IInv' /\ Fresh
<1>1. inst \in [Session -> Inst] /\ HubTyped(hub) /\ starts \in 0..MaxStarts
  BY Parts
<1>2. /\ inst[t].phase = "turn" /\ Outside /\ inst' = [inst EXCEPT ![t].tasks = TRUE]
      /\ hub' = hub /\ owed' = owed
  BY DEF TaskStarts
<1>3. starts' \in 0..MaxStarts
  BY <1>1, <1>2, OutsideBound
<1>4. inst' \in [Session -> Inst] /\ inst'[t].phase = "turn" /\ SameOff(inst', inst, t)
  BY <1>1, <1>2 DEF Inst, SameOff
<1> QED BY <1>1, <1>2, <1>3, <1>4, MidTurn

\* A turn takes its notification along.
LEMMA NotificationConsumedInv ==
  ASSUME IInv, NEW t \in Session, NotificationConsumed(t) PROVE IInv' /\ Fresh
<1>1. inst \in [Session -> Inst] /\ HubTyped(hub) /\ starts \in 0..MaxStarts
  BY Parts
<1>2. /\ inst[t].phase = "turn" /\ inst' = [inst EXCEPT ![t].notified = FALSE]
      /\ hub' = hub /\ owed' = owed /\ starts' = starts
  BY DEF NotificationConsumed
<1>3. inst' \in [Session -> Inst] /\ inst'[t].phase = "turn" /\ SameOff(inst', inst, t)
  BY <1>1, <1>2 DEF Inst, SameOff
<1> QED BY <1>1, <1>2, <1>3, MidTurn

\* The user stops the turn.
LEMMA UserInterruptInv == ASSUME IInv, NEW t \in Session, UserInterrupt(t) PROVE IInv' /\ Fresh
<1>1. inst \in [Session -> Inst] /\ HubTyped(hub) /\ starts \in 0..MaxStarts
  BY Parts
<1>2. /\ inst[t].phase = "turn" /\ inst' = [inst EXCEPT ![t].aborted = TRUE]
      /\ hub' = hub /\ owed' = owed /\ starts' = starts
  BY DEF UserInterrupt
<1>3. inst' \in [Session -> Inst] /\ inst'[t].phase = "turn" /\ SameOff(inst', inst, t)
  BY <1>1, <1>2 DEF Inst, SameOff
<1> QED BY <1>1, <1>2, <1>3, MidTurn

\* The turn asks its user.
LEMMA AskInv == ASSUME IInv, NEW t \in Session, Ask(t) PROVE IInv' /\ Fresh
<1>1. inst \in [Session -> Inst] /\ HubTyped(hub) /\ starts \in 0..MaxStarts
  BY Parts
<1>2. /\ inst[t].phase = "turn" /\ t \in Asker /\ hub' = [hub EXCEPT !.asked = @ \union {t}]
      /\ inst' = inst /\ owed' = owed /\ starts' = starts
  BY DEF Ask
<1>3. hub \in Hub /\ hub.asked \subseteq Asker
  BY <1>1 DEF HubTyped
<1>4. /\ hub' \in Hub /\ hub'.asked = hub.asked \union {t}
      /\ hub'.armed = hub.armed /\ hub'.queued = hub.queued /\ hub'.deferred = hub.deferred
      /\ hub'.holding = hub.holding /\ hub'.inFlight = hub.inFlight
  BY <1>2, <1>3 DEF Hub
<1>5. HubTyped(hub')
  BY <1>1, <1>2, <1>3, <1>4 DEF HubTyped
<1>6. SameOff(inst, inst, t)
  BY DEF SameOff
<1> QED BY <1>1, <1>2, <1>4, <1>5, <1>6, MidTurn

\* A turn nobody prompted begins.
LEMMA BeginReinvocationInv ==
  ASSUME IInv, NEW t \in Session, BeginReinvocation(t) PROVE IInv' /\ Fresh
<1> DEFINE O == OwnersOf(inst, hub, t)
           L == LiveOwners(inst, hub, t)
<1>1. inst \in [Session -> Inst] /\ HubTyped(hub) /\ owed \in [Session -> SUBSET Session] /\ starts \in 0..MaxStarts
  BY Parts
<1>2. /\ inst[t].phase = "opening" /\ hub' = OnTurnStart(inst, hub, t) /\ starts' = starts
      /\ owed' = [owed EXCEPT ![t] = @ \union L]
      /\ inst' = [inst EXCEPT ![t].phase = "turn", ![t].notified = FALSE,
                              ![t].aborted = IF hub.armed[t] = {} THEN FALSE ELSE @]
  BY DEF BeginReinvocation
<1>3. Armed(hub, hub', t, O) /\ t \notin hub'.holding
  BY <1>1, <1>2, TurnStarted
<1>4. L \subseteq O /\ \A c \in L : ~GoneForGood(inst, c)
  BY DEF LiveOwners
<1>5. inst' \in [Session -> Inst] /\ inst'[t].phase = "turn" /\ SameOff(inst', inst, t)
  <2> DEFINE b == IF hub.armed[t] = {} THEN FALSE ELSE inst[t].aborted
             r == [inst[t] EXCEPT !.phase = "turn", !.notified = FALSE, !.aborted = b]
  <2>1. inst[t] \in Inst
    BY <1>1
  <2>2. b \in BOOLEAN
    BY <2>1 DEF Inst
  <2>3. inst' = [inst EXCEPT ![t] = r]
    BY <1>1, <1>2
  <2> HIDE DEF b
  <2>4. r \in Inst /\ r.phase = "turn"
    BY <2>1, <2>2 DEF Inst, Phase
  <2> HIDE DEF r
  <2> QED BY <1>1, <2>3, <2>4 DEF SameOff
<1> HIDE DEF O, L
<1>6. /\ HubTyped(hub') /\ O \subseteq hub'.armed[t] /\ O \subseteq Session
      /\ \A u \in Session : hub.armed[u] \subseteq hub'.armed[u]
      /\ \A u \in Session \ {t} : hub'.armed[u] = hub.armed[u]
      /\ hub'.queued = hub.queued /\ hub'.deferred = hub.deferred
      /\ hub'.holding \subseteq hub.holding /\ \A x \in hub.holding : x \in hub'.holding \/ x = t
  BY <1>3 DEF Armed
<1>7. \A c \in Session : WakesFor(hub', c) = WakesFor(hub, c)
  BY <1>6 DEF WakesFor
<1>8. \A u, c \in Session : Expects(inst, hub, c, u) => Expects(inst, hub', c, u)
  BY <1>6, <1>7, ExpectsMore
<1>9. owed' \in [Session -> SUBSET Session]
  BY <1>1, <1>2, <1>4, <1>6
<1>10. \A u, c \in Session : c \in owed'[u] =>
         (c \in owed[u] /\ (Expects(inst, hub, c, u) => Expects(inst, hub', c, u)))
           \/ (c \in hub'.armed[u] /\ ~GoneForGood(inst, c))
  BY <1>1, <1>2, <1>4, <1>6, <1>8
<1>11. Proc(inst, t)
  BY <1>2 DEF Proc
<1> QED BY <1>1, <1>2, <1>3, <1>5, <1>6, <1>9, <1>10, <1>11, InTurn

\* g is h without the k-th of the wakes queued for c, which it no longer counts.
Unqueued(h, g, c, k) ==
  /\ HubTyped(g)
  /\ g.armed = h.armed /\ g.owners = h.owners /\ g.holding = h.holding /\ g.deferred = h.deferred
  /\ \A u \in Session \ {c} : g.queued[u] = h.queued[u]
  /\ Range(g.queued[c]) \subseteq Range(h.queued[c])
  /\ Range(h.queued[c]) \subseteq Range(g.queued[c]) \union {h.queued[c][k]}

\* A send takes its wake off the queue and off the count together.
Dequeued(h, c, k) == [h EXCEPT !.queued[c] = RemoveAt(@, k)]
Uncounted(h, c) == [h EXCEPT !.inFlight[c] = IF @ > 0 THEN @ - 1 ELSE 0]
Sent(h, c, k) == Uncounted(Dequeued(h, c, k), c)

LEMMA SentShape ==
  ASSUME NEW h, HubTyped(h), NEW c \in Session, NEW k \in 1..Len(h.queued[c])
  PROVE  Unqueued(h, Sent(h, c, k), c, k)
<1> DEFINE q == RemoveAt(h.queued[c], k)
           n == IF h.inFlight[c] > 0 THEN h.inFlight[c] - 1 ELSE 0
           g == Sent(h, c, k)
<1>1. /\ h \in Hub /\ h.queued \in [Session -> Seq(Wake)] /\ h.inFlight \in [Session -> Nat]
      /\ \A s \in Session : h.inFlight[s] <= Len(h.queued[s])
  BY HubFields DEF HubTyped
<1>2. /\ q \in Seq(Wake) /\ Len(q) = Len(h.queued[c]) - 1
      /\ Range(q) \subseteq Range(h.queued[c])
      /\ Range(h.queued[c]) \subseteq Range(q) \union {h.queued[c][k]}
  BY <1>1, RemoveAtFacts
<1>3. n \in Nat /\ n <= Len(q)
  <2>1. h.inFlight[c] \in Nat /\ Len(h.queued[c]) \in Nat /\ h.inFlight[c] <= Len(h.queued[c])
        /\ Len(h.queued[c]) >= 1
    BY <1>1
  <2>2. Len(q) = Len(h.queued[c]) - 1
    BY <1>2
  <2> HIDE DEF q
  <2> QED BY <2>1, <2>2
<1>4. g = [h EXCEPT !.queued = [@ EXCEPT ![c] = q], !.inFlight = [@ EXCEPT ![c] = n]]
  BY <1>1 DEF Sent, Uncounted, Dequeued, Hub
<1> HIDE DEF q, n, g
<1>5. /\ g \in Hub
      /\ g.armed = h.armed /\ g.owners = h.owners /\ g.holding = h.holding /\ g.deferred = h.deferred
      /\ g.asked = h.asked
      /\ g.queued = [h.queued EXCEPT ![c] = q] /\ g.inFlight = [h.inFlight EXCEPT ![c] = n]
  BY <1>1, <1>2, <1>3, <1>4 DEF Hub
<1>6. g.queued[c] = q /\ \A u \in Session \ {c} : g.queued[u] = h.queued[u]
  BY <1>1, <1>5
<1>7. \A s \in Session : g.inFlight[s] <= Len(g.queued[s])
  BY <1>1, <1>3, <1>5
<1>8. HubTyped(g)
  BY <1>5, <1>7 DEF HubTyped
<1> QED BY <1>2, <1>5, <1>6, <1>8 DEF Unqueued, g

\* Giving the count back before the prompt or after it is the same.
LEMMA SentPrompted ==
  ASSUME NEW i, NEW h, HubTyped(h), NEW o, NEW c \in Session, NEW k \in 1..Len(h.queued[c])
  PROVE  /\ Uncounted(PromptedHub(i, Dequeued(h, c, k), c), c) = PromptedHub(i, Sent(h, c, k), c)
         /\ PromptedOwed(i, Dequeued(h, c, k), o, c) = PromptedOwed(i, Sent(h, c, k), o, c)
<1> DEFINE q == RemoveAt(h.queued[c], k)
           n == IF h.inFlight[c] > 0 THEN h.inFlight[c] - 1 ELSE 0
           g == Dequeued(h, c, k)
           s == Sent(h, c, k)
<1>1. h \in Hub
  BY DEF HubTyped
<1>2. /\ g = [h EXCEPT !.queued = [@ EXCEPT ![c] = q]]
      /\ s = [h EXCEPT !.queued = [@ EXCEPT ![c] = q], !.inFlight = [@ EXCEPT ![c] = n]]
  BY <1>1 DEF Hub, Sent, Uncounted, Dequeued
<1> HIDE DEF q, n, g, s
<1>3. g.owners = h.owners /\ s.owners = h.owners
  BY <1>1, <1>2 DEF Hub
<1>4. OwnersOf(i, g, c) = OwnersOf(i, h, c) /\ OwnersOf(i, s, c) = OwnersOf(i, h, c)
  BY <1>3 DEF OwnersOf
<1>5. PromptedOwed(i, g, o, c) = PromptedOwed(i, s, o, c)
  BY <1>4 DEF PromptedOwed, LiveOwners
<1> DEFINE P == PromptedHub(i, g, c)
<1>6. Uncounted(P, c) = PromptedHub(i, s, c)
  <2>1. CASE i[c].phase = "turn"
    <3>1. P = g /\ PromptedHub(i, s, c) = s
      BY <2>1 DEF PromptedHub
    <3> HIDE DEF P
    <3> QED BY <1>1, <1>2, <3>1 DEF Hub, Uncounted, n
  <2>2. CASE i[c].phase # "turn"
    <3> DEFINE O == OwnersOf(i, h, c)
               a == IF h.armed[c] = {} THEN h.asked \ {c} ELSE h.asked
    <3>1. P = OnTurnStart(i, g, c) /\ PromptedHub(i, s, c) = OnTurnStart(i, s, c)
      BY <2>2 DEF PromptedHub
    <3>2. /\ g.armed = h.armed /\ g.asked = h.asked /\ g.holding = h.holding /\ g.inFlight = h.inFlight
          /\ s.armed = h.armed /\ s.asked = h.asked
      BY <1>1, <1>2 DEF Hub
    <3>3. /\ P = [g EXCEPT !.holding = @ \ {c}, !.armed[c] = @ \union O, !.asked = a]
          /\ PromptedHub(i, s, c) = [s EXCEPT !.holding = @ \ {c}, !.armed[c] = @ \union O, !.asked = a]
      BY <1>4, <3>1, <3>2 DEF OnTurnStart
    <3> HIDE DEF P, O, a
    <3> QED BY <1>1, <1>2, <3>3 DEF Hub, Uncounted, n
  <2> QED BY <2>1, <2>2
<1> QED BY <1>5, <1>6 DEF g, s

\* A queued delivery's send.
LEMMA SendWakeInv ==
  ASSUME IInv, NEW t \in Session, NEW k \in 1..Len(hub.queued[t]), SendWake(t, k) PROVE IInv' /\ Fresh
<1> DEFINE w == hub.queued[t][k]
           h == Dequeued(hub, t, k)
           g == Sent(hub, t, k)
           told == [owed EXCEPT ![w.of] = IF Reports(inst, w, w.of) THEN @ \ {t} ELSE @]
<1>1. inst \in [Session -> Inst] /\ HubTyped(hub) /\ owed \in [Session -> SUBSET Session] /\ starts \in 0..MaxStarts
  BY Parts
<1>2. Unqueued(hub, g, t, k)
  BY <1>1, SentShape
<1>3. /\ HubTyped(g) /\ g.armed = hub.armed /\ g.holding = hub.holding /\ g.deferred = hub.deferred
      /\ \A u \in Session \ {t} : g.queued[u] = hub.queued[u]
      /\ Range(g.queued[t]) \subseteq Range(hub.queued[t])
      /\ Range(hub.queued[t]) \subseteq Range(g.queued[t]) \union {w}
  BY <1>2 DEF Unqueued
<1>4. w \in Wake /\ starts' = starts
  <2>1. hub.queued[t] \in Seq(Wake)
    BY <1>1, HubFields DEF HubTyped
  <2>2. starts' = starts
    BY DEF SendWake
  <2> QED BY <2>1, <2>2
<1>5. /\ \A c \in Session \ {t} : WakesFor(g, c) = WakesFor(hub, c)
      /\ \A c \in Session : WakesFor(g, c) \subseteq WakesFor(hub, c)
      /\ WakesFor(hub, t) \subseteq WakesFor(g, t) \union {w}
  BY <1>3 DEF WakesFor
<1>6. CASE Proc(inst, t)
  <2> DEFINE i == PromptedInst(inst, t)
             P == PromptedHub(inst, h, t)
  <2>1. inst' = i /\ hub' = EndInFlight(i, P, t) /\ owed' = PromptedOwed(inst, h, told, t)
    BY <1>6 DEF SendWake, Dequeued
  <2>2. i \in [Session -> Inst] /\ i[t].phase = "turn" /\ SameOff(i, inst, t)
    BY <1>1, PromptTurn
  <2>3. hub' = Uncounted(P, t)
    BY <2>1, <2>2 DEF EndInFlight, ReleaseHeld, Idle, Uncounted
  <2>4. hub' = PromptedHub(inst, g, t) /\ owed' = PromptedOwed(inst, g, told, t)
    <3> HIDE DEF told, P, h, g
    <3>1. Uncounted(P, t) = PromptedHub(inst, g, t)
      BY <1>1, SentPrompted DEF P, h, g
    <3>2. PromptedOwed(inst, h, told, t) = PromptedOwed(inst, g, told, t)
      BY <1>1, SentPrompted DEF h, g
    <3> QED BY <2>1, <2>3, <3>1, <3>2
  <2>5. told \in [Session -> SUBSET Session]
    BY <1>1, <1>4 DEF Wake
  <2>6. \A u, c \in Session : c \in told[u] => c \in owed[u] /\ ~(c = t /\ Reports(inst, w, u))
    BY <1>1, <1>4 DEF Wake, Reports
  <2> HIDE DEF i, P, h, g, told, w
  <2>7. PromptArms(inst, g, told, t)
    BY <1>3, <2>5, PromptShape
  <2>8. PICK C \in SUBSET Session :
          /\ Armed(g, hub', t, C)
          /\ inst[t].phase = "turn" \/ t \notin hub'.holding
          /\ owed' \in [Session -> SUBSET Session]
          /\ \A u, c \in Session : c \in owed'[u] => c \in told[u] \/ (u = t /\ c \in C /\ ~GoneForGood(inst, c))
    BY <2>4, <2>7 DEF PromptArms
  <2>9. /\ HubTyped(hub') /\ C \subseteq hub'.armed[t]
        /\ \A u \in Session : hub.armed[u] \subseteq hub'.armed[u]
        /\ \A u \in Session \ {t} : hub'.armed[u] = hub.armed[u] /\ hub'.queued[u] = hub.queued[u]
        /\ Range(hub'.queued[t]) \subseteq Range(hub.queued[t])
        /\ hub'.queued = g.queued /\ hub'.deferred = hub.deferred
        /\ hub'.holding \subseteq hub.holding /\ \A x \in hub.holding : x \in hub'.holding \/ x = t
    BY <1>3, <2>8 DEF Armed
  <2>10. t \notin hub'.holding
    BY <2>8, <2>9, Parts
  <2>11. \A c \in Session : WakesFor(hub', c) = WakesFor(g, c)
    BY <1>3, <2>9 DEF WakesFor
  <2>12. \A u, c \in Session : Expects(inst, hub, c, u) /\ ~(c = t /\ Reports(inst, w, u)) => Expects(inst, hub', c, u)
    <3> SUFFICES ASSUME NEW u \in Session, NEW c \in Session, Expects(inst, hub, c, u),
                        ~(c = t /\ Reports(inst, w, u))
                 PROVE  Expects(inst, hub', c, u)
      OBVIOUS
    <3>1. CASE c \in hub.armed[u]
      BY <2>9, <3>1 DEF Expects
    <3>2. CASE \E v \in WakesFor(hub, c) : Reports(inst, v, u)
      <4>1. PICK v \in WakesFor(hub, c) : Reports(inst, v, u)
        BY <3>2
      <4>2. v \in WakesFor(g, c)
        BY <1>5, <4>1
      <4> QED BY <2>11, <4>1, <4>2 DEF Expects
    <3> QED BY <3>1, <3>2 DEF Expects
  <2>13. \A u, c \in Session : c \in owed'[u] =>
           (c \in owed[u] /\ (Expects(inst, hub, c, u) => Expects(inst, hub', c, u)))
             \/ (c \in hub'.armed[u] /\ ~GoneForGood(inst, c))
    BY <2>6, <2>8, <2>9, <2>12
  <2> QED BY <1>1, <1>4, <1>6, <2>1, <2>2, <2>8, <2>9, <2>10, <2>13, InTurn
<1>7. CASE ~Proc(inst, t)
  <2>1. hub' = EndInFlight(inst, h, t) /\ inst' = inst /\ owed' = owed
    BY <1>7 DEF SendWake, Dequeued
  <2>2. hub' = g
    BY <1>7, <2>1 DEF EndInFlight, ReleaseHeld, Idle, Proc, Sent, Uncounted
  <2> HIDE DEF g, h, told, w
  <2>3. Keeps(inst', hub', hub')
    BY <1>3, <2>2, KeepsSelf
  <2>4. ASSUME NEW u \in Session, NEW c \in Session, c \in owed'[u], inst'[c].phase # "relaunch"
        PROVE  Expects(inst', hub', c, u)
    <3>1. ~GoneForGood(inst, c) /\ Expects(inst, hub, c, u)
      BY <2>1, <2>4 DEF IInv, OwedLive, WakeNotLost
    <3>2. inst[c].phase \in Phase
      BY <1>1 DEF Inst
    <3>3. c # t
      BY <1>7, <2>1, <2>4, <3>1, <3>2 DEF Proc, GoneForGood, Phase
    <3>4. WakesFor(hub', c) = WakesFor(hub, c)
      BY <1>5, <2>2, <3>3
    <3> QED BY <1>3, <2>1, <2>2, <3>1, <3>4 DEF Expects
  <2>5. ASSUME NEW c \in Session PROVE ParkedAt(inst', hub', c) /\ HoldAt(inst', hub', c)
    <3>1. ParkedAt(inst, hub, c) /\ HoldAt(inst, hub, c)
      BY Parts
    <3> QED BY <1>3, <2>1, <2>2, <3>1 DEF ParkedAt, HoldAt
  <2>6. ASSUME NEW S \in SUBSET Session, Stuck(inst', hub', S) PROVE FALSE
    <3>1. t \notin S
      BY <1>7, <2>1, <2>6 DEF Stuck, Held, Idle, Proc
    <3>2. \A y \in S : Held(inst, hub, y) /\ hub.queued[y] = <<>>
      BY <1>3, <2>1, <2>2, <2>6, <3>1 DEF Stuck, Held
    <3>3. Stuck(inst, hub, S)
      BY <1>3, <2>1, <2>2, <2>6, <3>2 DEF Stuck
    <3> QED BY <3>3 DEF IInv, NoStuck
  <2>7. \A u, c \in Session : c \in owed'[u] => ~GoneForGood(inst', c)
    BY <2>1 DEF IInv, OwedLive
  <2>8. \A c \in Session : WakesFor(hub', c) \subseteq WakesFor(hub, c)
    BY <1>5, <2>2
  <2> QED BY <1>1, <1>4, <2>1, <2>3, <2>4, <2>5, <2>6, <2>7, <2>8, Carried
<1> QED BY <1>6, <1>7

-----------------------------------------------------------------------------
(* Between turns *)

\* g is h with perhaps another settle.
Resettled(h, g) ==
  /\ HubTyped(g)
  /\ g.armed = h.armed /\ g.holding = h.holding /\ g.deferred = h.deferred /\ g.queued = h.queued

LEMMA SettleOnly ==
  ASSUME NEW h, HubTyped(h), NEW t \in Session, NEW v \in {"none", "armed", "void"}
  PROVE  Resettled(h, [h EXCEPT !.settle[t] = v])
<1> DEFINE g == [h EXCEPT !.settle[t] = v]
<1>1. h \in Hub
  BY DEF HubTyped
<1>2. /\ g \in Hub
      /\ g.armed = h.armed /\ g.holding = h.holding /\ g.deferred = h.deferred /\ g.queued = h.queued
      /\ g.inFlight = h.inFlight /\ g.asked = h.asked
  BY <1>1 DEF Hub
<1>3. HubTyped(g)
  BY <1>2 DEF HubTyped
<1> QED BY <1>2, <1>3 DEF Resettled

\* A step that changes what inst says of t and the settle, then does what keeps a hub.
LEMMA Between ==
  ASSUME IInv, NEW t \in Session, NEW h0, Resettled(hub, h0), Keeps(inst', h0, hub'),
         inst' \in [Session -> Inst], SameOff(inst', inst, t),
         owed' \in [Session -> SUBSET Session], starts' \in 0..MaxStarts,
         GoneForGood(inst, t) => GoneForGood(inst', t),
         \A u, c \in Session : c \in owed'[u] =>
           /\ c \in owed[u]
           /\ c = t => ~GoneForGood(inst', t)
           /\ c = t /\ inst[t].phase = "relaunch" /\ inst'[t].phase # "relaunch" => Expects(inst, hub, t, u),
         HoldAt(inst', hub, t), ParkedAt(inst', hub, t) \/ ParkedAt(inst', hub', t),
         (Held(inst', hub, t) => Held(inst, hub, t)) \/ \A S \in SUBSET Session : Stuck(inst', hub', S) => t \notin S
  PROVE  IInv' /\ Fresh
<1>1. /\ h0.armed = hub.armed /\ h0.holding = hub.holding /\ h0.deferred = hub.deferred /\ h0.queued = hub.queued
  BY DEF Resettled
<1>2. \A c \in Session : WakesFor(h0, c) = WakesFor(hub, c)
  BY <1>1 DEF WakesFor
<1>3. \A c \in Session \ {t} : GoneForGood(inst', c) <=> GoneForGood(inst, c)
  BY DEF GoneForGood, SameOff
<1>4. ASSUME NEW u \in Session, NEW c \in Session, c \in owed'[u] PROVE ~GoneForGood(inst', c)
  BY <1>3, <1>4 DEF IInv, OwedLive
<1>5. ASSUME NEW u \in Session, NEW c \in Session, c \in owed'[u], inst'[c].phase # "relaunch"
      PROVE  Expects(inst', h0, c, u)
  <2>1. Expects(inst, hub, c, u)
    BY <1>5 DEF IInv, WakeNotLost, SameOff
  <2>2. Expects(inst', hub, c, u)
    BY <1>3, <2>1, ExpectsMonotone
  <2> QED BY <1>1, <1>2, <2>2 DEF Expects
<1>6. ASSUME NEW c \in Session PROVE ParkedAt(inst', h0, c) \/ ParkedAt(inst', hub', c)
  <2>1. ParkedAt(inst, hub, c)
    BY Parts
  <2>2. CASE c = t
    BY <1>1, <2>2 DEF ParkedAt
  <2>3. CASE c # t
    BY <1>1, <2>1, <2>3 DEF ParkedAt, SameOff, GoneForGood, Idle
  <2> QED BY <2>2, <2>3
<1>7. ASSUME NEW x \in Session PROVE HoldAt(inst', h0, x)
  <2>1. HoldAt(inst, hub, x)
    BY Parts
  <2>2. CASE x = t
    BY <1>1, <2>2 DEF HoldAt
  <2>3. CASE x # t
    BY <1>1, <2>1, <2>3 DEF HoldAt, SameOff, Idle, TargetDefers
  <2> QED BY <2>2, <2>3
<1>8. ASSUME NEW S \in SUBSET Session, Stuck(inst', h0, S), Stuck(inst', hub', S) PROVE FALSE
  <2>1. Stuck(inst', hub, S)
    BY <1>1, <1>8 DEF Stuck, Held
  <2>2. Stuck(inst, hub, S)
    <3>1. CASE t \notin S
      <4>1. SameOff(inst, inst', t)
        BY DEF SameOff
      <4> QED BY <2>1, <3>1, <4>1, StuckOff
    <3>2. CASE Held(inst', hub, t) => Held(inst, hub, t)
      <4>1. \A y \in S \ {t} : Held(inst', hub, y) => Held(inst, hub, y)
        BY DEF SameOff, Held, Idle, TargetDefers
      <4> QED BY <2>1, <3>2, <4>1 DEF Stuck
    <3> QED BY <1>8, <3>1, <3>2
  <2> QED BY <2>2 DEF IInv, NoStuck
<1>9. \A c \in Session : WakesFor(h0, c) \subseteq WakesFor(hub, c)
  BY <1>2
<1> QED BY <1>4, <1>5, <1>6, <1>7, <1>8, <1>9, Carried

\* The last background task ends.
LEMMA TaskEndsInv == ASSUME IInv, NEW t \in Session, TaskEnds(t) PROVE IInv' /\ Fresh
<1> DEFINE i == [inst EXCEPT ![t].tasks = FALSE, ![t].notified = inst[t].phase = "turn"]
<1>1. /\ inst \in [Session -> Inst] /\ HubTyped(hub) /\ owed \in [Session -> SUBSET Session]
      /\ starts \in 0..MaxStarts /\ HoldAt(inst, hub, t) /\ ParkedAt(inst, hub, t)
  BY Parts
<1>2. /\ inst[t].tasks /\ Proc(inst, t) /\ inst' = i /\ hub' = OnTaskEvent(i, hub, t)
      /\ owed' = owed /\ starts' = starts
  BY DEF TaskEnds
<1>3. i \in [Session -> Inst] /\ SameOff(i, inst, t) /\ i[t].phase = inst[t].phase /\ i[t].steered = inst[t].steered
  <2> DEFINE b == inst[t].phase = "turn"
             r == [inst[t] EXCEPT !.tasks = FALSE, !.notified = b]
  <2>1. inst[t] \in Inst /\ b \in BOOLEAN
    BY <1>1
  <2>2. i = [inst EXCEPT ![t] = r]
    BY <1>1
  <2> HIDE DEF b
  <2>3. r \in Inst /\ r.phase = inst[t].phase /\ r.steered = inst[t].steered
    BY <2>1 DEF Inst
  <2> HIDE DEF r, i
  <2> QED BY <1>1, <2>2, <2>3 DEF SameOff
<1> HIDE DEF i
<1>4. Resettled(hub, hub')
  <2>1. CASE hub.armed[t] = {}
    <3>1. hub' = hub
      BY <1>2, <2>1 DEF OnTaskEvent
    <3> QED BY <1>1, <3>1 DEF Resettled
  <2>2. CASE hub.armed[t] # {}
    <3>1. \E v \in {"none", "armed", "void"} : hub' = [hub EXCEPT !.settle[t] = v]
      BY <1>2, <2>2 DEF OnTaskEvent
    <3>2. PICK v \in {"none", "armed", "void"} : hub' = [hub EXCEPT !.settle[t] = v]
      BY <3>1
    <3>3. Resettled(hub, [hub EXCEPT !.settle[t] = v])
      BY <1>1, SettleOnly
    <3> QED BY <3>2, <3>3
  <2> QED BY <2>1, <2>2
<1>5. CASE inst[t].phase = "turn"
  <2>1. /\ HubTyped(hub') /\ hub'.armed = hub.armed /\ hub'.queued = hub.queued /\ hub'.deferred = hub.deferred
        /\ hub'.holding = hub.holding
    BY <1>4 DEF Resettled
  <2> QED BY <1>1, <1>2, <1>3, <1>5, <2>1, MidTurn
<1>6. CASE inst[t].phase # "turn"
  <2>1. Idle(inst, t) /\ TargetDefers(inst, t)
    BY <1>2, <1>6 DEF Proc, Idle, TargetDefers
  <2>2. t \notin hub.holding
    BY <1>1, <2>1 DEF HoldAt
  <2>3. HoldAt(inst', hub, t) /\ ~Held(inst', hub, t)
    BY <2>2 DEF HoldAt, Held
  <2>4. ParkedAt(inst', hub, t)
    BY <1>1, <1>2, <1>3 DEF ParkedAt, GoneForGood, Idle
  <2>5. HubTyped(hub') /\ ~GoneForGood(inst, t) /\ inst[t].phase # "relaunch" /\ ~GoneForGood(inst', t)
    BY <1>2, <1>3, <1>4, <2>1 DEF Resettled, GoneForGood, Idle
  <2>6. Keeps(inst', hub', hub')
    BY <2>5, KeepsSelf
  <2> QED BY <1>1, <1>2, <1>3, <1>4, <2>3, <2>4, <2>5, <2>6, Between
<1> QED BY <1>5, <1>6

\* The CLI announces a turn.
LEMMA OpenReinvocationInv == ASSUME IInv, NEW t \in Session, OpenReinvocation(t) PROVE IInv' /\ Fresh
<1>1. /\ inst \in [Session -> Inst] /\ HubTyped(hub) /\ owed \in [Session -> SUBSET Session]
      /\ starts \in 0..MaxStarts /\ HoldAt(inst, hub, t) /\ ParkedAt(inst, hub, t)
  BY Parts
<1>2. /\ inst[t].phase = "idle" /\ inst' = [inst EXCEPT ![t].phase = "opening"]
      /\ hub' = hub /\ owed' = owed /\ starts' = starts
  BY DEF OpenReinvocation
<1>3. /\ inst' \in [Session -> Inst] /\ SameOff(inst', inst, t) /\ inst'[t].phase = "opening"
      /\ TargetDefers(inst', t) <=> TargetDefers(inst, t)
      /\ inst'[t].steered = inst[t].steered
  BY <1>1, <1>2 DEF Inst, Phase, SameOff, TargetDefers
<1>4. Idle(inst, t) /\ Idle(inst', t) /\ ~GoneForGood(inst, t) /\ ~GoneForGood(inst', t)
  BY <1>2, <1>3 DEF Idle, GoneForGood
<1>5. HoldAt(inst', hub, t) /\ (Held(inst', hub, t) => Held(inst, hub, t))
  BY <1>1, <1>2, <1>3, <1>4 DEF HoldAt, Held
<1>6. ParkedAt(inst', hub, t)
  BY <1>1, <1>2, <1>3, <1>4 DEF ParkedAt
<1>7. Keeps(inst', hub, hub') /\ Resettled(hub, hub)
  BY <1>1, <1>2, KeepsSelf DEF Resettled
<1> QED BY <1>1, <1>2, <1>3, <1>4, <1>5, <1>6, <1>7, Between

\* A step that changes the hub only, and keeps it.
LEMMA HubOnly ==
  ASSUME IInv, NEW t \in Session, NEW h0, Resettled(hub, h0), Keeps(inst, h0, hub'),
         inst' = inst, owed' = owed, starts' \in 0..MaxStarts
  PROVE  IInv' /\ Fresh
<1>1. /\ inst \in [Session -> Inst] /\ owed \in [Session -> SUBSET Session]
      /\ HoldAt(inst, hub, t) /\ ParkedAt(inst, hub, t)
  BY Parts
<1>2. SameOff(inst', inst, t)
  BY DEF SameOff
<1>3. \A u, c \in Session : c \in owed'[u] => c \in owed[u] /\ (c = t => ~GoneForGood(inst', t))
  BY DEF IInv, OwedLive
<1> QED BY <1>1, <1>2, <1>3, Between

\* The settle fires.
LEMMA FireSettleInv == ASSUME IInv, NEW t \in Session, FireSettle(t) PROVE IInv' /\ Fresh
<1> DEFINE h == [hub EXCEPT !.settle[t] = "none"]
           quiet == inst[t].phase = "idle" /\ ~inst[t].tasks /\ ~inst[t].notified
<1>1. inst \in [Session -> Inst] /\ HubTyped(hub) /\ starts \in 0..MaxStarts
  BY Parts
<1>2. /\ ~(inst[t].steered /\ Idle(inst, t))
      /\ hub' = IF hub.settle[t] = "armed" /\ quiet THEN Decide(inst, h, t) ELSE h
      /\ inst' = inst /\ owed' = owed /\ starts' = starts
  BY DEF FireSettle
<1>3. Resettled(hub, h)
  BY <1>1, SettleOnly
<1>4. HubTyped(h)
  BY <1>3 DEF Resettled
<1> HIDE DEF h
<1>5. Keeps(inst, h, hub')
  <2>1. CASE hub.settle[t] = "armed" /\ quiet
    <3>1. Idle(inst, t) /\ ~TargetDefers(inst, t)
      BY <1>2, <2>1 DEF Idle, TargetDefers
    <3>2. hub' = Decide(inst, h, t)
      BY <1>2, <2>1
    <3> QED BY <1>1, <1>4, <3>1, <3>2, Decided
  <2>2. CASE ~(hub.settle[t] = "armed" /\ quiet)
    <3>1. hub' = h
      BY <1>2, <2>2
    <3> QED BY <1>4, <3>1, KeepsSelf
  <2> QED BY <2>1, <2>2
<1> QED BY <1>1, <1>2, <1>3, <1>5, HubOnly

\* A wake that claims nothing keeps the hub, whoever it is sent to.
LEMMA Pinged ==
  ASSUME NEW i, NEW h, HubTyped(h), NEW c \in Session, NEW w \in Wake, \A u \in Session : w # Done(u)
  PROVE  Keeps(i, h, DeliverAll(i, h, {c}, w))
<1> DEFINE C == {c}
           g == DeliverAll(i, h, C, w)
<1>1. C \in SUBSET Session
  OBVIOUS
<1> HIDE DEF C
<1>2. HubTyped(g) /\ g.armed = h.armed /\ g.holding = h.holding
  <2>1. HubTyped(g)
    BY <1>1, DeliverShape
  <2> QED BY <1>1, <2>1, DeliverArmed
<1>3. \A d \in Session :
        /\ WakesFor(g, d) = IF d \in C /\ Proc(i, d) THEN WakesFor(h, d) \union {w} ELSE WakesFor(h, d)
        /\ g.queued[d] = <<>> /\ g.deferred[d] = <<>> =>
             ~(d \in C /\ Proc(i, d)) /\ h.queued[d] = <<>> /\ h.deferred[d] = <<>>
  <2>1. Underway(i, h, g, C, w)
    BY <1>1, DeliverWakes
  <2> HIDE DEF g
  <2> QED BY <2>1 DEF Underway
<1>4. \A d \in Session : g.deferred[d] = h.deferred[d] \/ i[d].phase = "turn"
  BY <1>1, DeliverShape DEF Waits
<1> HIDE DEF g
<1>5. \A d, u \in Session : Expects(i, h, d, u) => Expects(i, g, d, u)
  BY <1>2, <1>3 DEF Expects
<1>6. \A d, u \in Session : Done(u) \in WakesFor(g, d) => Done(u) \in WakesFor(h, d)
  BY <1>3
<1>7. \A d \in Session : ParkedAt(i, h, d) => ParkedAt(i, g, d)
  BY <1>4 DEF ParkedAt
<1>8. \A x \in Session : HoldAt(i, h, x) => HoldAt(i, g, x)
  BY <1>2 DEF HoldAt
<1>9. ASSUME NEW S \in SUBSET Session, Stuck(i, g, S) PROVE Stuck(i, h, S)
  BY <1>2, <1>3, <1>9 DEF Stuck, Held
<1>10. Keeps(i, h, g)
  BY <1>2, <1>5, <1>6, <1>7, <1>8, <1>9 DEF Keeps
<1> QED BY <1>10 DEF g, C

\* A heartbeat, and the one that retires the entry of a target gone for good.
LEMMA HeartbeatInv ==
  ASSUME IInv, NEW t \in Session, NEW c \in Session, Heartbeat(c, t) PROVE IInv' /\ Fresh
<1> DEFINE ping == [of |-> t, kind |-> "timedOut"]
<1>1. inst \in [Session -> Inst] /\ HubTyped(hub) /\ starts \in 0..MaxStarts
  BY Parts
<1>2. Resettled(hub, hub)
  BY <1>1 DEF Resettled
<1>3. /\ c \in hub.armed[t] /\ inst' = inst /\ owed' = owed /\ (starts' = starts \/ Outside)
      /\ hub' = IF GoneForGood(inst, t) THEN DeliverAll(inst, DropArmed(hub, t, c), {c}, ping)
                ELSE DeliverAll(inst, hub, {c}, ping)
  BY DEF Heartbeat, Deliver
<1>4. starts' \in 0..MaxStarts
  BY <1>1, <1>3, OutsideBound
<1>5. ping \in Wake /\ ping.kind # "finished" /\ \A u \in Session : ping # Done(u)
  <2>1. ping.kind = "timedOut" /\ \A u \in Session : Done(u).kind = "finished"
    BY DEF Done
  <2> QED BY <2>1 DEF Wake
<1>6. CASE GoneForGood(inst, t)
  <2>1. Stripped(hub, DropArmed(hub, t, c), t, {c})
    BY <1>1, <1>3, DropsArmed
  <2>2. Reports(inst, ping, t)
    BY <1>6 DEF Reports
  <2>3. Keeps(inst, hub, hub')
    BY <1>1, <1>3, <1>5, <1>6, <2>1, <2>2, Told
  <2> QED BY <1>2, <1>3, <1>4, <2>3, HubOnly
<1>7. CASE ~GoneForGood(inst, t)
  <2>1. Keeps(inst, hub, hub')
    BY <1>1, <1>3, <1>5, <1>7, Pinged
  <2> QED BY <1>2, <1>3, <1>4, <2>1, HubOnly
<1> QED BY <1>6, <1>7

\* A conductor cuts a worker's turn short and drops its own entry.
LEMMA ForceInterruptInv ==
  ASSUME IInv, NEW t \in Session, NEW c \in Session, ForceInterrupt(c, t) PROVE IInv' /\ Fresh
<1> DEFINE C == {c} \intersect hub.armed[t]
<1>1. /\ inst \in [Session -> Inst] /\ HubTyped(hub) /\ owed \in [Session -> SUBSET Session]
      /\ starts \in 0..MaxStarts
  BY Parts
<1>2. /\ inst[c].phase = "turn" /\ inst[t].phase = "turn" /\ hub' = DisarmSilently(hub, t, c)
      /\ inst' = [inst EXCEPT ![t].aborted = TRUE] /\ owed' = [owed EXCEPT ![t] = @ \ {c}] /\ starts' = starts
  BY DEF ForceInterrupt
<1>3. Stripped(hub, hub', t, C)
  <2>1. CASE c \in hub.armed[t]
    <3>1. hub' = DropArmed(hub, t, c)
      BY <1>2, <2>1 DEF DisarmSilently, ReleaseHeld, Idle
    <3>2. C = {c}
      BY <2>1
    <3> QED BY <1>1, <2>1, <3>1, <3>2, DropsArmed
  <2>2. CASE c \notin hub.armed[t]
    <3>1. hub' = hub
      BY <1>2, <2>2 DEF DisarmSilently
    <3>2. hub.armed[t] \ C = hub.armed[t]
      BY <2>2
    <3> HIDE DEF C
    <3> QED BY <1>1, <3>1, <3>2 DEF Stripped
  <2> QED BY <2>1, <2>2
<1>4. /\ HubTyped(hub') /\ hub'.deferred = hub.deferred /\ hub'.queued = hub.queued
      /\ hub'.holding \subseteq hub.holding
      /\ \A u \in Session : \A d \in hub.armed[u] : d \in hub'.armed[u] \/ (u = t /\ d = c)
      /\ \A u \in Session \ {t} : hub'.armed[u] = hub.armed[u]
  BY <1>3 DEF Stripped
<1>5. /\ inst' \in [Session -> Inst] /\ SameOff(inst', inst, t)
      /\ \A x \in Session : /\ inst'[x].phase = inst[x].phase /\ inst'[x].steered = inst[x].steered
                            /\ TargetDefers(inst', x) <=> TargetDefers(inst, x)
  BY <1>1, <1>2 DEF Inst, SameOff, TargetDefers
<1>6. owed' \in [Session -> SUBSET Session] /\ \A u, d \in Session : d \in owed'[u] => d \in owed[u] /\ ~(u = t /\ d = c)
  BY <1>1, <1>2
<1> HIDE DEF C
<1>7. \A x \in Session : (GoneForGood(inst', x) <=> GoneForGood(inst, x)) /\ (Idle(inst', x) <=> Idle(inst, x))
  BY <1>5 DEF GoneForGood, Idle
<1>8. \A d \in Session : WakesFor(hub', d) = WakesFor(hub, d)
  BY <1>4 DEF WakesFor
<1>9. ASSUME NEW u \in Session, NEW d \in Session, d \in owed'[u], inst'[d].phase # "relaunch"
      PROVE  Expects(inst', hub', d, u)
  <2>1. Expects(inst, hub, d, u)
    BY <1>5, <1>6, <1>9 DEF IInv, WakeNotLost
  <2>2. CASE d \in hub.armed[u]
    BY <1>4, <1>6, <1>9, <2>2 DEF Expects
  <2>3. CASE \E w \in WakesFor(hub, d) : Reports(inst, w, u)
    BY <1>7, <1>8, <2>3 DEF Expects, Reports
  <2> QED BY <2>1, <2>2, <2>3 DEF Expects
<1>10. ASSUME NEW x \in Session PROVE ParkedAt(inst', hub', x) /\ HoldAt(inst', hub', x)
  <2>1. ParkedAt(inst, hub, x) /\ HoldAt(inst, hub, x)
    BY Parts
  <2> QED BY <1>4, <1>5, <1>7, <2>1 DEF ParkedAt, HoldAt
<1>11. ASSUME NEW S \in SUBSET Session, Stuck(inst', hub', S) PROVE FALSE
  <2>1. c \notin S /\ t \notin S
    BY <1>2, <1>5, <1>11 DEF Stuck, Held, Idle
  <2>2. \A y \in S : Held(inst, hub, y) /\ hub.armed[y] # {} /\ hub.queued[y] = <<>> /\ hub.deferred[y] = <<>>
    BY <1>4, <1>5, <1>7, <1>11, <2>1 DEF Stuck, Held
  <2>3. \A y \in S, u \in Session : y \in hub.armed[u] => u \in S
    BY <1>4, <1>11, <2>1 DEF Stuck
  <2>4. Stuck(inst, hub, S)
    BY <1>11, <2>2, <2>3 DEF Stuck
  <2> QED BY <2>4 DEF IInv, NoStuck
<1>12. Keeps(inst', hub', hub')
  BY <1>4, KeepsSelf
<1>13. \A u, d \in Session : d \in owed'[u] => ~GoneForGood(inst', d)
  BY <1>6, <1>7 DEF IInv, OwedLive
<1>14. \A d \in Session : WakesFor(hub', d) \subseteq WakesFor(hub, d)
  BY <1>8
<1> QED BY <1>1, <1>2, <1>5, <1>6, <1>9, <1>10, <1>11, <1>12, <1>13, <1>14, Carried

\* A turn's end: the owners are told or held, then the wakes held back for t go out.
LEMMA TurnEndsInv == ASSUME IInv, NEW t \in Session, TurnEnds(t) PROVE IInv' /\ Fresh
<1> DEFINE i == [inst EXCEPT ![t].phase = "idle"]
           h == [hub EXCEPT !.settle[t] = "none"]
           g == OnTurnEnd(i, hub, t)
<1>1. /\ inst \in [Session -> Inst] /\ HubTyped(hub) /\ owed \in [Session -> SUBSET Session]
      /\ starts \in 0..MaxStarts
  BY Parts
<1>2. /\ inst[t].phase = "turn" /\ inst' = i /\ hub' = FlushDeferred(i, g, t) /\ owed' = owed /\ starts' = starts
  BY DEF TurnEnds
<1>3. i \in [Session -> Inst] /\ SameOff(i, inst, t) /\ i[t].phase = "idle"
  BY <1>1 DEF Inst, Phase, SameOff
<1>4. Resettled(hub, h)
  BY <1>1, SettleOnly
<1>5. g = IF TargetDefers(i, t) THEN h ELSE Decide(i, h, t)
  BY DEF OnTurnEnd
<1>6. HubTyped(h) /\ Idle(i, t)
  BY <1>3, <1>4 DEF Resettled, Idle
<1>7. Keeps(i, h, g)
  <2> HIDE DEF i, h, g
  <2>1. CASE TargetDefers(i, t)
    BY <1>5, <1>6, <2>1, KeepsSelf
  <2>2. CASE ~TargetDefers(i, t)
    BY <1>3, <1>5, <1>6, <2>2, Decided
  <2> QED BY <2>1, <2>2
<1> HIDE DEF i, h, g
<1>8. HubTyped(g) /\ i[t].phase # "turn"
  BY <1>3, <1>7 DEF Keeps
<1>9. Keeps(i, g, FlushDeferred(i, g, t)) /\ ParkedAt(i, FlushDeferred(i, g, t), t)
  BY <1>8, Flushed
<1>10. Keeps(inst', h, hub') /\ ParkedAt(inst', hub', t)
  BY <1>2, <1>7, <1>9, KeepsTrans
<1>11. t \notin hub.holding
  BY <1>2, Parts
<1>12. HoldAt(inst', hub, t) /\ ~Held(inst', hub, t)
  BY <1>11 DEF HoldAt, Held
<1>13. ~GoneForGood(inst, t) /\ ~GoneForGood(inst', t) /\ inst[t].phase # "relaunch"
  BY <1>2, <1>3 DEF GoneForGood
<1> QED BY <1>1, <1>2, <1>3, <1>4, <1>10, <1>12, <1>13, Between

\* A prune takes the process away.
LEMMA PruneBeginsInv == ASSUME IInv, NEW t \in Session, PruneBegins(t) PROVE IInv' /\ Fresh
<1>1. /\ inst \in [Session -> Inst] /\ HubTyped(hub) /\ owed \in [Session -> SUBSET Session]
      /\ starts \in 0..MaxStarts /\ ParkedAt(inst, hub, t)
  BY Parts
<1>2. /\ Idle(inst, t) /\ ~inst[t].steered /\ Outside /\ inst' = [inst EXCEPT ![t].phase = "relaunch"]
      /\ hub' = [hub EXCEPT !.settle[t] = IF @ = "none" THEN "none" ELSE "void"] /\ owed' = owed
  BY DEF PruneBegins
<1>3. inst' \in [Session -> Inst] /\ SameOff(inst', inst, t) /\ inst'[t].phase = "relaunch"
  BY <1>1, <1>2 DEF Inst, Phase, SameOff
<1>4. Resettled(hub, hub')
  <2> DEFINE v == IF hub.settle[t] = "none" THEN "none" ELSE "void"
  <2>1. v \in {"none", "armed", "void"}
    OBVIOUS
  <2>2. hub' = [hub EXCEPT !.settle[t] = v]
    BY <1>2
  <2> HIDE DEF v
  <2>3. Resettled(hub, [hub EXCEPT !.settle[t] = v])
    BY <1>1, <2>1, SettleOnly
  <2> QED BY <2>2, <2>3
<1>5. Keeps(inst', hub', hub')
  BY <1>4, KeepsSelf DEF Resettled
<1>6. ParkedAt(inst', hub, t)
  BY <1>1, <1>2 DEF ParkedAt, Idle, GoneForGood
<1>7. HoldAt(inst', hub, t) /\ ~Held(inst', hub, t)
  BY <1>3 DEF HoldAt, Held, Idle
<1>8. ~GoneForGood(inst, t) /\ ~GoneForGood(inst', t) /\ inst[t].phase # "relaunch"
  BY <1>2, <1>3 DEF GoneForGood, Idle
<1>9. starts' \in 0..MaxStarts
  BY <1>1, <1>2, OutsideBound
<1> QED BY <1>1, <1>2, <1>3, <1>4, <1>5, <1>6, <1>7, <1>8, <1>9, Between

\* ... and brings it up idle, with a decision of its own.
LEMMA PruneEndsInv == ASSUME IInv, NEW t \in Session, PruneEnds(t) PROVE IInv' /\ Fresh
<1> DEFINE r == [phase |-> "idle", tasks |-> FALSE, notified |-> FALSE, steered |-> FALSE, aborted |-> FALSE]
           i == [inst EXCEPT ![t] = r]
<1>1. /\ inst \in [Session -> Inst] /\ HubTyped(hub) /\ owed \in [Session -> SUBSET Session]
      /\ starts \in 0..MaxStarts /\ ParkedAt(inst, hub, t)
  BY Parts
<1>2. /\ inst[t].phase = "relaunch" /\ inst' = i /\ hub' = OnRotationComplete(i, hub, t) /\ starts' = starts
      /\ owed' = [u \in Session |-> IF Expects(inst, hub, t, u) THEN owed[u] ELSE owed[u] \ {t}]
  BY DEF PruneEnds
<1>3. i \in [Session -> Inst] /\ SameOff(i, inst, t) /\ Idle(i, t) /\ ~TargetDefers(i, t)
  BY <1>1 DEF Inst, Phase, SameOff, Idle, TargetDefers
<1>4. owed' \in [Session -> SUBSET Session]
      /\ \A u, c \in Session : c \in owed'[u] => c \in owed[u] /\ (c = t => Expects(inst, hub, t, u))
  BY <1>1, <1>2
<1> HIDE DEF r, i
<1>5. Keeps(inst', hub, hub') /\ \A S \in SUBSET Session : Stuck(inst', hub', S) => t \notin S
  BY <1>1, <1>2, <1>3, RotationCompleted
<1>6. HoldAt(inst', hub, t) /\ ~GoneForGood(inst', t) /\ ~GoneForGood(inst, t)
  BY <1>2, <1>3 DEF HoldAt, Idle, GoneForGood
<1>7. ParkedAt(inst', hub, t)
  BY <1>1, <1>2 DEF ParkedAt, GoneForGood, Idle
<1>8. Resettled(hub, hub)
  BY <1>1 DEF Resettled
<1> QED BY <1>1, <1>2, <1>3, <1>4, <1>5, <1>6, <1>7, <1>8, Between

\* A death whose last words keep the hub.
LEMMA Deaths ==
  ASSUME IInv, NEW t \in Session, NEW h, Keeps(Died(t), hub, h),
         inst' = Died(t), hub' = AfterDeath(h, t), owed' = WithoutRecipient(t), starts' = starts
  PROVE  IInv' /\ Fresh
<1>1. /\ inst \in [Session -> Inst] /\ HubTyped(hub) /\ owed \in [Session -> SUBSET Session]
      /\ starts \in 0..MaxStarts
  BY Parts
<1>2. inst' \in [Session -> Inst] /\ SameOff(inst', inst, t) /\ inst'[t].phase = "dead"
  BY <1>1 DEF Died, Inst, Phase, SameOff
<1>3. owed' \in [Session -> SUBSET Session] /\ \A u, c \in Session : c \in owed'[u] => c \in owed[u] /\ c # t
  BY <1>1 DEF WithoutRecipient
<1>4. HubTyped(h)
  BY DEF Keeps
<1>5. Keeps(inst', h, hub')
  <2>1. CASE inst[t].steered
    <3>1. hub' = FlushDeferred(inst', h, t)
      BY <2>1 DEF AfterDeath
    <3> QED BY <1>2, <1>4, <3>1, Flushed
  <2>2. CASE ~inst[t].steered
    <3>1. hub' = h
      BY <2>2 DEF AfterDeath
    <3> QED BY <1>4, <3>1, KeepsSelf
  <2> QED BY <2>1, <2>2
<1>6. Keeps(inst', hub, hub')
  BY <1>5, KeepsTrans
<1>7. GoneForGood(inst', t) /\ HoldAt(inst', hub, t) /\ ~Held(inst', hub, t) /\ ParkedAt(inst', hub, t)
  BY <1>2 DEF GoneForGood, HoldAt, Held, Idle, ParkedAt
<1>8. Resettled(hub, hub)
  BY <1>1 DEF Resettled
<1> QED BY <1>1, <1>2, <1>3, <1>6, <1>7, <1>8, Between

\* The CLI exits on its own.
LEMMA ExitInv == ASSUME IInv, NEW t \in Session, Exit(t) PROVE IInv' /\ Fresh
<1> DEFINE i == Died(t)
           w == [of |-> t, kind |-> "exited"]
           h == DeliverAll(i, Disarmed(hub, t), hub.armed[t], w)
<1>1. HubTyped(hub)
  BY Parts
<1>2. inst' = i /\ hub' = AfterDeath(h, t) /\ owed' = WithoutRecipient(t) /\ starts' = starts
  BY DEF Exit, OnTargetExit
<1>3. w \in Wake /\ w.kind # "finished" /\ Reports(i, w, t)
  BY DEF Wake, Reports
<1>4. Stripped(hub, Disarmed(hub, t), t, hub.armed[t])
  BY <1>1, Disarms
<1> HIDE DEF i, w
<1>5. Keeps(i, hub, h)
  BY <1>1, <1>3, <1>4, Told
<1> HIDE DEF h
<1> QED BY <1>2, <1>5, Deaths DEF i

\* It is killed.
LEMMA KillInv == ASSUME IInv, NEW t \in Session, Kill(t) PROVE IInv' /\ Fresh
<1>1. HubTyped(hub)
  BY Parts
<1>2. inst' = Died(t) /\ hub' = AfterDeath(hub, t) /\ owed' = WithoutRecipient(t) /\ starts' = starts
  BY DEF Kill
<1>3. Keeps(Died(t), hub, hub)
  BY <1>1, KeepsSelf
<1> QED BY <1>2, <1>3, Deaths

-----------------------------------------------------------------------------
(* A session leaves the graph *)

\* g is h without t: its entries, its holds, what waits for it.
Purges(h, g, t) ==
  /\ HubTyped(g)
  /\ g.armed[t] = {} /\ \A u \in Session \ {t} : g.armed[u] = h.armed[u] \ {t}
  /\ g.deferred[t] = <<>> /\ \A u \in Session \ {t} : g.deferred[u] = h.deferred[u]
  /\ g.queued = h.queued
  /\ g.holding \subseteq h.holding /\ t \notin g.holding

LEMMA PurgedShape ==
  ASSUME NEW h, HubTyped(h), NEW t \in Session
  PROVE  Purges(h, Purged(h, t), t)
<1> DEFINE lost == {u \in Session : h.armed[u] = {t}} \union {t}
           s == [u \in Session |-> IF u \in lost THEN "none" ELSE h.settle[u]]
           w == [u \in Session |-> IF u = t THEN {} ELSE h.owners[u] \ {t}]
           a == [u \in Session |-> IF u = t THEN {} ELSE h.armed[u] \ {t}]
           d == [h.deferred EXCEPT ![t] = <<>>]
           n == [h.inFlight EXCEPT ![t] = 0]
           g == Purged(h, t)
<1>1. /\ h \in Hub /\ \A u \in Session : h.inFlight[u] <= Len(h.queued[u])
      /\ h.armed \in [Session -> SUBSET Session] /\ h.owners \in [Session -> SUBSET Session]
      /\ h.deferred \in [Session -> Seq(Wake)] /\ h.inFlight \in [Session -> Nat]
      /\ h.queued \in [Session -> Seq(Wake)] /\ h.settle \in [Session -> {"none", "armed", "void"}]
      /\ h.asked \subseteq Asker
  BY HubFields DEF HubTyped
<1>2. /\ s \in [Session -> {"none", "armed", "void"}] /\ w \in [Session -> SUBSET Session]
      /\ a \in [Session -> SUBSET Session] /\ n \in [Session -> Nat]
  BY <1>1
<1>3. d \in [Session -> Seq(Wake)]
  <2>1. <<>> \in Seq(Wake)
    OBVIOUS
  <2> QED BY <1>1, <2>1
<1>4. g = [h EXCEPT !.asked = @ \ {t}, !.holding = @ \ lost, !.settle = s, !.owners = w, !.armed = a,
                    !.deferred = d, !.inFlight = n]
  BY DEF Purged
<1>5. /\ a[t] = {} /\ \A u \in Session \ {t} : a[u] = h.armed[u] \ {t}
      /\ d[t] = <<>> /\ \A u \in Session \ {t} : d[u] = h.deferred[u]
      /\ t \in lost
  BY <1>1
<1>6. \A u \in Session : n[u] <= Len(h.queued[u])
  <2> SUFFICES ASSUME NEW u \in Session PROVE n[u] <= Len(h.queued[u])
    OBVIOUS
  <2>1. Len(h.queued[u]) \in Nat
    BY <1>1
  <2>2. n[u] = IF u = t THEN 0 ELSE h.inFlight[u]
    BY <1>1
  <2> HIDE DEF n
  <2> QED BY <1>1, <2>1, <2>2
<1> HIDE DEF lost, s, w, a, d, n, g
<1>7. g \in Hub
  BY <1>1, <1>2, <1>3, <1>4 DEF Hub
<1>8. /\ g.asked = h.asked \ {t} /\ g.holding = h.holding \ lost /\ g.armed = a /\ g.deferred = d
      /\ g.inFlight = n /\ g.queued = h.queued
  BY <1>1, <1>4 DEF Hub
<1>9. HubTyped(g)
  BY <1>1, <1>6, <1>7, <1>8 DEF HubTyped
<1> QED BY <1>5, <1>8, <1>9 DEF Purges, g

\* A list of callers names every one of them.
LEMMA EveryCaller ==
  ASSUME NEW C \in SUBSET Session, NEW order \in SetToSeqs(C)
  PROVE  /\ order \in Seq(Session)
         /\ \A c \in C : \E k \in 1..Len(order) : order[k] = c
<1> DEFINE n == Cardinality(C)
<1>1. IsFiniteSet(C) /\ n \in Nat
  BY WakeHubAssumption, FS_Subset, FS_CardinalityType
<1>2. order \in [1..n -> C] /\ \A j, k \in 1..n : j # k => order[j] # order[k]
  BY DEF SetToSeqs
<1> HIDE DEF n
<1>3. order \in Injection(1..n, C)
  BY <1>2 DEF Injection, IsInjective
<1>4. Cardinality(1..n) = n
  <2>1. Cardinality(1..n) = IF 1 > n THEN 0 ELSE n - 1 + 1
    BY <1>1, FS_Interval
  <2> QED BY <1>1, <2>1
<1>5. order \in Surjection(1..n, C)
  BY <1>1, <1>3, <1>4, FS_Injection DEF n
<1>6. order \in Seq(C) /\ Len(order) = n
  BY <1>1, <1>2
<1>7. order \in Seq(Session)
  BY <1>1, <1>2
<1> QED BY <1>5, <1>6, <1>7 DEF Surjection

\* A stuck set of the hub without t, that had no entry on t, was one with t.
LEMMA PurgedStuck ==
  ASSUME NEW i, NEW h, NEW g, NEW t \in Session, Purges(h, g, t), NEW S \in SUBSET Session, Stuck(i, g, S),
         \A c \in h.armed[t] : c \notin S
  PROVE  Stuck(i, h, S)
<1>1. t \notin S
  BY DEF Stuck, Held, Purges
<1>2. \A y \in S : /\ Held(i, h, y) /\ h.armed[y] # {}
                   /\ h.queued[y] = <<>> /\ h.deferred[y] = <<>>
  BY <1>1 DEF Stuck, Held, Purges
<1>3. \A y \in S, u \in Session : y \in h.armed[u] => u \in S
  BY <1>1 DEF Stuck, Purges
<1> QED BY <1>2, <1>3 DEF Stuck

\* Leaving costs only reports of t, and reports to t.
LEMMA PurgedExpects ==
  ASSUME NEW i, NEW h, NEW g, NEW t \in Session, Purges(h, g, t), NEW c \in Session, NEW u \in Session,
         c # t, u # t, Expects(i, h, c, u)
  PROVE  Expects(i, g, c, u)
<1>1. WakesFor(g, c) = WakesFor(h, c)
  BY DEF WakesFor, Purges
<1>2. c \in h.armed[u] => c \in g.armed[u]
  BY DEF Purges
<1> QED BY <1>1, <1>2 DEF Expects

\* It queues nothing.
LEMMA PurgedWakes ==
  ASSUME NEW h, NEW g, NEW t \in Session, Purges(h, g, t), NEW c \in Session
  PROVE  WakesFor(g, c) \subseteq WakesFor(h, c)
<1>1. Range(<<>>) = {}
  BY DEF Range
<1> QED BY <1>1 DEF WakesFor, Purges

\* A removal: every caller that lost a wait may be released.
LEMMA RemoveSessionInv == ASSUME IInv, NEW t \in Session, RemoveSession(t) PROVE IInv' /\ Fresh
<1> DEFINE i == [inst EXCEPT ![t].phase = "gone"]
           h == Purged(hub, t)
<1>1. /\ inst \in [Session -> Inst] /\ HubTyped(hub) /\ owed \in [Session -> SUBSET Session]
      /\ starts \in 0..MaxStarts /\ hub.armed[t] \in SUBSET Session
  <2>1. /\ inst \in [Session -> Inst] /\ HubTyped(hub) /\ owed \in [Session -> SUBSET Session]
        /\ starts \in 0..MaxStarts
    BY Parts
  <2> QED BY <2>1, HubFields DEF HubTyped
<1>2. /\ inst[t].phase = "dead" /\ inst' = i /\ starts' = starts
      /\ owed' = [u \in Session |-> IF u = t THEN {} ELSE owed[u] \ {t}]
  BY DEF RemoveSession
<1>3. PICK order \in SetToSeqs(hub.armed[t]) : hub' = ReleaseAll(i, h, order)
  BY DEF RemoveSession
<1>4. order \in Seq(Session) /\ \A c \in hub.armed[t] : \E k \in 1..Len(order) : order[k] = c
  BY <1>1, EveryCaller
<1>5. i \in [Session -> Inst] /\ SameOff(i, inst, t) /\ i[t].phase = "gone"
  BY <1>1, <1>2 DEF Inst, Phase, SameOff
<1>6. owed' \in [Session -> SUBSET Session] /\ \A u, c \in Session : c \in owed'[u] => c \in owed[u] /\ u # t /\ c # t
  BY <1>1, <1>2
<1>7. Purges(hub, h, t) /\ HubTyped(h)
  BY <1>1, PurgedShape DEF Purges
<1> HIDE DEF i, h
<1>8. /\ Keeps(i, h, hub')
      /\ \A S \in SUBSET Session : Stuck(i, hub', S) => \A k \in 1..Len(order) : order[k] \notin S
  BY <1>3, <1>4, <1>5, <1>7, AllReleased
<1>9. \A x \in Session : GoneForGood(i, x) <=> GoneForGood(inst, x)
  BY <1>2, <1>5 DEF SameOff, GoneForGood
<1>10. \A c \in Session : WakesFor(h, c) \subseteq WakesFor(hub, c)
  BY <1>7, PurgedWakes
<1>11. \A u, c \in Session : c \in owed'[u] => ~GoneForGood(inst', c)
  BY <1>2, <1>6, <1>9 DEF IInv, OwedLive
<1>12. ASSUME NEW u \in Session, NEW c \in Session, c \in owed'[u], inst'[c].phase # "relaunch"
       PROVE  Expects(inst', h, c, u)
  <2>1. c \in owed[u] /\ u # t /\ c # t
    BY <1>6, <1>12
  <2>2. Expects(inst, hub, c, u)
    BY <1>2, <1>5, <1>12, <2>1 DEF IInv, WakeNotLost, SameOff
  <2>3. Expects(inst, h, c, u)
    BY <1>7, <2>1, <2>2, PurgedExpects
  <2> QED BY <1>2, <1>9, <2>3, ExpectsMonotone
<1>13. ASSUME NEW c \in Session PROVE ParkedAt(inst', h, c) /\ HoldAt(inst', h, c)
  <2>1. ParkedAt(inst, hub, c) /\ HoldAt(inst, hub, c)
    BY Parts
  <2>2. CASE c = t
    BY <1>7, <2>2 DEF ParkedAt, HoldAt, Purges
  <2>3. CASE c # t
    BY <1>2, <1>5, <1>7, <2>1, <2>3 DEF ParkedAt, HoldAt, Purges, SameOff, Idle, GoneForGood, TargetDefers
  <2> QED BY <2>2, <2>3
<1>14. ASSUME NEW S \in SUBSET Session, Stuck(inst', h, S), Stuck(inst', hub', S) PROVE FALSE
  <2>1. \A c \in hub.armed[t] : c \notin S
    BY <1>2, <1>4, <1>8, <1>14
  <2>2. Stuck(inst', hub, S)
    BY <1>7, <1>14, <2>1, PurgedStuck
  <2>3. t \notin S
    BY <1>2, <1>5, <2>2 DEF Stuck, Held, Idle
  <2>4. SameOff(inst, inst', t)
    BY <1>2, <1>5 DEF SameOff
  <2>5. Stuck(inst, hub, S)
    BY <2>2, <2>3, <2>4, StuckOff
  <2> QED BY <2>5 DEF IInv, NoStuck
<1> QED BY <1>1, <1>2, <1>5, <1>6, <1>8, <1>10, <1>11, <1>12, <1>13, <1>14, Carried

\* Filtering a sequence of wakes keeps exactly those about others.
LEMMA NotAboutFacts ==
  ASSUME NEW ws \in Seq(Wake), NEW t
  PROVE  /\ NotAbout(ws, t) \in Seq(Wake)
         /\ Range(NotAbout(ws, t)) = {w \in Range(ws) : w.of # t}
<1> DEFINE D == Seq(Wake)
           n == Len(ws)
           Step(k, s) == IF k \in 1..n /\ ws[k].of # t THEN Append(s, ws[k]) ELSE s
           G == [p \in Nat \X D |-> Step(p[1], p[2])]
           Is(f) == f = [k \in 0..n |-> IF k = 0 THEN <<>>
                                       ELSE IF ws[k].of = t THEN f[k - 1] ELSE Append(f[k - 1], ws[k])]
           F == CHOOSE f : Is(f)
<1>1. n \in Nat /\ <<>> \in D /\ \A k \in 1..n : ws[k] \in Wake
  OBVIOUS
<1>2. \A k \in Nat, s \in D : Step(k, s) \in D
  BY <1>1, AppendFacts
<1>3. \A k \in 1..n : \A s : Step(k, s) = IF ws[k].of = t THEN s ELSE Append(s, ws[k])
  OBVIOUS
<1> HIDE DEF Step
<1>4. G \in [Nat \X D -> D]
  BY <1>2
<1>5. \A k \in Nat, s \in D : G[<<k, s>>] = Step(k, s)
  OBVIOUS
<1> HIDE DEF G
<1>6. \E f : Is(f)
  <2>1. PICK e \in [0..n -> D] : IsRun(e, <<>>, G, n)
    BY <1>1, <1>4, RunExists
  <2>2. \A k \in 0..n : e[k] = IF k = 0 THEN <<>> ELSE IF ws[k].of = t THEN e[k - 1] ELSE Append(e[k - 1], ws[k])
    <3> TAKE k \in 0..n
    <3>1. CASE k = 0
      BY <2>1, <3>1 DEF IsRun
    <3>2. CASE k # 0
      <4>1. k \in 1..n /\ k \in Nat /\ k - 1 \in 0..n
        BY <1>1, <3>2
      <4>2. e[k] = G[<<k, e[k - 1]>>]
        BY <2>1, <3>2 DEF IsRun
      <4>3. e[k - 1] \in D
        BY <4>1
      <4>4. e[k] = Step(k, e[k - 1])
        BY <1>5, <4>1, <4>2, <4>3
      <4>5. e[k] = IF ws[k].of = t THEN e[k - 1] ELSE Append(e[k - 1], ws[k])
        <5> DEFINE x == e[k - 1]
        <5>1. \A s : Step(k, s) = IF ws[k].of = t THEN s ELSE Append(s, ws[k])
          BY <1>3, <4>1
        <5> HIDE DEF x, n, D
        <5>2. Step(k, x) = IF ws[k].of = t THEN x ELSE Append(x, ws[k])
          BY <5>1
        <5>3. e[k] = Step(k, x)
          BY <4>4 DEF x
        <5>4. e[k] = IF ws[k].of = t THEN x ELSE Append(x, ws[k])
          BY <5>2, <5>3
        <5> QED BY <5>4 DEF x
      <4> HIDE DEF n, D
      <4> QED BY <3>2, <4>5
    <3> QED BY <3>1, <3>2
  <2>3. e = [k \in 0..n |-> e[k]]
    OBVIOUS
  <2>4. Is(e)
    BY <2>2, <2>3
  <2> QED BY <2>4
<1>7. Is(F)
  BY <1>6
<1>8. NotAbout(ws, t) = F[n]
  BY DEF NotAbout
<1> HIDE DEF F
<1>9. F[0] = <<>> /\ \A k \in 1..n : F[k] = IF ws[k].of = t THEN F[k - 1] ELSE Append(F[k - 1], ws[k])
  <2>1. F = [k \in 0..n |-> IF k = 0 THEN <<>>
                            ELSE IF ws[k].of = t THEN F[k - 1] ELSE Append(F[k - 1], ws[k])]
    BY <1>7
  <2>2. 0 \in 0..n /\ \A k \in 1..n : k \in 0..n /\ k # 0
    BY <1>1
  <2> HIDE DEF n
  <2>3. F[0] = <<>>
    BY <2>1, <2>2
  <2>4. ASSUME NEW k \in 1..n PROVE F[k] = IF ws[k].of = t THEN F[k - 1] ELSE Append(F[k - 1], ws[k])
    BY <2>1, <2>2, Zenon
  <2> QED BY <2>3, <2>4
<1> DEFINE Good(k) == F[k] \in D /\ Range(F[k]) = {w \in {ws[j] : j \in 1..k} : w.of # t}
           S0 == {k \in Nat : k <= n => Good(k)}
<1> HIDE DEF Is
<1>10. 0 \in S0
  <2>1. Range(<<>>) = {} /\ {ws[j] : j \in 1..0} = {}
    BY DEF Range
  <2>2. Good(0)
    BY <1>1, <1>9, <2>1
  <2> QED BY <2>2
<1>11. ASSUME NEW k \in Nat, k \in S0 PROVE k + 1 \in S0
  <2> SUFFICES ASSUME k + 1 <= n PROVE Good(k + 1)
    OBVIOUS
  <2>1. k + 1 \in 1..n /\ (k + 1) - 1 = k /\ ws[k + 1] \in Wake
    BY <1>1
  <2>2. Good(k)
    BY <1>1, <1>11, <2>1
  <2>3. {ws[j] : j \in 1..(k + 1)} = {ws[j] : j \in 1..k} \union {ws[k + 1]}
    <3>1. 1..(k + 1) = (1..k) \union {k + 1}
      OBVIOUS
    <3> QED BY <3>1
  <2>4. F[k + 1] = IF ws[k + 1].of = t THEN F[k] ELSE Append(F[k], ws[k + 1])
    BY <1>9, <2>1
  <2>5. CASE ws[k + 1].of = t
    BY <2>2, <2>3, <2>4, <2>5
  <2>6. CASE ws[k + 1].of # t
    <3>1. F[k + 1] \in D /\ Range(F[k + 1]) = Range(F[k]) \union {ws[k + 1]}
      BY <2>1, <2>2, <2>4, <2>6, AppendFacts
    <3> QED BY <2>2, <2>3, <2>6, <3>1
  <2> QED BY <2>5, <2>6
<1> HIDE DEF S0, Good
<1>12. Nat \subseteq S0
  BY <1>10, <1>11, Natural
<1>13. Good(n)
  BY <1>1, <1>12 DEF S0
<1>14. Range(ws) = {ws[j] : j \in 1..n}
  <2>1. DOMAIN ws = 1..n
    OBVIOUS
  <2> QED BY <2>1 DEF Range
<1> QED BY <1>8, <1>13, <1>14 DEF Good

\* g is h without the deferred wakes about t.
Filters(h, g, t) ==
  /\ HubTyped(g)
  /\ g.armed = h.armed /\ g.queued = h.queued /\ g.holding = h.holding
  /\ \A c \in Session : /\ g.deferred[c] # <<>> => h.deferred[c] # <<>>
                        /\ WakesFor(g, c) \subseteq WakesFor(h, c)
                        /\ \A w \in WakesFor(h, c) : w \in WakesFor(g, c) \/ w.of = t

LEMMA FilteredShape ==
  ASSUME NEW h, HubTyped(h), NEW t \in Session
  PROVE  Filters(h, [h EXCEPT !.deferred = [c \in Session |-> NotAbout(@[c], t)]], t)
<1> DEFINE d == [c \in Session |-> NotAbout(h.deferred[c], t)]
           g == [h EXCEPT !.deferred = d]
<1>1. h \in Hub /\ h.deferred \in [Session -> Seq(Wake)]
  BY HubFields DEF HubTyped
<1>2. \A c \in Session : /\ NotAbout(h.deferred[c], t) \in Seq(Wake)
                         /\ Range(NotAbout(h.deferred[c], t)) = {w \in Range(h.deferred[c]) : w.of # t}
  BY <1>1, NotAboutFacts
<1>3. d \in [Session -> Seq(Wake)] /\ \A c \in Session : Range(d[c]) = {w \in Range(h.deferred[c]) : w.of # t}
  BY <1>2
<1> HIDE DEF d
<1>4. /\ g \in Hub /\ g.armed = h.armed /\ g.queued = h.queued /\ g.holding = h.holding
      /\ g.inFlight = h.inFlight /\ g.asked = h.asked /\ g.deferred = d
  BY <1>1, <1>3 DEF Hub
<1>5. HubTyped(g)
  BY <1>4 DEF HubTyped
<1>6. g = [h EXCEPT !.deferred = [c \in Session |-> NotAbout(@[c], t)]]
  BY DEF d
<1> HIDE DEF g
<1>7. ASSUME NEW c \in Session, g.deferred[c] # <<>> PROVE h.deferred[c] # <<>>
  <2>1. g.deferred[c] \in Seq(Wake)
    BY <1>3, <1>4
  <2>2. Len(g.deferred[c]) \in Nat /\ Len(g.deferred[c]) # 0 /\ DOMAIN g.deferred[c] = 1..Len(g.deferred[c])
    BY <1>7, <2>1
  <2>3. 1 \in DOMAIN g.deferred[c]
    BY <2>2
  <2>4. Range(g.deferred[c]) # {}
    BY <2>3 DEF Range
  <2>5. Range(h.deferred[c]) # {}
    BY <1>3, <1>4, <2>4
  <2>6. Range(<<>>) = {}
    BY DEF Range
  <2> QED BY <2>5, <2>6
<1>8. \A c \in Session : /\ WakesFor(g, c) \subseteq WakesFor(h, c)
                         /\ \A w \in WakesFor(h, c) : w \in WakesFor(g, c) \/ w.of = t
  BY <1>3, <1>4 DEF WakesFor
<1>9. Filters(h, g, t)
  BY <1>4, <1>5, <1>7, <1>8 DEF Filters
<1> QED BY <1>6, <1>9

\* The overage stop severs t, and drops the wakes about it that others had deferred.
LEMMA OverageSeverInv == ASSUME IInv, NEW t \in Session, OverageSever(t) PROVE IInv' /\ Fresh
<1> DEFINE h == Purged(hub, t)
<1>1. /\ inst \in [Session -> Inst] /\ HubTyped(hub) /\ owed \in [Session -> SUBSET Session]
      /\ starts \in 0..MaxStarts /\ hub.armed[t] \in SUBSET Session
  <2>1. /\ inst \in [Session -> Inst] /\ HubTyped(hub) /\ owed \in [Session -> SUBSET Session]
        /\ starts \in 0..MaxStarts
    BY Parts
  <2> QED BY <2>1, HubFields DEF HubTyped
<1>2. /\ inst' = inst /\ Outside
      /\ owed' = [u \in Session |-> IF u = t THEN {} ELSE owed[u] \ {t}]
  BY DEF OverageSever
<1>3. PICK order \in SetToSeqs(hub.armed[t]) :
        hub' = [RedecideAll(inst, h, order) EXCEPT !.deferred = [c \in Session |-> NotAbout(@[c], t)]]
  BY DEF OverageSever
<1> DEFINE r == RedecideAll(inst, h, order)
<1>4. order \in Seq(Session) /\ \A c \in hub.armed[t] : \E k \in 1..Len(order) : order[k] = c
  BY <1>1, EveryCaller
<1>5. owed' \in [Session -> SUBSET Session] /\ \A u, c \in Session : c \in owed'[u] => c \in owed[u] /\ u # t /\ c # t
  BY <1>1, <1>2
<1>6. Purges(hub, h, t) /\ HubTyped(h)
  BY <1>1, PurgedShape DEF Purges
<1> HIDE DEF h
<1>7. /\ Keeps(inst, h, r)
      /\ \A S \in SUBSET Session : Stuck(inst, r, S) => \A k \in 1..Len(order) : order[k] \notin S
  BY <1>4, <1>6, AllRedecided
<1> HIDE DEF r
<1>8. HubTyped(r)
  BY <1>7 DEF Keeps
<1>9. Filters(r, hub', t)
  <2>1. hub' = [r EXCEPT !.deferred = [c \in Session |-> NotAbout(@[c], t)]]
    BY <1>3 DEF r
  <2> QED BY <1>8, <2>1, FilteredShape
<1>10. \A c \in Session : ParkedAt(inst, hub, c) /\ HoldAt(inst, hub, c)
  BY Parts
<1>11. \A c \in Session : ParkedAt(inst, h, c) /\ HoldAt(inst, h, c)
  <2> SUFFICES ASSUME NEW c \in Session PROVE ParkedAt(inst, h, c) /\ HoldAt(inst, h, c)
    OBVIOUS
  <2>1. CASE c = t
    BY <1>6, <2>1 DEF ParkedAt, HoldAt, Purges
  <2>2. CASE c # t
    BY <1>6, <1>10, <2>2 DEF ParkedAt, HoldAt, Purges
  <2> QED BY <2>1, <2>2
<1>12. \A c \in Session : ParkedAt(inst, r, c) /\ HoldAt(inst, r, c)
  BY <1>7, <1>11 DEF Keeps
<1>13. Typed'
  <2>1. starts' \in 0..MaxStarts
    BY <1>1, <1>2, OutsideBound
  <2>2. HubTyped(hub')
    BY <1>9 DEF Filters
  <2> QED BY <1>1, <1>2, <1>5, <2>1, <2>2 DEF Typed
<1>14. OwedLive'
  BY <1>2, <1>5 DEF IInv, OwedLive, GoneForGood
<1>15. WakeNotLost'
  <2> SUFFICES ASSUME NEW u \in Session, NEW c \in Session, c \in owed'[u], inst'[c].phase # "relaunch"
               PROVE  Expects(inst', hub', c, u)
    BY DEF WakeNotLost
  <2>1. c \in owed[u] /\ u # t /\ c # t /\ ~GoneForGood(inst, c)
    BY <1>5 DEF IInv, OwedLive
  <2>2. Expects(inst, hub, c, u)
    BY <1>2, <2>1 DEF IInv, WakeNotLost
  <2>3. Expects(inst, h, c, u)
    BY <1>6, <2>1, <2>2, PurgedExpects
  <2>4. Proc(inst, c)
    <3>1. inst[c].phase \in Phase
      BY <1>1 DEF Inst
    <3> QED BY <1>2, <2>1, <3>1 DEF Proc, GoneForGood, Phase
  <2>5. Expects(inst, r, c, u)
    BY <1>7, <2>3, <2>4 DEF Keeps
  <2>6. CASE c \in r.armed[u]
    BY <1>2, <1>9, <2>6 DEF Expects, Filters
  <2>7. CASE \E w \in WakesFor(r, c) : Reports(inst, w, u)
    <3>1. PICK w \in WakesFor(r, c) : Reports(inst, w, u)
      BY <2>7
    <3>2. w \in WakesFor(hub', c)
      BY <1>9, <2>1, <3>1 DEF Filters, Reports
    <3> QED BY <1>2, <3>1, <3>2 DEF Expects
  <2> QED BY <2>5, <2>6, <2>7 DEF Expects
<1>16. Parked(inst, hub)'
  BY <1>2, <1>9, <1>12 DEF Parked, ParkedAt, Filters, GoneForGood, Idle
<1>17. HoldOK(inst, hub)'
  BY <1>2, <1>9, <1>12 DEF HoldOK, HoldAt, Filters, Idle, TargetDefers
<1>18. NoStuck'
  <2> SUFFICES ASSUME NEW S \in SUBSET Session, Stuck(inst', hub', S) PROVE FALSE
    BY DEF NoStuck
  <2>1. Stuck(inst, hub', S)
    BY <1>2
  <2>2. \A y \in S : Held(inst, r, y) /\ r.deferred[y] = <<>>
    <3> SUFFICES ASSUME NEW y \in S PROVE Held(inst, r, y) /\ r.deferred[y] = <<>>
      OBVIOUS
    <3>1. Held(inst, r, y)
      BY <1>9, <2>1 DEF Stuck, Held, Filters
    <3> QED BY <1>12, <3>1 DEF Held, ParkedAt, TargetDefers, Idle, GoneForGood
  <2>3. Stuck(inst, r, S)
    BY <1>9, <2>1, <2>2 DEF Stuck, Filters
  <2>4. \A c \in hub.armed[t] : c \notin S
    BY <1>4, <1>7, <2>3
  <2>5. Stuck(inst, h, S)
    BY <1>7, <2>3 DEF Keeps
  <2>6. Stuck(inst, hub, S)
    BY <1>6, <2>4, <2>5, PurgedStuck
  <2> QED BY <2>6 DEF IInv, NoStuck
<1>19. Fresh
  <2> SUFFICES ASSUME NEW c \in Session, NEW u \in Session, Done(u) \in WakesFor(hub', c), Done(u) \notin WakesFor(hub, c)
               PROVE  Idle(inst', u) /\ ~TargetDefers(inst', u)
    BY DEF Fresh
  <2>1. Done(u) \in WakesFor(r, c)
    BY <1>9 DEF Filters
  <2>2. Done(u) \notin WakesFor(h, c)
    BY <1>6, PurgedWakes
  <2>3. Idle(inst, u) /\ ~TargetDefers(inst, u)
    BY <1>7, <2>1, <2>2 DEF Keeps
  <2> QED BY <1>2, <2>3
<1> QED BY <1>13, <1>14, <1>15, <1>16, <1>17, <1>18, <1>19 DEF IInv

-----------------------------------------------------------------------------
(* The theorems *)

\* Nothing is owed, deferred or held at first.
LEMMA InitInv == Init => IInv
<1> SUFFICES ASSUME Init PROVE IInv
  OBVIOUS
<1>1. /\ inst = [s \in Session |-> [phase |-> "idle", tasks |-> FALSE, notified |-> FALSE,
                                   steered |-> FALSE, aborted |-> FALSE]]
      /\ hub = [armed |-> [s \in Session |-> {}], owners |-> [s \in Session |-> {}],
                holding |-> {}, asked |-> {},
                deferred |-> [s \in Session |-> <<>>], inFlight |-> [s \in Session |-> 0],
                queued |-> [s \in Session |-> <<>>], settle |-> [s \in Session |-> "none"]]
      /\ owed = [s \in Session |-> {}]
      /\ starts = 0
  BY DEF Init
<1>2. inst \in [Session -> Inst]
  BY <1>1 DEF Inst, Phase
<1>3. HubTyped(hub)
  <2>1. <<>> \in Seq(Wake) /\ Len(<<>>) = 0
    OBVIOUS
  <2>2. hub \in Hub
    BY <1>1, <2>1 DEF Hub
  <2>3. \A s \in Session : hub.inFlight[s] = 0 /\ hub.queued[s] = <<>>
    BY <1>1
  <2>4. hub.asked = {}
    BY <1>1
  <2> QED BY <2>1, <2>2, <2>3, <2>4 DEF HubTyped
<1>4. owed \in [Session -> SUBSET Session] /\ starts \in 0..MaxStarts
  BY <1>1, WakeHubAssumption
<1>5. OwedLive /\ WakeNotLost
  BY <1>1 DEF OwedLive, WakeNotLost
<1>6. Parked(inst, hub) /\ HoldOK(inst, hub)
  BY <1>1 DEF Parked, ParkedAt, HoldOK, HoldAt
<1>7. NoStuck
  BY <1>1 DEF NoStuck, Stuck, Held
<1> QED BY <1>2, <1>3, <1>4, <1>5, <1>6, <1>7 DEF IInv, Typed

\* A step that changes nothing.
LEMMA StutterInv == ASSUME IInv, UNCHANGED vars PROVE IInv' /\ Fresh
<1>1. inst' = inst /\ hub' = hub /\ owed' = owed /\ starts' = starts
  BY DEF vars
<1>2. Typed' /\ OwedLive' /\ WakeNotLost' /\ NoStuck'
  BY <1>1 DEF IInv, Typed, OwedLive, WakeNotLost, NoStuck
<1>3. Parked(inst, hub)' /\ HoldOK(inst, hub)'
  BY <1>1 DEF IInv
<1>4. Fresh
  BY <1>1 DEF Fresh
<1> QED BY <1>2, <1>3, <1>4 DEF IInv

\* Every step keeps the invariant, and queues a finished wake only for a session that is done.
LEMMA NextInv == ASSUME IInv, [Next]_vars PROVE IInv' /\ Fresh
<1>1. CASE UNCHANGED vars
  BY <1>1, StutterInv
<1>2. CASE Next
  <2>1. PICK t \in Session :
          \/ UserPrompt(t) \/ TurnEnds(t) \/ FlushSteer(t)
          \/ TaskStarts(t) \/ TaskEnds(t) \/ NotificationConsumed(t)
          \/ OpenReinvocation(t) \/ BeginReinvocation(t) \/ FireSettle(t)
          \/ Ask(t) \/ UserInterrupt(t)
          \/ PruneBegins(t) \/ PruneEnds(t)
          \/ Exit(t) \/ Kill(t) \/ RemoveSession(t) \/ OverageSever(t)
          \/ \E c \in Session : Dispatch(c, t) \/ ForceInterrupt(c, t) \/ Heartbeat(c, t)
          \/ \E k \in 1..Len(hub.queued[t]) : SendWake(t, k)
    BY <1>2 DEF Next
  <2>2. CASE UserPrompt(t)
    BY <2>2, UserPromptInv
  <2>3. CASE TurnEnds(t)
    BY <2>3, TurnEndsInv
  <2>4. CASE FlushSteer(t)
    BY <2>4, FlushSteerInv
  <2>5. CASE TaskStarts(t)
    BY <2>5, TaskStartsInv
  <2>6. CASE TaskEnds(t)
    BY <2>6, TaskEndsInv
  <2>7. CASE NotificationConsumed(t)
    BY <2>7, NotificationConsumedInv
  <2>8. CASE OpenReinvocation(t)
    BY <2>8, OpenReinvocationInv
  <2>9. CASE BeginReinvocation(t)
    BY <2>9, BeginReinvocationInv
  <2>10. CASE FireSettle(t)
    BY <2>10, FireSettleInv
  <2>11. CASE Ask(t)
    BY <2>11, AskInv
  <2>12. CASE UserInterrupt(t)
    BY <2>12, UserInterruptInv
  <2>13. CASE PruneBegins(t)
    BY <2>13, PruneBeginsInv
  <2>14. CASE PruneEnds(t)
    BY <2>14, PruneEndsInv
  <2>15. CASE Exit(t)
    BY <2>15, ExitInv
  <2>16. CASE Kill(t)
    BY <2>16, KillInv
  <2>17. CASE RemoveSession(t)
    BY <2>17, RemoveSessionInv
  <2>18. CASE OverageSever(t)
    BY <2>18, OverageSeverInv
  <2>19. ASSUME NEW c \in Session, Dispatch(c, t) PROVE IInv' /\ Fresh
    BY <2>19, DispatchInv
  <2>20. ASSUME NEW c \in Session, ForceInterrupt(c, t) PROVE IInv' /\ Fresh
    BY <2>20, ForceInterruptInv
  <2>21. ASSUME NEW c \in Session, Heartbeat(c, t) PROVE IInv' /\ Fresh
    BY <2>21, HeartbeatInv
  <2>22. ASSUME NEW k \in 1..Len(hub.queued[t]), SendWake(t, k) PROVE IInv' /\ Fresh
    BY <2>22, SendWakeInv
  <2> QED BY <2>1, <2>2, <2>3, <2>4, <2>5, <2>6, <2>7, <2>8, <2>9, <2>10, <2>11, <2>12, <2>13, <2>14,
             <2>15, <2>16, <2>17, <2>18, <2>19, <2>20, <2>21, <2>22
<1> QED BY <1>1, <1>2

\* The inductive invariant holds of every behaviour of the hub.
THEOREM HubInvariant == Spec => []IInv
<1>1. IInv /\ [Next]_vars => IInv'
  BY NextInv
<1> QED BY InitInv, <1>1, PTL DEF Spec

\* The hub's maps keep their types, and no recipient counts more wakes in flight than are queued.
THEOREM HubTypes == Spec => []TypeOK
<1>1. IInv => TypeOK
  <2> SUFFICES ASSUME IInv PROVE TypeOK
    OBVIOUS
  <2>1. Typed
    BY DEF IInv
  <2>2. hub \in Hub /\ hub.asked \subseteq Asker /\ \A s \in Session : hub.inFlight[s] <= Len(hub.queued[s])
    BY <2>1 DEF Typed, HubTyped
  <2>3. DOMAIN hub = {"armed", "owners", "holding", "asked", "deferred", "inFlight", "queued", "settle"}
    BY <2>2 DEF Hub
  <2>4. /\ hub.armed \in [Session -> SUBSET Session] /\ hub.owners \in [Session -> SUBSET Session]
        /\ hub.holding \subseteq Session /\ hub.settle \in [Session -> {"none", "armed", "void"}]
        /\ hub.deferred \in [Session -> Seq(Wake)] /\ hub.inFlight \in [Session -> Nat]
        /\ hub.queued \in [Session -> Seq(Wake)]
    BY <2>2, HubFields
  <2>5. ASSUME NEW s \in Session PROVE hub.inFlight[s] \in 0..Len(hub.queued[s])
    <3>1. hub.inFlight[s] \in Nat /\ Len(hub.queued[s]) \in Nat
      BY <2>4
    <3> QED BY <2>2, <3>1
  <2>6. \A ws \in Seq(Wake) : Range(ws) \subseteq Wake
    BY DEF Range
  <2>7. \A s \in Session : Range(hub.queued[s]) \union Range(hub.deferred[s]) \subseteq Wake
    BY <2>4, <2>6
  <2> QED BY <2>1, <2>2, <2>3, <2>4, <2>5, <2>7 DEF TypeOK, Typed
<1> QED BY HubInvariant, <1>1, PTL

\* Every turn of an owned session that is not yet reported is still going to be: its owner is armed
\* or a report is under way, through holds, deferrals, relaunches, deaths and removals.
THEOREM NoWakeLost == Spec => []WakeNotLost
<1>1. IInv => WakeNotLost
  BY DEF IInv
<1> QED BY HubInvariant, <1>1, PTL

\* Sessions never hold one another's wakes in a cycle: of any sessions kept from their owners, one
\* has a wake on its way or awaits a session outside them.
THEOREM HoldsHaveCauses == Spec => []HoldHasCause
<1>1. IInv => HoldHasCause
  <2> SUFFICES ASSUME IInv,
                      NEW S \in SUBSET Session, S # {}, \A x \in S : hub.armed[x] # {} /\ Held(inst, hub, x),
                      \A y \in S : hub.queued[y] = <<>> /\ \A t \in Session \ S : y \notin hub.armed[t]
               PROVE  FALSE
    BY DEF HoldHasCause
  <2>1. \A y \in S : hub.deferred[y] = <<>>
    <3> SUFFICES ASSUME NEW y \in S PROVE hub.deferred[y] = <<>>
      OBVIOUS
    <3>1. ParkedAt(inst, hub, y) /\ Held(inst, hub, y)
      BY Parts
    <3> QED BY <3>1 DEF ParkedAt, Held, Idle, TargetDefers, GoneForGood
  <2>2. Stuck(inst, hub, S)
    BY <2>1 DEF Stuck
  <2> QED BY <2>2 DEF IInv, NoStuck
<1> QED BY HubInvariant, <1>1, PTL

\* A wake that says a worker finished is queued only when the worker has no turn, no subagent, no
\* notification and no parked steer left.
THEOREM FinishedIsDone == Spec => FinishedMeansDone
<1>1. ASSUME IInv, [Next]_vars
      PROVE  \A c, t \in Session :
               LET done == [of |-> t, kind |-> "finished"]
               IN  done \in WakesFor(hub', c) /\ done \notin WakesFor(hub, c)
                     => Idle(inst', t) /\ ~TargetDefers(inst', t)
  <2>1. Fresh
    BY <1>1, NextInv
  <2> QED BY <2>1 DEF Fresh, Done
<1> QED BY HubInvariant, <1>1, PTL DEF Spec, FinishedMeansDone

=============================================================================
