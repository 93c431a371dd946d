--------------------------- MODULE OverageProofs ---------------------------
(***************************************************************************)
(* Theorems about Overage, for any finite set of sessions, any ownership   *)
(* among them, cycles included, any accounts, lives and relaunches.        *)
(***************************************************************************)
EXTENDS Overage, FiniteSetTheorems, WellFoundedInduction, TLAPS

-----------------------------------------------------------------------------
(* The inductive invariant *)

\* Somebody is to resume c, who lost a wake.
Covered(f, c) ==
  InFlow(f, c) =>
    \/ c \in f.marked \union f.unarmed \union f.orphaned
    \/ LiveOwner(f, c) /\ Owner[c] \in f.marked \union f.unarmed \union f.orphaned

\* What holds of one session: a badge is a mark's, with a deadline or a check on its way; a deadline
\* is a marked live session's, and so is a queue; where q, there are no marks.
MarksOK(f, P, q, s) ==
  /\ s \in f.badge => s \in f.marked
  /\ s \in f.badge /\ Live(f, s) => s \in f.timers \union P
  /\ s \in f.timers \ f.orphaned /\ f.phase[s] \in {"idle", "turn", "gap"} => Live(f, s) /\ s \in f.marked
  /\ s \in f.queued \ f.orphaned /\ Live(f, s) => s \in f.marked /\ s \in f.timers \union P
  /\ q /\ Registered(f, s) => s \notin f.marked \union f.badge \union f.queued \union f.timers

CutOK(f, W, c) ==
  c \in f.cut => Live(f, c) /\ f.active /\ (f.mode /\ c \notin W => Covered(f, c))

\* The fleet is sound while the checks of P are under way, but for the cut wakes of W.
SoundBut(f, P, q, W) ==
  /\ f \in Fleet
  /\ q => ~f.mode
  /\ \A s \in Session : MarksOK(f, P, q, s)
  /\ \A c \in Session : CutOK(f, W, c)

Sound(f, P, q) == SoundBut(f, P, q, {})

\* Off stop-resume, once the sessions were told.
Quiet == policy # "stop-resume" /\ apply # "sync"

IInv == TypeOK /\ Sound(fleet, forced \union sweep, Quiet)

-----------------------------------------------------------------------------
(* The tree *)

\* What is read of the phases alone.
LEMMA SamePhases ==
  ASSUME NEW f, NEW g, g.phase = f.phase
  PROVE  \A c \in Session :
           /\ InFlow(g, c) = InFlow(f, c) /\ Live(g, c) = Live(f, c) /\ Registered(g, c) = Registered(f, c)
           /\ LiveOwner(g, c) = LiveOwner(f, c) /\ Parent(g, c) = Parent(f, c)
<1>1. \A c : Registered(g, c) = Registered(f, c) /\ Live(g, c) = Live(f, c)
  BY DEF Registered, Live
<1>2. \A c : Parent(g, c) = Parent(f, c)
  BY <1>1 DEF Parent
<1>3. \A c : Ancestors(g, c) = Ancestors(f, c)
  BY <1>2 DEF Ancestors
<1>4. \A c : LiveOwner(g, c) = LiveOwner(f, c)
  BY <1>1, <1>2 DEF LiveOwner
<1>5. \A c : InFlow(g, c) = InFlow(f, c)
  BY <1>1, <1>3 DEF InFlow
<1> QED BY <1>1, <1>2, <1>4, <1>5

\* A tree only shrinks as sessions leave the registry.
LEMMA FlowShrinks ==
  ASSUME NEW f, NEW g, \A x \in Session : Registered(g, x) => Registered(f, x), NEW c \in Session, InFlow(g, c)
  PROVE  InFlow(f, c)
<1>1. \A x \in Session : Parent(g, x) \in {Parent(f, x), NoSession}
  BY OverageAssumption DEF Parent
<1>2. \A x \in Session : Ancestors(g, x) \subseteq Ancestors(f, x)
  <2> SUFFICES ASSUME NEW x \in Session, NEW a \in Ancestors(g, x),
                      NEW S \in SUBSET Session, x \in S, \A y \in S : Parent(f, y) \in S \union {NoSession}
               PROVE  a \in S
    BY DEF Ancestors
  <2>1. \A y \in S : Parent(g, y) \in S \union {NoSession}
    BY <1>1
  <2> QED BY <2>1 DEF Ancestors
<1>3. PICK x \in Claude : Registered(g, x) /\ Ancestors(g, x) \intersect Ancestors(g, c) # {}
  BY DEF InFlow
<1>4. x \in Session
  BY OverageAssumption
<1>5. Ancestors(f, x) \intersect Ancestors(f, c) # {}
  BY <1>2, <1>3, <1>4
<1> QED BY <1>3, <1>4, <1>5 DEF InFlow

\* The driver of a live session is it or its live owner.
LEMMA DriverFacts ==
  ASSUME NEW f, NEW c \in Session, Live(f, c)
  PROVE  /\ Driver(f, c) \in Session /\ Live(f, Driver(f, c))
         /\ Driver(f, c) = c \/ (LiveOwner(f, c) /\ Driver(f, c) = Owner[c])
BY OverageAssumption DEF Driver, LiveOwner, Parent

LEMMA LiveRegistered == ASSUME NEW f, NEW s, Live(f, s) PROVE Registered(f, s) /\ f.phase[s] \in {"idle", "turn"}
BY DEF Live, Registered

-----------------------------------------------------------------------------
(* Marks and deadlines *)

\* Marks, badges and deadlines come to some sessions; nothing else that matters changes.
Grown(f, g) ==
  /\ g \in Fleet /\ g.phase = f.phase /\ g.unarmed = f.unarmed /\ g.queued = f.queued
  /\ g.active = f.active /\ g.mode = f.mode /\ g.cut = f.cut /\ g.orphaned = f.orphaned
  /\ f.marked \subseteq g.marked /\ f.badge \subseteq g.badge /\ f.timers \subseteq g.timers

LEMMA GrownSound ==
  ASSUME NEW f, NEW P, NEW q, NEW W, SoundBut(f, P, q, W), NEW g, Grown(f, g), NEW s \in Session, ~q, Live(f, s),
         s \in g.marked, s \in g.badge => s \in g.timers \union P,
         \A x \in Session \ {s} : /\ x \in g.marked => x \in f.marked
                                  /\ x \in g.badge => x \in f.badge
                                  /\ x \in g.timers => x \in f.timers
  PROVE  SoundBut(g, P, q, W)
<1>1. \A c \in Session : Covered(f, c) => Covered(g, c)
  BY SamePhases DEF Grown, Covered
<1>2. \A c \in Session : CutOK(g, W, c)
  BY <1>1, SamePhases DEF Grown, SoundBut, CutOK
<1>3. ASSUME NEW x \in Session PROVE MarksOK(g, P, q, x)
  <2>1. MarksOK(f, P, q, x) /\ Live(g, x) = Live(f, x) /\ g.phase[x] = f.phase[x] /\ Registered(g, x) = Registered(f, x)
    BY SamePhases DEF SoundBut, Grown
  <2>2. CASE x = s
    BY <2>1, <2>2 DEF MarksOK, Grown
  <2>3. CASE x # s
    BY <2>1, <2>3 DEF MarksOK, Grown
  <2> QED BY <2>2, <2>3
<1> QED BY <1>2, <1>3 DEF SoundBut, Grown

\* A mark.
LEMMA MarkShape ==
  ASSUME NEW f \in Fleet, NEW s \in Session
  PROVE  /\ Grown(f, [f EXCEPT !.marked = @ \union {s}])
         /\ [f EXCEPT !.marked = @ \union {s}].marked = f.marked \union {s}
         /\ [f EXCEPT !.marked = @ \union {s}].badge = f.badge
         /\ [f EXCEPT !.marked = @ \union {s}].timers = f.timers
BY DEF Fleet, Grown

\* arm.
LEMMA ArmShape ==
  ASSUME NEW f \in Fleet, NEW s \in Session
  PROVE  /\ Grown(f, Arm(f, s)) /\ Arm(f, s).marked = f.marked
         /\ Arm(f, s).badge = f.badge \union {s} /\ Arm(f, s).timers = f.timers \union {s}
BY DEF Fleet, Grown, Arm

LEMMA MarkSound ==
  ASSUME NEW f, NEW P, NEW q, NEW W, SoundBut(f, P, q, W), NEW s \in Session, ~q, Live(f, s)
  PROVE  SoundBut([f EXCEPT !.marked = @ \union {s}], P, q, W)
<1> DEFINE g == [f EXCEPT !.marked = @ \union {s}]
<1>1. f \in Fleet /\ MarksOK(f, P, q, s)
  BY DEF SoundBut
<1>2. Grown(f, g) /\ g.marked = f.marked \union {s} /\ g.badge = f.badge /\ g.timers = f.timers
  BY <1>1, MarkShape
<1> HIDE DEF g
<1>3. s \in g.badge => s \in g.timers \union P
  BY <1>1, <1>2 DEF MarksOK
<1>4. SoundBut(g, P, q, W)
  BY <1>2, <1>3, GrownSound
<1> QED BY <1>4 DEF g

\* A deadline, for a marked session.
LEMMA ArmSound ==
  ASSUME NEW f, NEW P, NEW q, NEW W, SoundBut(f, P, q, W), NEW s \in Session, Live(f, s), s \in f.marked
  PROVE  SoundBut(Arm(f, s), P, q, W)
<1> DEFINE g == Arm(f, s)
<1>1. f \in Fleet /\ MarksOK(f, P, q, s)
  BY DEF SoundBut
<1>2. ~q
  BY <1>1, LiveRegistered DEF MarksOK
<1>3. Grown(f, g) /\ g.marked = f.marked /\ g.badge = f.badge \union {s} /\ g.timers = f.timers \union {s}
  BY <1>1, ArmShape
<1> HIDE DEF g
<1>4. SoundBut(g, P, q, W)
  BY <1>2, <1>3, GrownSound
<1> QED BY <1>4 DEF g

\* _armResumeNow leaves the session marked unless it is un-armed, or has an old deadline.
LEMMA ArmNowSound ==
  ASSUME NEW f, NEW P, NEW q, NEW W, SoundBut(f, P, q, W), NEW s \in Session, ~q, Live(f, s)
  PROVE  /\ SoundBut(ArmNow(f, s), P, q, W) /\ Grown(f, ArmNow(f, s))
         /\ s \notin f.badge \union f.timers \union f.unarmed => s \in ArmNow(f, s).marked /\ s \in ArmNow(f, s).timers
<1>1. f \in Fleet
  BY DEF SoundBut
<1>2. CASE s \in f.badge \union f.timers \union f.unarmed
  <2>1. ArmNow(f, s) = f /\ Grown(f, f)
    BY <1>1, <1>2 DEF ArmNow, Grown
  <2> QED BY <1>2, <2>1
<1>3. CASE s \notin f.badge \union f.timers \union f.unarmed
  <2> DEFINE g == [f EXCEPT !.marked = @ \union {s}]
             h == Arm(g, s)
  <2>1. ArmNow(f, s) = h
    BY <1>3 DEF ArmNow
  <2>2. SoundBut(g, P, q, W) /\ Grown(f, g) /\ g.marked = f.marked \union {s}
    BY <1>1, MarkSound, MarkShape
  <2> HIDE DEF g
  <2>3. s \in g.marked /\ Live(g, s) /\ g \in Fleet
    BY <2>2, SamePhases DEF Grown
  <2>4. SoundBut(h, P, q, W) /\ Grown(g, h) /\ h.marked = g.marked /\ h.timers = g.timers \union {s}
    BY <2>2, <2>3, ArmSound, ArmShape
  <2> HIDE DEF h
  <2>5. Grown(f, h)
    BY <2>2, <2>4 DEF Grown
  <2> QED BY <2>1, <2>3, <2>4, <2>5
<1> QED BY <1>2, <1>3

\* A marked session that has become idle.
LEMMA ArmAtIdleSound ==
  ASSUME NEW f, NEW P, NEW q, SoundBut(f, P, q, {}), NEW s \in Session, Live(f, s)
  PROVE  /\ Sound(ArmAtIdle(f, s), P, q) /\ Grown(f, ArmAtIdle(f, s))
         /\ s \in f.marked => s \in ArmAtIdle(f, s).timers
<1>1. f \in Fleet
  BY DEF SoundBut
<1>2. CASE s \in f.marked \ f.timers
  <2>1. ArmAtIdle(f, s) = Arm(f, s)
    BY <1>2 DEF ArmAtIdle
  <2> QED BY <1>1, <1>2, <2>1, ArmSound, ArmShape DEF Sound
<1>3. CASE s \notin f.marked \ f.timers
  <2>1. ArmAtIdle(f, s) = f /\ Grown(f, f)
    BY <1>1, <1>3 DEF ArmAtIdle, Grown
  <2> QED BY <1>3, <2>1 DEF Sound
<1> QED BY <1>2, <1>3

-----------------------------------------------------------------------------
(* The sever *)

\* One caller that lost a wake, the fewer.
LEMMA CoveredOne ==
  ASSUME NEW f, NEW P, NEW q, NEW W, SoundBut(f, P, q, W), NEW c \in Session, c \in f.cut /\ f.mode => Covered(f, c)
  PROVE  SoundBut(f, P, q, W \ {c})
BY DEF SoundBut, CutOK

LEMMA ArmSeveredSound ==
  ASSUME NEW f, NEW P, NEW q, NEW W, SoundBut(f, P, q, W), NEW c \in Session
  PROVE  SoundBut(ArmSeveredCaller(f, c), P, q, W \ {c}) /\ Grown(f, ArmSeveredCaller(f, c))
<1> DEFINE d == Driver(f, c)
           g == ArmSeveredCaller(f, c)
<1>1. f \in Fleet /\ (c \in f.cut => Live(f, c) /\ f.active) /\ (q => ~f.mode)
  BY DEF SoundBut, CutOK
<1>2. CASE ~Armable(f, c)
  <2>1. g = f /\ Grown(f, f)
    BY <1>1, <1>2 DEF ArmSeveredCaller, Grown
  <2>2. ASSUME c \in f.cut, f.mode, InFlow(f, c) PROVE Covered(f, c)
    <3>1. Live(f, c) /\ f.active
      BY <1>1, <2>2
    <3>2. d \in Session /\ Live(f, d) /\ (d = c \/ (LiveOwner(f, c) /\ d = Owner[c]))
      BY <3>1, DriverFacts
    <3>3. \A x \in {c, d} : x \in f.marked \union f.badge \union f.timers => x \in f.marked \union f.orphaned
      <4> SUFFICES ASSUME NEW x \in {c, d}, x \in f.marked \union f.badge \union f.timers
                   PROVE  x \in f.marked \union f.orphaned
        OBVIOUS
      <4>1. x \in Session /\ Live(f, x)
        BY <3>1, <3>2
      <4>2. MarksOK(f, P, q, x) /\ f.phase[x] \in {"idle", "turn"}
        BY <4>1, LiveRegistered DEF SoundBut
      <4> QED BY <4>2 DEF MarksOK
    <3>4. {c, d} \intersect (f.marked \union f.badge \union f.timers) # {} \/ d \in f.unarmed
      BY <1>2, <2>2, <3>1 DEF Armable
    <3>5. c \in f.marked \union f.orphaned \/ d \in f.marked \union f.orphaned \union f.unarmed
      BY <3>3, <3>4
    <3> QED BY <3>2, <3>5 DEF Covered
  <2>3. c \in f.cut /\ f.mode => Covered(f, c)
    BY <2>2 DEF Covered
  <2> QED BY <2>1, <2>3, CoveredOne
<1>3. CASE Armable(f, c)
  <2>1. Live(f, c) /\ f.mode /\ ~q
    BY <1>1, <1>3 DEF Armable
  <2>2. d \in Session /\ Live(f, d) /\ (d = c \/ (LiveOwner(f, c) /\ d = Owner[c]))
    BY <2>1, DriverFacts
  <2>3. d \notin f.marked \union f.badge \union f.timers \union f.unarmed
    BY <1>3 DEF Armable
  <2>4. SoundBut(g, P, q, W) /\ Grown(f, g) /\ d \in g.marked
    <3>1. CASE f.phase[d] = "turn"
      <4>1. g = [f EXCEPT !.marked = @ \union {d}]
        BY <1>3, <3>1 DEF ArmSeveredCaller
      <4> HIDE DEF g, d
      <4>2. g.marked = f.marked \union {d} /\ Grown(f, g)
        BY <1>1, <2>2, <4>1, MarkShape
      <4>3. SoundBut(g, P, q, W)
        BY <2>1, <2>2, <4>1, MarkSound
      <4> QED BY <4>2, <4>3
    <3>2. CASE f.phase[d] # "turn"
      <4>1. g = ArmNow(f, d)
        BY <1>3, <3>2 DEF ArmSeveredCaller
      <4> HIDE DEF g, d
      <4> QED BY <2>1, <2>2, <2>3, <4>1, ArmNowSound
    <3> QED BY <3>1, <3>2
  <2> HIDE DEF g, d
  <2>5. Covered(g, c)
    BY <2>2, <2>4, SamePhases DEF Grown, Covered
  <2> QED BY <2>4, <2>5, CoveredOne DEF g
<1> QED BY <1>2, <1>3

-----------------------------------------------------------------------------
(* Lists of sessions *)

\* A set of naturals that holds 0 and, with each number, the next one, holds them all.
LEMMA Natural ==
  ASSUME NEW S, 0 \in S, \A n \in Nat : n \in S => n + 1 \in S
  PROVE  Nat \subseteq S
<1>1. SUFFICES ASSUME Nat \ S # {} PROVE FALSE
  OBVIOUS
<1>2. PICK x \in Nat \ S : \A y \in Nat \ S : ~(<<y, x>> \in OpToRel(<, Nat))
  BY <1>1, NatLessThanWellFounded, WFMin
<1>3. \A y \in Nat \ S : ~(y < x)
  BY <1>2 DEF OpToRel
<1>4. x # 0 /\ x - 1 \in Nat
  OBVIOUS
<1>5. x - 1 \in S
  BY <1>3, <1>4
<1>6. (x - 1) + 1 \in S
  BY <1>4, <1>5
<1> QED BY <1>6

\* n steps of a function G from a, each told its number.
IsRun(f, a, G, n) == f = [k \in 0..n |-> IF k = 0 THEN a ELSE G[<<k, f[k - 1]>>]]

\* There are such steps, of any number.
LEMMA RunExists ==
  ASSUME NEW D, NEW a \in D, NEW G \in [Nat \X D -> D], NEW n \in Nat
  PROVE  \E f \in [0..n -> D] : IsRun(f, a, G, n)
<1> DEFINE S == {m \in Nat : \E f \in [0..m -> D] : IsRun(f, a, G, m)}
<1>1. 0 \in S
  <2> DEFINE g == [k \in 0..0 |-> a]
  <2>1. g \in [0..0 -> D] /\ IsRun(g, a, G, 0)
    BY DEF IsRun
  <2> QED BY <2>1
<1>2. ASSUME NEW m \in Nat, m \in S PROVE m + 1 \in S
  <2>1. PICK f \in [0..m -> D] : IsRun(f, a, G, m)
    BY <1>2
  <2> DEFINE g == [k \in 0..(m + 1) |-> IF k = m + 1 THEN G[<<m + 1, f[m]>>] ELSE f[k]]
  <2>2. f[m] \in D /\ <<m + 1, f[m]>> \in Nat \X D
    OBVIOUS
  <2>3. g \in [0..(m + 1) -> D]
    BY <2>2
  <2>4. \A k \in 0..(m + 1) : g[k] = IF k = 0 THEN a ELSE G[<<k, g[k - 1]>>]
    <3> TAKE k \in 0..(m + 1)
    <3>1. CASE k = m + 1
      <4>1. m \in 0..(m + 1) /\ m # m + 1 /\ k - 1 = m /\ k # 0
        BY <3>1
      <4>2. g[m] = f[m] /\ g[m + 1] = G[<<m + 1, f[m]>>]
        BY <4>1
      <4> HIDE DEF g
      <4> QED BY <3>1, <4>1, <4>2
    <3>2. CASE k \in 0..m
      <4>1. f[k] = IF k = 0 THEN a ELSE G[<<k, f[k - 1]>>]
        BY <2>1, <3>2 DEF IsRun
      <4>2. g[k] = f[k] /\ (k # 0 => g[k - 1] = f[k - 1])
        BY <3>2
      <4> QED BY <4>1, <4>2
    <3> QED BY <3>1, <3>2
  <2>5. g = [k \in 0..(m + 1) |-> g[k]]
    OBVIOUS
  <2>6. IsRun(g, a, G, m + 1)
    <3> HIDE DEF g
    <3> QED BY <2>4, <2>5 DEF IsRun
  <2> QED BY <2>3, <2>6
<1> HIDE DEF S
<1>3. Nat \subseteq S
  BY <1>1, <1>2, Natural
<1> QED BY <1>3 DEF S

\* What holds at the start, and after each step if it did before, holds at the end.
LEMMA RunHolds ==
  ASSUME NEW n \in Nat, NEW J, NEW e, e[0] \in J[0], \A k \in 1..n : e[k - 1] \in J[k - 1] => e[k] \in J[k]
  PROVE  e[n] \in J[n]
<1> DEFINE S == {k \in Nat : k <= n => e[k] \in J[k]}
<1>1. 0 \in S
  OBVIOUS
<1>2. ASSUME NEW k \in Nat, k \in S PROVE k + 1 \in S
  <2> SUFFICES ASSUME k + 1 <= n PROVE e[k + 1] \in J[k + 1]
    OBVIOUS
  <2>1. k + 1 \in 1..n /\ (k + 1) - 1 = k /\ e[k] \in J[k]
    BY <1>2
  <2> QED BY <2>1
<1> HIDE DEF S
<1>3. Nat \subseteq S
  BY <1>1, <1>2, Natural
<1> QED BY <1>3 DEF S

LEMMA IntervalSize ==
  ASSUME NEW n \in Nat
  PROVE  Cardinality(1..n) = n
<1>1. Cardinality(1..n) = IF 1 > n THEN 0 ELSE n - 1 + 1
  BY FS_Interval
<1> QED BY <1>1

\* An injective list of a set's members names every one of them.
LEMMA InjectionNames ==
  ASSUME NEW C \in SUBSET Session, NEW n \in Nat, Cardinality(C) = n, NEW order \in [1..n -> C],
         \A j, k \in 1..n : j # k => order[j] # order[k]
  PROVE  /\ order \in Seq(Session) /\ order \in Seq(C)
         /\ \A c \in C : \E k \in 1..Len(order) : order[k] = c
<1>1. IsFiniteSet(C)
  BY OverageAssumption, FS_Subset
<1>2. order \in [1..n -> C]
  OBVIOUS
<1>3. order \in Injection(1..n, C)
  BY <1>2 DEF Injection, IsInjective
<1>4. Cardinality(1..n) = n
  BY IntervalSize
<1>5. order \in Surjection(1..n, C)
  BY <1>1, <1>3, <1>4, FS_Injection
<1>6. order \in Seq(C) /\ Len(order) = n
  BY <1>2
<1>7. order \in Seq(Session)
  BY <1>2
<1> QED BY <1>5, <1>6, <1>7 DEF Surjection

\* So does a list of the community modules' choice ...
LEMMA SetToSeqNames ==
  ASSUME NEW C \in SUBSET Session
  PROVE  /\ SetToSeq(C) \in Seq(Session) /\ SetToSeq(C) \in Seq(C)
         /\ \A c \in C : \E k \in 1..Len(SetToSeq(C)) : SetToSeq(C)[k] = c
<1>1. IsFiniteSet(C)
  BY OverageAssumption, FS_Subset
<1>2. ExistsBijection(1..Cardinality(C), C)
  BY <1>1, FS_CardinalityType
<1>3. PICK g : g \in Bijection(1..Cardinality(C), C)
  BY <1>2 DEF ExistsBijection
<1>4. g \in [1..Cardinality(C) -> C] /\ IsInjective(g)
  BY <1>3 DEF Bijection, Injection
<1> DEFINE o == SetToSeq(C)
<1>5. o \in [1..Cardinality(C) -> C] /\ IsInjective(o)
  BY <1>4 DEF SetToSeq
<1> DEFINE n == Cardinality(C)
<1> HIDE DEF o
<1>6. \A j, k \in 1..n : j # k => o[j] # o[k]
  BY <1>5 DEF IsInjective
<1> HIDE DEF n
<1>7. o \in Seq(Session) /\ o \in Seq(C) /\ \A c \in C : \E k \in 1..Len(o) : o[k] = c
  <2>1. o \in [1..n -> C] /\ Cardinality(C) = n /\ n \in Nat
    BY <1>1, <1>5, FS_CardinalityType DEF n
  <2> HIDE DEF n
  <2> QED BY <1>6, <2>1, InjectionNames
<1> QED BY <1>7 DEF o

\* ... and any other.
LEMMA OrderNames ==
  ASSUME NEW C \in SUBSET Session, NEW order \in SetToSeqs(C)
  PROVE  /\ order \in Seq(Session) /\ order \in Seq(C)
         /\ \A c \in C : \E k \in 1..Len(order) : order[k] = c
<1> DEFINE n == Cardinality(C)
<1>1. order \in [1..n -> C] /\ \A j, k \in 1..n : j # k => order[j] # order[k]
  BY DEF SetToSeqs
<1>2. Cardinality(C) = n /\ n \in Nat
  BY OverageAssumption, FS_Subset, FS_CardinalityType
<1> HIDE DEF n
<1> QED BY <1>1, <1>2, InjectionNames

-----------------------------------------------------------------------------
(* The sever, continued *)

LEMMA GrownSelf == ASSUME NEW f \in Fleet PROVE Grown(f, f)
BY DEF Grown

LEMMA GrownTrans == ASSUME NEW f, NEW g, NEW h, Grown(f, g), Grown(g, h) PROVE Grown(f, h)
BY DEF Grown

LEMMA ExemptMore ==
  ASSUME NEW f, NEW P, NEW q, NEW W, NEW X, W \subseteq X, SoundBut(f, P, q, W)
  PROVE  SoundBut(f, P, q, X)
BY DEF SoundBut, CutOK

\* Each caller in turn: every one on the list is covered.
LEMMA ArmSeveredAll ==
  ASSUME NEW f, NEW P, NEW q, NEW W, SoundBut(f, P, q, W), NEW callers \in Seq(Session),
         \A c \in W : \E k \in 1..Len(callers) : callers[k] = c
  PROVE  Sound(ArmSevered(f, callers), P, q) /\ Grown(f, ArmSevered(f, callers))
<1> DEFINE D == {g \in Fleet : SoundBut(g, P, q, W)}
           n == Len(callers)
           Left(k) == {c \in W : \A j \in 1..k : callers[j] # c}
           Step(k, g) == IF k \in 1..n THEN ArmSeveredCaller(g, callers[k]) ELSE g
           G == [p \in Nat \X D |-> Step(p[1], p[2])]
           Is(e) == e = [k \in 0..n |-> IF k = 0 THEN f ELSE ArmSeveredCaller(e[k - 1], callers[k])]
           F == CHOOSE e : Is(e)
           J == [k \in 0..n |-> {g \in Fleet : SoundBut(g, P, q, Left(k)) /\ Grown(f, g)}]
<1>1. n \in Nat /\ f \in D /\ \A k \in 1..n : callers[k] \in Session
  BY DEF SoundBut
<1>2. \A k \in Nat, g \in D : Step(k, g) \in D
  <2> SUFFICES ASSUME NEW k \in 1..n, NEW g \in D PROVE ArmSeveredCaller(g, callers[k]) \in D
    OBVIOUS
  <2>1. SoundBut(ArmSeveredCaller(g, callers[k]), P, q, W \ {callers[k]}) /\ Grown(g, ArmSeveredCaller(g, callers[k]))
    BY <1>1, ArmSeveredSound
  <2>2. SoundBut(ArmSeveredCaller(g, callers[k]), P, q, W)
    BY <2>1, ExemptMore
  <2> QED BY <2>1, <2>2 DEF Grown
<1>3. G \in [Nat \X D -> D] /\ \A k \in Nat, g \in D : G[<<k, g>>] = Step(k, g)
  <2> HIDE DEF Step
  <2> QED BY <1>2
<1>4. \A k \in 1..n : \A g : Step(k, g) = ArmSeveredCaller(g, callers[k])
  OBVIOUS
<1> HIDE DEF Step, G, D
<1>5. \E e : Is(e)
  <2>1. PICK e \in [0..n -> D] : IsRun(e, f, G, n)
    BY <1>1, <1>3, RunExists
  <2>2. \A k \in 0..n : e[k] = IF k = 0 THEN f ELSE ArmSeveredCaller(e[k - 1], callers[k])
    <3> TAKE k \in 0..n
    <3>1. CASE k = 0
      BY <2>1, <3>1 DEF IsRun
    <3>2. CASE k # 0
      <4>1. k \in 1..n /\ k \in Nat /\ k - 1 \in 0..n
        BY <1>1, <3>2
      <4>2. e[k] = G[<<k, e[k - 1]>>]
        BY <2>1, <3>2 DEF IsRun
      <4>3. e[k - 1] \in D
        BY <4>1
      <4> QED BY <1>3, <1>4, <3>2, <4>1, <4>2, <4>3
    <3> QED BY <3>1, <3>2
  <2>3. e = [k \in 0..n |-> e[k]]
    OBVIOUS
  <2>4. Is(e)
    BY <2>2, <2>3
  <2> QED BY <2>4
<1>6. Is(F)
  BY <1>5
<1>7. ArmSevered(f, callers) = F[n]
  BY DEF ArmSevered
<1> HIDE DEF F
<1>8. F[0] = f /\ \A k \in 1..n : F[k] = ArmSeveredCaller(F[k - 1], callers[k])
  BY <1>1, <1>6
<1>9. F[0] \in J[0]
  <2>1. f \in Fleet /\ SoundBut(f, P, q, Left(0)) /\ Grown(f, f)
    <3>1. Left(0) = W
      OBVIOUS
    <3> HIDE DEF Left
    <3> QED BY <3>1, GrownSelf DEF SoundBut
  <2>2. 0 \in 0..n
    BY <1>1
  <2> HIDE DEF Left, n
  <2> QED BY <1>8, <2>1, <2>2
<1>10. ASSUME NEW k \in 1..n, F[k - 1] \in J[k - 1] PROVE F[k] \in J[k]
  <2> DEFINE g == F[k - 1]
             c == callers[k]
  <2>1. k - 1 \in 0..n /\ k \in 0..n /\ c \in Session
    BY <1>1
  <2>2. SoundBut(g, P, q, Left(k - 1)) /\ Grown(f, g)
    BY <1>10, <2>1
  <2>3. SoundBut(F[k], P, q, Left(k - 1) \ {c}) /\ Grown(g, F[k])
    BY <1>8, <2>1, <2>2, ArmSeveredSound
  <2>4. Left(k - 1) \ {c} \subseteq Left(k)
    <3> SUFFICES ASSUME NEW x \in W, \A j \in 1..(k - 1) : callers[j] # x, x # c, NEW j \in 1..k PROVE callers[j] # x
      OBVIOUS
    <3>1. j = k \/ j \in 1..(k - 1)
      BY <2>1
    <3> QED BY <3>1
  <2>5. SoundBut(F[k], P, q, Left(k)) /\ Grown(f, F[k])
    <3> HIDE DEF Left
    <3> QED BY <2>2, <2>3, <2>4, ExemptMore, GrownTrans
  <2> HIDE DEF Left
  <2> QED BY <2>1, <2>5 DEF Grown
<1>11. F[n] \in J[n]
  <2> HIDE DEF J, n
  <2> QED BY <1>1, <1>9, <1>10, RunHolds
<1>12. Left(n) = {}
  OBVIOUS
<1>13. SoundBut(F[n], P, q, {}) /\ Grown(f, F[n])
  <2>1. n \in 0..n
    BY <1>1
  <2> HIDE DEF Left, n
  <2> QED BY <1>11, <1>12, <2>1
<1> QED BY <1>7, <1>13 DEF Sound

\* What a sever leaves alone, and what it adds to.
Widened(f, g) ==
  /\ g \in Fleet /\ g.phase = f.phase /\ g.unarmed = f.unarmed /\ g.queued = f.queued
  /\ g.active = f.active /\ g.mode = f.mode /\ g.orphaned = f.orphaned
  /\ f.marked \subseteq g.marked /\ f.badge \subseteq g.badge /\ f.timers \subseteq g.timers

LEMMA GrownWidened == ASSUME NEW f, NEW g, Grown(f, g) PROVE Widened(f, g)
BY DEF Grown, Widened

LEMMA WidenedTrans == ASSUME NEW f, NEW g, NEW h, Widened(f, g), Widened(g, h) PROVE Widened(f, h)
BY DEF Widened

\* The sever itself, before anybody is armed.
LEMMA CutSound ==
  ASSUME NEW f, NEW P, NEW q, Sound(f, P, q), f.active, NEW W \in SUBSET Session, \A c \in W : Live(f, c),
         NEW V \in SUBSET (Session \X Session)
  PROVE  /\ SoundBut([f EXCEPT !.waits = V, !.cut = @ \union W], P, q, W)
         /\ Widened(f, [f EXCEPT !.waits = V, !.cut = @ \union W])
<1> DEFINE g == [f EXCEPT !.waits = V, !.cut = @ \union W]
<1>1. f \in Fleet /\ SoundBut(f, P, q, {})
  BY DEF Sound, SoundBut
<1>2. /\ Widened(f, g) /\ g.cut = f.cut \union W
      /\ g.marked = f.marked /\ g.badge = f.badge /\ g.timers = f.timers
  BY <1>1 DEF Fleet, Widened
<1> HIDE DEF g
<1>3. \A x \in Session : /\ Live(g, x) = Live(f, x) /\ Registered(g, x) = Registered(f, x)
                         /\ InFlow(g, x) = InFlow(f, x) /\ LiveOwner(g, x) = LiveOwner(f, x)
  BY <1>2, SamePhases DEF Widened
<1>4. \A c \in Session : Covered(f, c) => Covered(g, c)
  BY <1>2, <1>3 DEF Covered, Widened
<1>5. \A c \in Session : CutOK(g, W, c)
  BY <1>1, <1>2, <1>3, <1>4 DEF SoundBut, CutOK, Widened
<1>6. \A x \in Session : MarksOK(g, P, q, x)
  BY <1>1, <1>2, <1>3 DEF SoundBut, MarksOK, Widened
<1>7. SoundBut(g, P, q, W)
  BY <1>1, <1>2, <1>5, <1>6 DEF SoundBut, Widened
<1> QED BY <1>2, <1>7 DEF g

LEMMA SeverSound ==
  ASSUME NEW f, NEW P, NEW q, Sound(f, P, q), f.active, NEW s \in Session
  PROVE  Sound(Sever(f, s), P, q) /\ Widened(f, Sever(f, s))
<1> DEFINE waiters == {c \in Session : <<c, s>> \in f.waits}
           own == {c \in {s} : \E t \in Session : <<c, t>> \in f.waits}
           W == {c \in waiters \union own : Live(f, c)}
           V == {e \in f.waits : s \notin {e[1], e[2]}}
           g == [f EXCEPT !.waits = V, !.cut = @ \union W]
           A == SetToSeq(waiters \ {s})
           B == SetToSeq(own)
<1>1. f \in Fleet
  BY DEF Sound, SoundBut
<1>2. V \in SUBSET (Session \X Session)
  BY <1>1 DEF Fleet
<1>3. waiters \ {s} \in SUBSET Session /\ own \in SUBSET Session /\ W \in SUBSET Session
  OBVIOUS
<1>4. Sever(f, s) = ArmSevered(g, A \o B)
  BY <1>1 DEF Sever, Fleet
<1>5. W \subseteq (waiters \ {s}) \union own
  <2> SUFFICES ASSUME NEW c \in W, c = s, c \in waiters PROVE c \in own
    OBVIOUS
  <2> QED OBVIOUS
<1>6. \A c \in W : Live(f, c)
  OBVIOUS
<1> HIDE DEF waiters, own, W, V
<1>7. SoundBut(g, P, q, W) /\ Widened(f, g)
  BY <1>2, <1>3, <1>6, CutSound
<1>8. /\ A \in Seq(Session) /\ \A c \in waiters \ {s} : \E k \in 1..Len(A) : A[k] = c
      /\ B \in Seq(Session) /\ \A c \in own : \E k \in 1..Len(B) : B[k] = c
  BY <1>3, SetToSeqNames
<1> HIDE DEF A, B, g
<1>9. A \o B \in Seq(Session) /\ Len(A \o B) = Len(A) + Len(B)
  BY <1>8
<1>10. ASSUME NEW c \in W PROVE \E k \in 1..Len(A \o B) : (A \o B)[k] = c
  <2>1. CASE c \in waiters \ {s}
    <3>1. PICK k \in 1..Len(A) : A[k] = c
      BY <1>8, <2>1
    <3>2. k \in 1..Len(A \o B) /\ (A \o B)[k] = A[k]
      BY <1>8, <1>9
    <3> QED BY <3>1, <3>2
  <2>2. CASE c \in own
    <3>1. PICK k \in 1..Len(B) : B[k] = c
      BY <1>8, <2>2
    <3>2. Len(A) + k \in 1..Len(A \o B) /\ (A \o B)[Len(A) + k] = B[k]
      BY <1>8, <1>9
    <3> QED BY <3>1, <3>2
  <2> QED BY <1>5, <2>1, <2>2
<1>11. Sound(ArmSevered(g, A \o B), P, q) /\ Grown(g, ArmSevered(g, A \o B))
  BY <1>7, <1>9, <1>10, ArmSeveredAll
<1> QED BY <1>4, <1>7, <1>11, GrownWidened, WidenedTrans

-----------------------------------------------------------------------------
(* Other changes *)

\* What is read of who is live and registered alone.
LEMMA SameLives ==
  ASSUME NEW f, NEW g, \A x \in Session : Live(g, x) = Live(f, x) /\ Registered(g, x) = Registered(f, x)
  PROVE  \A c \in Session : InFlow(g, c) = InFlow(f, c) /\ LiveOwner(g, c) = LiveOwner(f, c)
<1>1. \A c \in Session : Parent(g, c) = Parent(f, c) /\ Parent(f, c) \in Session \union {NoSession}
  BY OverageAssumption DEF Parent
<1>2. \A c \in Session : LiveOwner(g, c) = LiveOwner(f, c)
  BY <1>1 DEF LiveOwner
<1>3. \A c \in Session : InFlow(g, c) => InFlow(f, c)
  BY FlowShrinks
<1>4. \A c \in Session : InFlow(f, c) => InFlow(g, c)
  BY FlowShrinks
<1>5. \A c \in Session : InFlow(g, c) \in BOOLEAN /\ InFlow(f, c) \in BOOLEAN
  BY DEF InFlow
<1> QED BY <1>2, <1>3, <1>4, <1>5

\* The marks, the lockout and the history stay as they are.
Alike(f, g) ==
  /\ g \in Fleet /\ g.marked = f.marked /\ g.badge = f.badge /\ g.timers = f.timers
  /\ g.unarmed = f.unarmed /\ g.queued = f.queued /\ g.orphaned = f.orphaned
  /\ g.active = f.active /\ g.mode = f.mode /\ g.cut = f.cut

\* Nothing that matters changes.
LEMMA AlikeSound ==
  ASSUME NEW f, NEW P, NEW q, Sound(f, P, q), NEW g, Alike(f, g), g.phase = f.phase
  PROVE  Sound(g, P, q)
<1>1. \A c \in Session : Covered(f, c) => Covered(g, c)
  BY SamePhases DEF Alike, Covered
<1>2. \A c \in Session : CutOK(g, {}, c)
  BY <1>1, SamePhases DEF Alike, Sound, SoundBut, CutOK
<1>3. \A c \in Session : MarksOK(g, P, q, c)
  BY SamePhases DEF Alike, Sound, SoundBut, MarksOK
<1> QED BY <1>2, <1>3 DEF Alike, Sound, SoundBut

\* A live session goes from one live phase to another.
LEMMA LiveMove ==
  ASSUME NEW f, NEW P, NEW q, Sound(f, P, q), NEW s \in Session, Live(f, s), NEW p \in {"idle", "turn"},
         NEW g, Alike(f, g), g.phase = [f.phase EXCEPT ![s] = p]
  PROVE  /\ Sound(g, P, q)
         /\ \A x \in Session : Live(g, x) = Live(f, x) /\ Registered(g, x) = Registered(f, x) /\ InFlow(g, x) = InFlow(f, x)
<1>1. f \in Fleet /\ f.phase \in [Session -> Phase]
  BY DEF Sound, SoundBut, Fleet
<1>2. ASSUME NEW x \in Session
      PROVE  /\ Live(g, x) = Live(f, x) /\ Registered(g, x) = Registered(f, x)
             /\ g.phase[x] \in {"idle", "turn", "gap"} <=> f.phase[x] \in {"idle", "turn", "gap"}
  BY <1>1 DEF Live, Registered
<1>3. \A x \in Session : InFlow(g, x) = InFlow(f, x) /\ LiveOwner(g, x) = LiveOwner(f, x)
  BY <1>2, SameLives
<1>4. \A c \in Session : Covered(f, c) => Covered(g, c)
  BY <1>3 DEF Alike, Covered
<1>5. \A c \in Session : CutOK(g, {}, c)
  BY <1>2, <1>4 DEF Alike, Sound, SoundBut, CutOK
<1>6. ASSUME NEW x \in Session PROVE MarksOK(g, P, q, x)
  <2>1. MarksOK(f, P, q, x)
    BY DEF Sound, SoundBut
  <2> QED BY <1>2, <2>1 DEF Alike, MarksOK
<1> QED BY <1>2, <1>3, <1>5, <1>6 DEF Alike, Sound, SoundBut

\* Off S the sessions are as they were.
AgreeOff(f, g, S) ==
  \A x \in Session \ S :
    /\ g.phase[x] = f.phase[x]
    /\ x \in g.marked <=> x \in f.marked
    /\ x \in g.badge <=> x \in f.badge
    /\ x \in g.timers <=> x \in f.timers
    /\ x \in g.queued <=> x \in f.queued
    /\ x \in g.orphaned <=> x \in f.orphaned

\* Something happens to the sessions of S alone, and no cut wake was theirs to make good.
LEMMA ChangeSound ==
  ASSUME NEW f, NEW P, NEW q, Sound(f, P, q), NEW S \in SUBSET Session, NEW g \in Fleet, NEW Q, NEW r,
         AgreeOff(f, g, S), P \ S \subseteq Q, \A x \in S : MarksOK(g, Q, r, x), r => q \/ S = Session, r => ~g.mode,
         g.cut = {} \/ (/\ g.active = f.active /\ g.mode = f.mode /\ g.cut \subseteq f.cut
                        /\ \A x \in S : Registered(g, x) => Registered(f, x)
                        /\ \A x \in Session \ S : x \in f.unarmed => x \in g.unarmed
                        /\ \A c \in g.cut : c \notin S /\ (LiveOwner(f, c) => Owner[c] \notin S))
  PROVE  Sound(g, Q, r)
<1>1. ASSUME NEW x \in Session PROVE MarksOK(g, Q, r, x)
  <2>1. CASE x \in S
    BY <2>1
  <2>2. CASE x \notin S
    <3>1. MarksOK(f, P, q, x) /\ x \in Session \ S
      BY <2>2 DEF Sound, SoundBut
    <3>2. Live(g, x) = Live(f, x) /\ Registered(g, x) = Registered(f, x) /\ g.phase[x] = f.phase[x]
      BY <3>1 DEF AgreeOff, Live, Registered
    <3>3. /\ x \in g.marked <=> x \in f.marked
          /\ x \in g.badge <=> x \in f.badge
          /\ x \in g.timers <=> x \in f.timers
          /\ x \in g.queued <=> x \in f.queued
          /\ x \in g.orphaned <=> x \in f.orphaned
      BY <3>1 DEF AgreeOff
    <3>4. x \in P => x \in Q
      BY <3>1
    <3>5. r => q
      BY <3>1
    <3> QED BY <3>1, <3>2, <3>3, <3>4, <3>5 DEF MarksOK
  <2> QED BY <2>1, <2>2
<1>2. ASSUME NEW c \in Session, c \in g.cut PROVE Live(g, c) /\ g.active /\ (g.mode => Covered(g, c))
  <2>1. /\ c \in f.cut /\ c \in Session \ S /\ g.active = f.active /\ g.mode = f.mode
        /\ LiveOwner(f, c) => Owner[c] \in Session \ S
    BY <1>2, OverageAssumption DEF LiveOwner, Parent
  <2>2. Live(f, c) /\ f.active /\ (f.mode => Covered(f, c))
    BY <2>1 DEF Sound, SoundBut, CutOK
  <2>3. Live(g, c)
    BY <2>1, <2>2 DEF AgreeOff, Live
  <2>4. ASSUME Covered(f, c) PROVE Covered(g, c)
    <3>1. \A x \in Session : Registered(g, x) => Registered(f, x)
      BY <1>2 DEF AgreeOff, Registered
    <3>2. InFlow(g, c) => InFlow(f, c)
      BY <3>1, FlowShrinks
    <3>3. \A x \in Session \ S : x \in f.marked \union f.unarmed \union f.orphaned => x \in g.marked \union g.unarmed \union g.orphaned
      BY <1>2 DEF AgreeOff
    <3>4. ASSUME LiveOwner(f, c) PROVE LiveOwner(g, c)
      <4>1. Owner[c] # NoSession /\ Registered(f, Owner[c]) /\ Live(f, Owner[c]) /\ Owner[c] \in Session \ S
        BY <2>1, <3>4 DEF LiveOwner, Parent
      <4>2. Registered(g, Owner[c]) /\ Live(g, Owner[c])
        BY <4>1 DEF AgreeOff, Registered, Live
      <4> QED BY <4>1, <4>2 DEF LiveOwner, Parent
    <3> QED BY <2>1, <2>4, <3>2, <3>3, <3>4 DEF Covered
  <2> QED BY <2>1, <2>2, <2>3, <2>4
<1> QED BY <1>1, <1>2 DEF Sound, SoundBut, CutOK

\* A turn starts.
LEMMA TurnSound ==
  ASSUME NEW f, NEW P, NEW q, Sound(f, P, q), NEW s \in Session, Live(f, s)
  PROVE  Sound(TurnStarts(f, s), P, q)
<1> DEFINE V == f.waits \union {<<c, s>> : c \in {Parent(f, s)} \ {NoSession}}
           g == [f EXCEPT !.phase[s] = "turn", !.waits = V]
<1>1. f \in Fleet
  BY DEF Sound, SoundBut
<1>2. V \in SUBSET (Session \X Session)
  BY <1>1, OverageAssumption DEF Fleet, Parent
<1> HIDE DEF V
<1>3. Alike(f, g) /\ g.phase = [f.phase EXCEPT ![s] = "turn"]
  BY <1>1, <1>2 DEF Fleet, Alike, Phase
<1>4. TurnStarts(f, s) = Guard(g, s)
  BY <1>1 DEF TurnStarts, Fleet, V
<1> HIDE DEF g
<1>5. Sound(g, P, q)
  BY <1>3, LiveMove
<1>6. CASE GateActive(g, s) /\ s \notin g.firing
  <2>1. Guard(g, s) = Sever(g, s) /\ g.active
    BY <1>6 DEF Guard, GateActive
  <2> QED BY <1>4, <1>5, <2>1, SeverSound
<1>7. CASE ~(GateActive(g, s) /\ s \notin g.firing)
  BY <1>4, <1>5, <1>7 DEF Guard
<1> QED BY <1>6, <1>7

LEMMA InternalSound ==
  ASSUME NEW f, NEW P, NEW q, Sound(f, P, q), NEW s \in Session
  PROVE  Sound(InternalPrompt(f, s), P, q)
BY TurnSound DEF InternalPrompt, Live

-----------------------------------------------------------------------------
(* A resume is cancelled; the lockout ends *)

\* The sessions of S were cancelled; who was to make a cut wake good is another matter.
Cancelled(f, g, S) ==
  /\ g \in Fleet /\ g.phase = f.phase /\ g.active = f.active /\ g.mode = f.mode
  /\ g.orphaned = f.orphaned /\ g.timers = f.timers \ S
  /\ g.marked = {x \in f.marked : x \in S => ~Registered(f, x)}
  /\ g.badge = {x \in f.badge : x \in S => ~Registered(f, x)}
  /\ g.queued = {x \in f.queued : x \in S => ~Registered(f, x)}
  /\ g.unarmed = {x \in f.unarmed : x \in S => ~Registered(f, x)}
  /\ g.firing = f.firing /\ g.sending = f.sending /\ g.waits = f.waits

LEMMA CancelShape ==
  ASSUME NEW f \in Fleet, NEW S \in SUBSET Session
  PROVE  Cancelled(f, CancelAll(f, S), S) /\ CancelAll(f, S).cut = f.cut
<1> DEFINE F == [s \in Session |-> IF s \in S THEN 0 ELSE f.fails[s]]
<1>1. F \in [Session -> 0..FailOpenAfter - 1]
  BY OverageAssumption DEF Fleet
<1> HIDE DEF F
<1> DEFINE R == {s \in S : Registered(f, s)}
           g == [f EXCEPT !.timers = @ \ S, !.fails = F, !.badge = @ \ R, !.marked = @ \ R, !.unarmed = @ \ R,
                          !.queued = @ \ R]
<1>2. CancelAll(f, S) = g
  BY DEF CancelAll, F, Fleet
<1>3. /\ g \in Fleet /\ g.phase = f.phase /\ g.active = f.active /\ g.mode = f.mode
      /\ g.orphaned = f.orphaned /\ g.cut = f.cut /\ g.timers = f.timers \ S
      /\ g.marked = f.marked \ R /\ g.badge = f.badge \ R /\ g.queued = f.queued \ R /\ g.unarmed = f.unarmed \ R
      /\ g.firing = f.firing /\ g.sending = f.sending /\ g.waits = f.waits
  <2> HIDE DEF R
  <2> QED BY <1>1 DEF Fleet
<1> HIDE DEF g
<1>4. \A X : X \ R = {x \in X : x \in S => ~Registered(f, x)}
  OBVIOUS
<1> QED BY <1>2, <1>3, <1>4 DEF Cancelled

LEMMA CancelSound ==
  ASSUME NEW f, NEW P, NEW q, Sound(f, P, q), NEW S \in SUBSET Session, NEW g, Cancelled(f, g, S), g.cut \subseteq f.cut,
         \A c \in g.cut : c \notin S /\ (LiveOwner(f, c) => Owner[c] \notin S)
  PROVE  Sound(g, P \ S, q)
<1>1. ASSUME NEW x \in S PROVE MarksOK(g, P \ S, q, x)
  <2>1. MarksOK(f, P, q, x)
    BY DEF Sound, SoundBut
  <2>2. Live(g, x) => Registered(f, x)
    BY LiveRegistered DEF Cancelled, Registered
  <2>3. Registered(f, x) = Registered(g, x)
    BY DEF Cancelled, Registered
  <2>4. x \notin g.timers /\ (Registered(f, x) => x \notin g.marked \union g.badge \union g.queued)
    BY DEF Cancelled
  <2>5. CASE Registered(f, x)
    BY <2>4, <2>5 DEF MarksOK
  <2>6. CASE ~Registered(f, x)
    BY <2>1, <2>2, <2>3, <2>4, <2>6 DEF MarksOK, Cancelled
  <2> QED BY <2>5, <2>6
<1>2. AgreeOff(f, g, S)
  BY DEF AgreeOff, Cancelled
<1>3. \A x \in Session : Registered(g, x) = Registered(f, x)
  BY DEF Cancelled, Registered
<1>4. q => ~g.mode
  BY DEF Sound, SoundBut, Cancelled
<1>5. \A x \in Session \ S : x \in f.unarmed => x \in g.unarmed
  BY DEF Cancelled
<1>6. g \in Fleet /\ g.active = f.active /\ g.mode = f.mode
  BY DEF Cancelled
<1> QED BY <1>1, <1>2, <1>3, <1>4, <1>5, <1>6, ChangeSound

\* A cancelled session that runs again, or ends, leaves none of its wakes cut.
LEMMA DrivenShape ==
  ASSUME NEW f \in Fleet, NEW s \in Session
  PROVE  /\ Driven(f, s) \in Fleet
         /\ Driven(f, s).cut = {c \in f.cut : c # s /\ Owner[c] # s}
         /\ Driven(f, s) = [f EXCEPT !.cut = {c \in f.cut : c # s /\ Owner[c] # s}]
         /\ Cancelled(f, Driven(Cancel(f, s), s), {s})
         /\ Driven(Cancel(f, s), s).cut = {c \in f.cut : c # s /\ Owner[c] # s}
<1> DEFINE h == Cancel(f, s)
           g == Driven(h, s)
<1>1. Cancelled(f, h, {s}) /\ h.cut = f.cut
  BY CancelShape DEF Cancel
<1> HIDE DEF h
<1>2. Cancelled(f, g, {s}) /\ g.cut = {c \in f.cut : c # s /\ Owner[c] # s}
  BY <1>1 DEF Cancelled, Driven, Fleet
<1> HIDE DEF g
<1>3. Cancelled(f, Driven(Cancel(f, s), s), {s}) /\ Driven(Cancel(f, s), s).cut = {c \in f.cut : c # s /\ Owner[c] # s}
  BY <1>2 DEF g, h
<1>4. /\ Driven(f, s) \in Fleet
      /\ Driven(f, s).cut = {c \in f.cut : c # s /\ Owner[c] # s}
      /\ Driven(f, s) = [f EXCEPT !.cut = {c \in f.cut : c # s /\ Owner[c] # s}]
  BY DEF Driven, Fleet
<1> QED BY <1>3, <1>4

LEMMA DrivenSound ==
  ASSUME NEW f, NEW P, NEW q, Sound(f, P, q), NEW s \in Session
  PROVE  Sound(Driven(Cancel(f, s), s), P \ {s}, q)
<1> DEFINE g == Driven(Cancel(f, s), s)
<1>1. f \in Fleet
  BY DEF Sound, SoundBut
<1>2. Cancelled(f, g, {s}) /\ g.cut = {c \in f.cut : c # s /\ Owner[c] # s}
  BY <1>1, DrivenShape
<1> HIDE DEF g
<1>3. Sound(g, P \ {s}, q)
  BY <1>2, CancelSound
<1> QED BY <1>3 DEF g

\* There is nothing to make good for a session without a process.
LEMMA CancelDeadSound ==
  ASSUME NEW f, NEW P, NEW q, Sound(f, P, q), NEW s \in Session, ~Live(f, s)
  PROVE  Sound(Cancel(f, s), P \ {s}, q)
<1> DEFINE g == Cancel(f, s)
<1>1. f \in Fleet
  BY DEF Sound, SoundBut
<1>2. Cancelled(f, g, {s}) /\ g.cut = f.cut
  BY <1>1, CancelShape DEF Cancel
<1> HIDE DEF g
<1>3. ASSUME NEW c \in g.cut PROVE c # s /\ (LiveOwner(f, c) => Owner[c] # s)
  <2>1. c \in Session /\ c \in f.cut
    BY <1>1, <1>2 DEF Fleet
  <2>2. Live(f, c)
    BY <2>1 DEF Sound, SoundBut, CutOK
  <2> QED BY <2>2 DEF LiveOwner, Parent
<1>4. Sound(g, P \ {s}, q)
  BY <1>2, <1>3, CancelSound
<1> QED BY <1>4 DEF g

\* Only who is parked matters to what is read of a larger set of checks.
LEMMA MoreChecks ==
  ASSUME NEW f, NEW P, NEW q, Sound(f, P, q), NEW Q, P \subseteq Q
  PROVE  Sound(f, Q, q)
BY DEF Sound, SoundBut, MarksOK

\* _clearOverage
LEMMA ClearSound ==
  ASSUME NEW f, NEW P, NEW q, Sound(f, P, q)
  PROVE  Sound(ClearOverage(f), P, q)
<1> DEFINE g == ClearOverage(f)
<1>1. f \in Fleet
  BY DEF Sound, SoundBut
<1>2. g \in Fleet /\ g.cut = {} /\ g.mode = FALSE /\ AgreeOff(f, g, {})
  BY <1>1 DEF ClearOverage, Fleet, AgreeOff
<1> HIDE DEF g
<1>3. Sound(g, P, q)
  BY <1>2, ChangeSound
<1> QED BY <1>3 DEF g

LEMMA MaybeReleaseSound ==
  ASSUME NEW f, NEW P, NEW q, Sound(f, P, q)
  PROVE  Sound(MaybeRelease(f), P, q)
BY ClearSound DEF MaybeRelease

-----------------------------------------------------------------------------
(* A usage check's outcome *)

\* The session of a check that is over has a deadline, or nothing to wait for.
LEMMA FewerChecks ==
  ASSUME NEW f, NEW P, NEW q, Sound(f, P, q), NEW s \in Session,
         s \in f.timers \/ s \notin f.badge \union (f.queued \ f.orphaned)
  PROVE  Sound(f, P \ {s}, q)
<1>1. ASSUME NEW x \in Session PROVE MarksOK(f, P \ {s}, q, x)
  <2>1. MarksOK(f, P, q, x)
    BY DEF Sound, SoundBut
  <2>2. CASE x = s
    BY <2>1, <2>2 DEF MarksOK
  <2>3. CASE x # s
    BY <2>1, <2>3 DEF MarksOK
  <2> QED BY <2>2, <2>3
<1> QED BY <1>1 DEF Sound, SoundBut

LEMMA RescheduleSound ==
  ASSUME NEW f, NEW P, NEW q, Sound(f, P, q), NEW s \in Session, Live(f, s), s \in f.marked \union f.badge
  PROVE  Sound(Reschedule(f, s), P \ {s}, q)
<1> DEFINE g == Arm(f, s)
           b == g.ahead \/ f.mode
<1>1. f \in Fleet /\ s \in f.marked
  BY DEF Sound, SoundBut, MarksOK
<1>2. Sound(g, P, q) /\ Grown(f, g) /\ g.timers = f.timers \union {s}
  BY <1>1, ArmSound, ArmShape DEF Sound
<1>3. Reschedule(f, s) = [g EXCEPT !.ahead = b]
  BY DEF Reschedule
<1> HIDE DEF g
<1>4. b \in BOOLEAN /\ g \in Fleet
  BY <1>1, <1>2 DEF Grown, Fleet
<1>5. Sound(g, P \ {s}, q)
  BY <1>2, FewerChecks
<1> HIDE DEF b
<1>6. Alike(g, [g EXCEPT !.ahead = b]) /\ [g EXCEPT !.ahead = b].phase = g.phase
  BY <1>4 DEF Fleet, Alike
<1> QED BY <1>3, <1>5, <1>6, AlikeSound

LEMMA ResumeSound ==
  ASSUME NEW f, NEW P, NEW q, Sound(f, P, q), NEW s \in Session, NEW saving
  PROVE  Sound(Resume(f, s, saving), P \ {s}, q)
<1> DEFINE Q == P \ {s}
           c == Driven(Cancel(f, s), s)
           g == [c EXCEPT !.firing = @ \union {s}]
           h == InternalPrompt(g, s)
<1>1. CASE ~Live(f, s)
  BY <1>1, CancelDeadSound DEF Resume
<1>2. CASE Live(f, s)
  <2>1. Sound(c, Q, q) /\ c \in Fleet
    BY DrivenSound DEF Sound, SoundBut
  <2>2. Resume(f, s, saving) = IF saving /\ s \in f.queued THEN [g EXCEPT !.sending = @ \union {s}]
                                ELSE [h EXCEPT !.firing = @ \ {s}]
    BY <1>2 DEF Resume
  <2> HIDE DEF c, Q
  <2>3. Alike(c, g) /\ g.phase = c.phase
    BY <2>1 DEF Fleet, Alike
  <2> HIDE DEF g
  <2>4. Sound(g, Q, q) /\ g \in Fleet
    BY <2>1, <2>3, AlikeSound DEF Alike
  <2>5. Sound(h, Q, q) /\ h \in Fleet
    BY <2>4, InternalSound DEF Sound, SoundBut
  <2>6. Alike(g, [g EXCEPT !.sending = @ \union {s}]) /\ [g EXCEPT !.sending = @ \union {s}].phase = g.phase
    BY <2>4 DEF Fleet, Alike
  <2> HIDE DEF h
  <2>7. Alike(h, [h EXCEPT !.firing = @ \ {s}]) /\ [h EXCEPT !.firing = @ \ {s}].phase = h.phase
    BY <2>5 DEF Fleet, Alike
  <2>8. Sound([g EXCEPT !.sending = @ \union {s}], Q, q) /\ Sound([h EXCEPT !.firing = @ \ {s}], Q, q)
    BY <2>4, <2>5, <2>6, <2>7, AlikeSound
  <2> QED BY <2>2, <2>8 DEF Q
<1> QED BY <1>1, <1>2

\* A failed check is counted, or the count starts anew.
LEMMA CountSound ==
  ASSUME NEW f, NEW P, NEW q, Sound(f, P, q), NEW s \in Session, NEW n \in 0..FailOpenAfter - 1
  PROVE  /\ Sound([f EXCEPT !.fails[s] = n], P, q)
         /\ Alike(f, [f EXCEPT !.fails[s] = n]) /\ [f EXCEPT !.fails[s] = n].phase = f.phase
<1>1. f \in Fleet
  BY DEF Sound, SoundBut
<1>2. Alike(f, [f EXCEPT !.fails[s] = n]) /\ [f EXCEPT !.fails[s] = n].phase = f.phase
  BY <1>1 DEF Fleet, Alike
<1> QED BY <1>2, AlikeSound

LEMMA ResolveSound ==
  ASSUME NEW f, NEW P, NEW q, Sound(f, P, q), NEW s \in Session, NEW usage, NEW saving
  PROVE  Sound(Resolve(f, s, usage, saving), P \ {s}, q)
<1> DEFINE n == f.fails[s] + 1
           z == [f EXCEPT !.fails[s] = 0]
           y == [f EXCEPT !.fails[s] = n]
           r == Resolve(f, s, usage, saving)
<1>1. f \in Fleet /\ MarksOK(f, P, q, s) /\ n \in Nat
  BY DEF Sound, SoundBut, Fleet
<1>2. 0 \in 0..FailOpenAfter - 1
  BY OverageAssumption
<1>3. Sound(z, P, q) /\ Alike(f, z) /\ z.phase = f.phase
  BY <1>2, CountSound
<1>4. n < FailOpenAfter => Sound(y, P, q) /\ Alike(f, y) /\ y.phase = f.phase
  <2> SUFFICES ASSUME n < FailOpenAfter PROVE Sound(y, P, q) /\ Alike(f, y) /\ y.phase = f.phase
    OBVIOUS
  <2>1. n \in 0..FailOpenAfter - 1
    BY <1>1, OverageAssumption
  <2> HIDE DEF n
  <2> QED BY <2>1, CountSound
<1>5. CASE s \notin f.marked /\ s \notin f.badge
  <2>1. r = z
    BY <1>5 DEF Resolve
  <2>2. s \notin z.badge \union (z.queued \ z.orphaned) \/ ~Live(z, s)
    BY <1>1, <1>3, <1>5, SamePhases DEF MarksOK, Alike
  <2>3. CASE Live(z, s)
    BY <1>3, <2>1, <2>2, <2>3, FewerChecks
  <2>4. CASE ~Live(z, s)
    <3> HIDE DEF z
    <3>1. \A x \in Session : MarksOK(z, P \ {s}, q, x)
      BY <1>3, <2>4 DEF Sound, SoundBut, MarksOK
    <3> QED BY <1>3, <2>1, <3>1 DEF Sound, SoundBut
  <2> QED BY <2>3, <2>4
<1>6. CASE ~(s \notin f.marked /\ s \notin f.badge)
  <2>1. s \in f.marked \union f.badge
    BY <1>6
  <2>2. CASE Live(f, s) /\ usage = "over"
    <3>1. r = Reschedule(f, s)
      BY <1>6, <2>2 DEF Resolve
    <3> QED BY <2>1, <2>2, <3>1, RescheduleSound
  <2>3. CASE Live(f, s) /\ usage = "unknown" /\ n < FailOpenAfter
    <3>1. r = Reschedule(y, s)
      BY <1>6, <2>3 DEF Resolve
    <3>2. Sound(y, P, q) /\ Live(y, s) /\ s \in y.marked \union y.badge
      BY <1>4, <2>1, <2>3, SamePhases DEF Alike
    <3> HIDE DEF y, r
    <3> QED BY <3>1, <3>2, RescheduleSound DEF r
  <2>4. CASE ~(Live(f, s) /\ usage = "over") /\ ~(Live(f, s) /\ usage = "unknown" /\ n < FailOpenAfter)
    <3>1. r = MaybeRelease(Resume(z, s, saving))
      BY <1>6, <2>4 DEF Resolve
    <3> HIDE DEF r, z
    <3>2. Sound(Resume(z, s, saving), P \ {s}, q)
      BY <1>3, ResumeSound
    <3> QED BY <3>1, <3>2, MaybeReleaseSound DEF r
  <2> QED BY <2>2, <2>3, <2>4
<1> QED BY <1>5, <1>6

\* An idle session that nobody parked.
Spared(f, s) == s \notin f.marked \union f.badge /\ f.phase[s] = "idle"

LEMMA SparedAlike ==
  ASSUME NEW f, NEW g, Alike(f, g), g.phase = f.phase, NEW s
  PROVE  Spared(f, s) => Spared(g, s)
BY DEF Alike, Spared

\* While x fires, its own turn is let through: the guard severs nothing.
LEMMA FiringSpares ==
  ASSUME NEW f \in Fleet, NEW x \in Session, x \in f.firing, NEW s \in Session, s # x, Spared(f, s)
  PROVE  Spared(InternalPrompt(f, x), s)
<1> DEFINE V == f.waits \union {<<c, x>> : c \in {Parent(f, x)} \ {NoSession}}
           g == [f EXCEPT !.phase[x] = "turn", !.waits = V]
<1>1. CASE f.phase[x] = "idle"
  <2>1. InternalPrompt(f, x) = Guard(g, x)
    BY <1>1 DEF InternalPrompt, TurnStarts, Fleet
  <2> HIDE DEF V
  <2>2. g.firing = f.firing /\ g.marked = f.marked /\ g.badge = f.badge /\ g.phase = [f.phase EXCEPT ![x] = "turn"]
    BY DEF Fleet
  <2> HIDE DEF g
  <2>3. Guard(g, x) = g
    BY <2>2 DEF Guard
  <2>4. Spared(g, s)
    BY <2>2 DEF Spared, Fleet
  <2> QED BY <2>1, <2>3, <2>4
<1>2. CASE f.phase[x] # "idle"
  BY <1>2 DEF InternalPrompt
<1> QED BY <1>1, <1>2

LEMMA ReleaseSpares ==
  ASSUME NEW f \in Fleet, NEW s
  PROVE  Spared(f, s) => Spared(MaybeRelease(f), s)
BY DEF MaybeRelease, ClearOverage, Fleet, Spared

LEMMA RescheduleSpares ==
  ASSUME NEW f \in Fleet, NEW x \in Session, NEW s, s # x, Spared(f, s)
  PROVE  Spared(Reschedule(f, x), s)
BY DEF Reschedule, Arm, Fleet, Spared

LEMMA ResumeSpares ==
  ASSUME NEW f, NEW P, NEW q, Sound(f, P, q), NEW x \in Session, NEW s \in Session, s # x, Spared(f, s), NEW saving
  PROVE  Spared(Resume(f, x, saving), s)
<1> DEFINE k == Cancel(f, x)
           c == Driven(k, x)
           g == [c EXCEPT !.firing = @ \union {x}]
           h == InternalPrompt(g, x)
<1>1. f \in Fleet
  BY DEF Sound, SoundBut
<1>2. Cancelled(f, k, {x})
  BY <1>1, CancelShape DEF Cancel
<1>3. Cancelled(f, c, {x})
  BY <1>1, DrivenShape
<1>4. Resume(f, x, saving) = IF ~Live(f, x) THEN k
                             ELSE IF saving /\ x \in f.queued THEN [g EXCEPT !.sending = @ \union {x}]
                             ELSE [h EXCEPT !.firing = @ \ {x}]
  BY DEF Resume
<1>5. Sound(c, P \ {x}, q)
  BY DrivenSound
<1> HIDE DEF k, c
<1>6. Spared(k, s) /\ Spared(c, s) /\ c \in Fleet
  BY <1>2, <1>3 DEF Cancelled, Spared
<1>7. Alike(c, g) /\ g.phase = c.phase /\ x \in g.firing
  BY <1>6 DEF Alike, Fleet
<1> HIDE DEF g
<1>8. Spared(g, s) /\ g \in Fleet /\ Sound(g, P \ {x}, q)
  BY <1>5, <1>6, <1>7, AlikeSound, SparedAlike DEF Alike
<1>9. Spared(h, s) /\ h \in Fleet
  BY <1>7, <1>8, FiringSpares, InternalSound DEF Sound, SoundBut
<1> HIDE DEF h
<1>10. Spared([g EXCEPT !.sending = @ \union {x}], s) /\ Spared([h EXCEPT !.firing = @ \ {x}], s)
  BY <1>8, <1>9 DEF Fleet, Spared
<1> QED BY <1>4, <1>6, <1>10

\* A check resumes the session it is of, and that only while it is parked.
LEMMA ResolveSpares ==
  ASSUME NEW f, NEW P, NEW q, Sound(f, P, q), NEW x \in Session, NEW s \in Session, Spared(f, s), NEW usage, NEW saving
  PROVE  Spared(Resolve(f, x, usage, saving), s)
<1> DEFINE n == f.fails[x] + 1
           z == [f EXCEPT !.fails[x] = 0]
           y == [f EXCEPT !.fails[x] = n]
           r == Resolve(f, x, usage, saving)
<1>1. f \in Fleet /\ n \in Nat /\ 0 \in 0..FailOpenAfter - 1
  BY OverageAssumption DEF Sound, SoundBut, Fleet
<1>2. Sound(z, P, q) /\ Spared(z, s)
  <2>1. Sound(z, P, q) /\ Alike(f, z) /\ z.phase = f.phase
    BY <1>1, CountSound
  <2> HIDE DEF z
  <2> QED BY <2>1, SparedAlike
<1>3. n < FailOpenAfter => Spared(y, s) /\ y \in Fleet
  <2> SUFFICES ASSUME n < FailOpenAfter PROVE Spared(y, s) /\ y \in Fleet
    OBVIOUS
  <2>1. n \in 0..FailOpenAfter - 1
    BY <1>1, OverageAssumption
  <2> HIDE DEF n
  <2>2. Alike(f, y) /\ y.phase = f.phase
    BY <2>1, CountSound
  <2> HIDE DEF y
  <2> QED BY <2>2, SparedAlike DEF Alike
<1>4. CASE x \notin f.marked /\ x \notin f.badge
  <2>1. r = z
    BY <1>4 DEF Resolve
  <2> QED BY <1>2, <2>1
<1>5. CASE ~(x \notin f.marked /\ x \notin f.badge)
  <2>1. s # x
    BY <1>5 DEF Spared
  <2>2. CASE Live(f, x) /\ usage = "over"
    <3>1. r = Reschedule(f, x)
      BY <1>5, <2>2 DEF Resolve
    <3> QED BY <1>1, <2>1, <3>1, RescheduleSpares
  <2>3. CASE Live(f, x) /\ usage = "unknown" /\ n < FailOpenAfter
    <3>1. r = Reschedule(y, x)
      BY <1>5, <2>3 DEF Resolve
    <3>2. Spared(y, s) /\ y \in Fleet
      BY <1>3, <2>3
    <3> HIDE DEF y, r
    <3> QED BY <2>1, <3>1, <3>2, RescheduleSpares DEF r
  <2>4. CASE ~(Live(f, x) /\ usage = "over") /\ ~(Live(f, x) /\ usage = "unknown" /\ n < FailOpenAfter)
    <3>1. r = MaybeRelease(Resume(z, x, saving))
      BY <1>5, <2>4 DEF Resolve
    <3> HIDE DEF r, z
    <3>2. Resume(z, x, saving) \in Fleet /\ Spared(Resume(z, x, saving), s)
      BY <1>2, <2>1, ResumeSound, ResumeSpares DEF Sound, SoundBut
    <3> QED BY <3>1, <3>2, ReleaseSpares DEF r
  <2> QED BY <2>2, <2>3, <2>4
<1> QED BY <1>4, <1>5

\* The sweep's sessions, one after the other.
LEMMA ResolveAllSound ==
  ASSUME NEW f, NEW P, NEW q, Sound(f, P, q), NEW checked \in Seq(Session), NEW usage, NEW saving
  PROVE  /\ Sound(ResolveAll(f, checked, usage, saving), {c \in P : \A k \in 1..Len(checked) : checked[k] # c}, q)
         /\ \A s \in Session : Spared(f, s) => Spared(ResolveAll(f, checked, usage, saving), s)
<1> DEFINE D == {g \in Fleet : Sound(g, P, q)}
           n == Len(checked)
           Left(k) == {c \in P : \A j \in 1..k : checked[j] # c}
           Step(k, g) == IF k \in 1..n THEN Resolve(g, checked[k], usage, saving) ELSE g
           G == [p \in Nat \X D |-> Step(p[1], p[2])]
           Is(e) == e = [k \in 0..n |-> IF k = 0 THEN f ELSE Resolve(e[k - 1], checked[k], usage, saving)]
           F == CHOOSE e : Is(e)
           Spares(g) == \A s \in Session : Spared(f, s) => Spared(g, s)
           J == [k \in 0..n |-> {g \in Fleet : Sound(g, Left(k), q) /\ Spares(g)}]
<1>1. n \in Nat /\ f \in D /\ \A k \in 1..n : checked[k] \in Session
  BY DEF Sound, SoundBut
<1>2. \A k \in Nat, g \in D : Step(k, g) \in D
  <2> SUFFICES ASSUME NEW k \in 1..n, NEW g \in D PROVE Resolve(g, checked[k], usage, saving) \in D
    OBVIOUS
  <2>1. Sound(Resolve(g, checked[k], usage, saving), P \ {checked[k]}, q)
    BY <1>1, ResolveSound
  <2>2. Sound(Resolve(g, checked[k], usage, saving), P, q)
    BY <2>1, MoreChecks
  <2> QED BY <2>2 DEF Sound, SoundBut
<1>3. G \in [Nat \X D -> D] /\ \A k \in Nat, g \in D : G[<<k, g>>] = Step(k, g)
  <2> HIDE DEF Step
  <2> QED BY <1>2
<1>4. \A k \in 1..n : \A g : Step(k, g) = Resolve(g, checked[k], usage, saving)
  OBVIOUS
<1> HIDE DEF Step, G, D
<1>5. \E e : Is(e)
  <2>1. PICK e \in [0..n -> D] : IsRun(e, f, G, n)
    BY <1>1, <1>3, RunExists
  <2>2. \A k \in 0..n : e[k] = IF k = 0 THEN f ELSE Resolve(e[k - 1], checked[k], usage, saving)
    <3> TAKE k \in 0..n
    <3>1. CASE k = 0
      BY <2>1, <3>1 DEF IsRun
    <3>2. CASE k # 0
      <4>1. k \in 1..n /\ k \in Nat /\ k - 1 \in 0..n
        BY <1>1, <3>2
      <4>2. e[k] = G[<<k, e[k - 1]>>]
        BY <2>1, <3>2 DEF IsRun
      <4>3. e[k - 1] \in D
        BY <4>1
      <4> QED BY <1>3, <1>4, <3>2, <4>1, <4>2, <4>3
    <3> QED BY <3>1, <3>2
  <2>3. e = [k \in 0..n |-> e[k]]
    OBVIOUS
  <2>4. Is(e)
    BY <2>2, <2>3
  <2> QED BY <2>4
<1>6. Is(F)
  BY <1>5
<1>7. ResolveAll(f, checked, usage, saving) = F[n]
  BY DEF ResolveAll
<1> HIDE DEF F
<1>8. F[0] = f /\ \A k \in 1..n : F[k] = Resolve(F[k - 1], checked[k], usage, saving)
  BY <1>1, <1>6
<1>9. F[0] \in J[0]
  <2>1. f \in Fleet /\ Sound(f, Left(0), q) /\ Spares(f)
    <3>1. Left(0) = P
      OBVIOUS
    <3> HIDE DEF Left
    <3> QED BY <3>1 DEF Sound, SoundBut
  <2>2. 0 \in 0..n
    BY <1>1
  <2> HIDE DEF Left, Spares, n
  <2> QED BY <1>8, <2>1, <2>2
<1>10. ASSUME NEW k \in 1..n, F[k - 1] \in J[k - 1] PROVE F[k] \in J[k]
  <2> DEFINE g == F[k - 1]
             c == checked[k]
  <2>1. k - 1 \in 0..n /\ k \in 0..n /\ c \in Session
    BY <1>1
  <2>2. Sound(g, Left(k - 1), q) /\ Spares(g)
    BY <1>10, <2>1
  <2>3. Sound(F[k], Left(k - 1) \ {c}, q)
    BY <1>8, <2>1, <2>2, ResolveSound
  <2>4. Left(k - 1) \ {c} \subseteq Left(k)
    <3> SUFFICES ASSUME NEW x \in P, \A j \in 1..(k - 1) : checked[j] # x, x # c, NEW j \in 1..k PROVE checked[j] # x
      OBVIOUS
    <3>1. j = k \/ j \in 1..(k - 1)
      BY <2>1
    <3> QED BY <3>1
  <2>5. Sound(F[k], Left(k), q)
    <3> HIDE DEF Left
    <3> QED BY <2>3, <2>4, MoreChecks
  <2>6. Spares(F[k])
    <3> HIDE DEF Left
    <3> QED BY <1>8, <2>1, <2>2, ResolveSpares
  <2> HIDE DEF Left, Spares
  <2> QED BY <2>1, <2>5, <2>6 DEF Sound, SoundBut
<1>11. F[n] \in J[n]
  <2> HIDE DEF J, n
  <2> QED BY <1>1, <1>9, <1>10, RunHolds
<1>12. Sound(F[n], Left(n), q) /\ Spares(F[n])
  <2>1. n \in 0..n
    BY <1>1
  <2> HIDE DEF Left, Spares, n
  <2> QED BY <1>11, <2>1
<1> QED BY <1>7, <1>12

-----------------------------------------------------------------------------
(* A trip *)

\* A stop leaves alone who is live and what lockout it is.
Locked(f, g) == g \in Fleet /\ g.phase = f.phase /\ g.active = f.active /\ g.mode = f.mode

LEMMA DirectStopSound ==
  ASSUME NEW f, NEW P, NEW q, Sound(f, P, q), f.active, NEW s \in Session, Live(f, s), NEW armResume, armResume => f.mode
  PROVE  /\ Sound(DirectStop(f, s, armResume), P, q) /\ Widened(f, DirectStop(f, s, armResume))
         /\ armResume => s \in DirectStop(f, s, armResume).marked
<1> DEFINE m == [f EXCEPT !.marked = @ \union {s}]
           g == IF armResume THEN m ELSE f
           h == Sever(g, s)
<1>1. f \in Fleet /\ (q => ~f.mode)
  BY DEF Sound, SoundBut
<1>2. DirectStop(f, s, armResume) = IF armResume /\ f.phase[s] # "turn" THEN ArmNow(h, s) ELSE h
  BY DEF DirectStop
<1>3. Sound(g, P, q) /\ Widened(f, g) /\ (armResume => s \in g.marked)
  <2>1. CASE armResume
    <3>1. g = m
      BY <2>1
    <3>2. Sound(m, P, q) /\ Grown(f, m) /\ m.marked = f.marked \union {s}
      BY <1>1, <2>1, MarkSound, MarkShape DEF Sound
    <3> HIDE DEF m, g
    <3> QED BY <3>1, <3>2, GrownWidened
  <2>2. CASE ~armResume
    <3>1. g = f /\ Grown(f, f)
      BY <1>1, <2>2, GrownSelf
    <3> HIDE DEF g
    <3> QED BY <2>2, <3>1, GrownWidened
  <2> QED BY <2>1, <2>2
<1> HIDE DEF g
<1>4. g.active
  BY <1>3 DEF Widened
<1>5. Sound(h, P, q) /\ Widened(g, h)
  BY <1>3, <1>4, SeverSound
<1> HIDE DEF h
<1>6. Widened(f, h) /\ (armResume => s \in h.marked)
  BY <1>3, <1>5, WidenedTrans DEF Widened
<1>7. CASE armResume /\ f.phase[s] # "turn"
  <2>1. Live(h, s) /\ ~q
    BY <1>1, <1>6, <1>7, SamePhases DEF Widened
  <2>2. Sound(ArmNow(h, s), P, q) /\ Grown(h, ArmNow(h, s))
    BY <1>5, <2>1, ArmNowSound DEF Sound
  <2>3. Widened(f, ArmNow(h, s))
    BY <1>6, <2>2, GrownWidened, WidenedTrans
  <2>4. s \in ArmNow(h, s).marked
    BY <1>6, <1>7, <2>2 DEF Grown
  <2> QED BY <1>2, <1>7, <2>2, <2>3, <2>4
<1>8. CASE ~(armResume /\ f.phase[s] # "turn")
  BY <1>2, <1>5, <1>6, <1>8
<1> QED BY <1>7, <1>8

\* The mark of a session that is to be resumed stands in for its being un-armed.
LEMMA StopOtherSound ==
  ASSUME NEW f, NEW P, NEW q, Sound(f, P, q), f.active, NEW s \in Session, Live(f, s), NEW resume, resume <=> f.mode,
         NEW protected
  PROVE  Sound(StopOther(f, s, resume, protected), P, q) /\ Locked(f, StopOther(f, s, resume, protected))
<1> DEFINE a == resume /\ s \notin protected
           g == DirectStop(f, s, a)
           U == IF s \in protected THEN g.unarmed \union {s} ELSE g.unarmed \ {s}
           h == [g EXCEPT !.unarmed = U]
<1>1. Sound(g, P, q) /\ Widened(f, g) /\ (a => s \in g.marked)
  <2>1. a => f.mode
    OBVIOUS
  <2> HIDE DEF a
  <2> QED BY <2>1, DirectStopSound
<1>2. StopOther(f, s, resume, protected) = h
  BY DEF StopOther
<1> HIDE DEF g
<1>3. g \in Fleet /\ U \in SUBSET Session
  BY <1>1 DEF Widened, Fleet
<1>4. \A x \in Session : x \in g.unarmed => x \in U \/ (x = s /\ s \notin protected)
  OBVIOUS
<1> HIDE DEF U
<1>5. /\ h \in Fleet /\ h.phase = g.phase /\ h.active = g.active /\ h.mode = g.mode /\ h.unarmed = U
      /\ h.marked = g.marked /\ h.badge = g.badge /\ h.timers = g.timers /\ h.queued = g.queued
      /\ h.orphaned = g.orphaned /\ h.cut = g.cut
  BY <1>3 DEF Fleet
<1> HIDE DEF h
<1>6. Locked(f, h) /\ (h.mode => f.mode)
  BY <1>1, <1>5 DEF Locked, Widened
<1>7. \A x \in Session : MarksOK(h, P, q, x)
  BY <1>1, <1>5, SamePhases DEF Sound, SoundBut, MarksOK
<1>8. \A x \in Session : h.mode /\ x \in g.marked \union g.unarmed \union g.orphaned => x \in h.marked \union h.unarmed \union h.orphaned
  BY <1>1, <1>4, <1>5, <1>6
<1>9. \A c \in Session : Live(h, c) = Live(g, c) /\ InFlow(h, c) = InFlow(g, c) /\ LiveOwner(h, c) = LiveOwner(g, c)
  BY <1>5, SamePhases
<1>10. ASSUME NEW c \in Session, h.mode, Covered(g, c) PROVE Covered(h, c)
  <2>1. LiveOwner(g, c) => Owner[c] \in Session
    BY OverageAssumption DEF LiveOwner, Parent
  <2> QED BY <1>8, <1>9, <1>10, <2>1 DEF Covered
<1>11. \A c \in Session : CutOK(h, {}, c)
  BY <1>1, <1>5, <1>9, <1>10 DEF Sound, SoundBut, CutOK
<1>12. Sound(h, P, q)
  BY <1>1, <1>5, <1>7, <1>11 DEF Sound, SoundBut
<1> QED BY <1>2, <1>6, <1>12

LEMMA LockedLive ==
  ASSUME NEW f, NEW g, Locked(f, g), f.active
  PROVE  g.active /\ (\A x \in Session : Live(g, x) = Live(f, x)) /\ (f.mode <=> g.mode)
BY DEF Locked, Live

LEMMA LockedSelf == ASSUME NEW f \in Fleet PROVE Locked(f, f)
BY DEF Locked

LEMMA LockedTrans == ASSUME NEW f, NEW g, NEW h, Locked(f, g), Locked(g, h) PROVE Locked(f, h)
BY DEF Locked

\* The conductors in control.
LEMMA ConductorsSound ==
  ASSUME NEW f, NEW P, NEW q, Sound(f, P, q), f.active, NEW S, \A x \in S : x \in Session /\ Live(f, x),
         NEW conductors \in Seq(S), NEW resume, resume <=> f.mode
  PROVE  Sound(StopConductors(f, conductors, resume), P, q) /\ Locked(f, StopConductors(f, conductors, resume))
<1> DEFINE D == {g \in Fleet : Sound(g, P, q) /\ Locked(f, g)}
           n == Len(conductors)
           Step(k, g) == IF k \in 1..n THEN DirectStop(g, conductors[k], resume) ELSE g
           G == [p \in Nat \X D |-> Step(p[1], p[2])]
           Is(e) == e = [k \in 0..n |-> IF k = 0 THEN f ELSE DirectStop(e[k - 1], conductors[k], resume)]
           F == CHOOSE e : Is(e)
           J == [k \in 0..n |-> D]
<1>1. n \in Nat /\ f \in D /\ \A k \in 1..n : conductors[k] \in S
  BY LockedSelf DEF Sound, SoundBut
<1>2. ASSUME NEW k \in 1..n, NEW g \in D PROVE DirectStop(g, conductors[k], resume) \in D
  <2>1. Sound(g, P, q) /\ g.active /\ Live(g, conductors[k]) /\ (f.mode <=> g.mode) /\ conductors[k] \in Session /\ Locked(f, g)
    BY <1>1, LockedLive
  <2>2. Sound(DirectStop(g, conductors[k], resume), P, q) /\ Widened(g, DirectStop(g, conductors[k], resume))
    BY <2>1, DirectStopSound
  <2> QED BY <2>1, <2>2 DEF Widened, Locked
<1>3. \A k \in 1..n : \A g : Step(k, g) = DirectStop(g, conductors[k], resume)
  OBVIOUS
<1>4. G \in [Nat \X D -> D] /\ \A k \in Nat, g \in D : G[<<k, g>>] = Step(k, g)
  <2>1. \A k \in Nat, g \in D : Step(k, g) \in D
    BY <1>2
  <2> HIDE DEF Step
  <2> QED BY <2>1
<1> HIDE DEF Step, G, D
<1>5. \E e : Is(e)
  <2>1. PICK e \in [0..n -> D] : IsRun(e, f, G, n)
    BY <1>1, <1>4, RunExists
  <2>2. \A k \in 0..n : e[k] = IF k = 0 THEN f ELSE DirectStop(e[k - 1], conductors[k], resume)
    <3> TAKE k \in 0..n
    <3>1. CASE k = 0
      BY <2>1, <3>1 DEF IsRun
    <3>2. CASE k # 0
      <4>1. k \in 1..n /\ k \in Nat /\ k - 1 \in 0..n
        BY <1>1, <3>2
      <4>2. e[k] = G[<<k, e[k - 1]>>]
        BY <2>1, <3>2 DEF IsRun
      <4>3. e[k - 1] \in D
        BY <4>1
      <4> QED BY <1>3, <1>4, <3>2, <4>1, <4>2, <4>3
    <3> QED BY <3>1, <3>2
  <2>3. e = [k \in 0..n |-> e[k]]
    OBVIOUS
  <2>4. Is(e)
    BY <2>2, <2>3
  <2> QED BY <2>4
<1>6. Is(F)
  BY <1>5
<1>7. StopConductors(f, conductors, resume) = F[n]
  BY DEF StopConductors
<1> HIDE DEF F
<1>8. F[0] = f /\ \A k \in 1..n : F[k] = DirectStop(F[k - 1], conductors[k], resume)
  BY <1>1, <1>6
<1>9. F[n] \in D
  <2>1. 0 \in 0..n /\ n \in 0..n /\ \A k \in 1..n : k \in 0..n /\ k - 1 \in 0..n
    BY <1>1
  <2>2. J[0] = D /\ J[n] = D /\ \A k \in 1..n : J[k] = D /\ J[k - 1] = D
    BY <2>1
  <2>3. \A k \in 1..n : F[k - 1] \in D => F[k] \in D
    BY <1>2, <1>8
  <2> HIDE DEF J, n
  <2>4. F[n] \in J[n]
    BY <1>1, <1>8, <2>2, <2>3, RunHolds
  <2> QED BY <2>2, <2>4
<1> QED BY <1>7, <1>9 DEF D

\* Every other session mid-turn.
LEMMA OthersSound ==
  ASSUME NEW f, NEW P, NEW q, Sound(f, P, q), f.active, NEW S, \A x \in S : x \in Session /\ Live(f, x),
         NEW others \in Seq(S), NEW resume, resume <=> f.mode, NEW protected
  PROVE  Sound(StopOthers(f, others, resume, protected), P, q) /\ Locked(f, StopOthers(f, others, resume, protected))
<1> DEFINE D == {g \in Fleet : Sound(g, P, q) /\ Locked(f, g)}
           n == Len(others)
           Step(k, g) == IF k \in 1..n THEN StopOther(g, others[k], resume, protected) ELSE g
           G == [p \in Nat \X D |-> Step(p[1], p[2])]
           Is(e) == e = [k \in 0..n |-> IF k = 0 THEN f ELSE StopOther(e[k - 1], others[k], resume, protected)]
           F == CHOOSE e : Is(e)
           J == [k \in 0..n |-> D]
<1>1. n \in Nat /\ f \in D /\ \A k \in 1..n : others[k] \in S
  BY LockedSelf DEF Sound, SoundBut
<1>2. ASSUME NEW k \in 1..n, NEW g \in D PROVE StopOther(g, others[k], resume, protected) \in D
  <2>1. Sound(g, P, q) /\ g.active /\ Live(g, others[k]) /\ (f.mode <=> g.mode) /\ others[k] \in Session /\ Locked(f, g)
    BY <1>1, LockedLive
  <2>2. /\ Sound(StopOther(g, others[k], resume, protected), P, q)
        /\ Locked(g, StopOther(g, others[k], resume, protected))
    BY <2>1, StopOtherSound
  <2> QED BY <2>1, <2>2 DEF Locked
<1>3. \A k \in 1..n : \A g : Step(k, g) = StopOther(g, others[k], resume, protected)
  OBVIOUS
<1>4. G \in [Nat \X D -> D] /\ \A k \in Nat, g \in D : G[<<k, g>>] = Step(k, g)
  <2>1. \A k \in Nat, g \in D : Step(k, g) \in D
    BY <1>2
  <2> HIDE DEF Step
  <2> QED BY <2>1
<1> HIDE DEF Step, G, D
<1>5. \E e : Is(e)
  <2>1. PICK e \in [0..n -> D] : IsRun(e, f, G, n)
    BY <1>1, <1>4, RunExists
  <2>2. \A k \in 0..n : e[k] = IF k = 0 THEN f ELSE StopOther(e[k - 1], others[k], resume, protected)
    <3> TAKE k \in 0..n
    <3>1. CASE k = 0
      BY <2>1, <3>1 DEF IsRun
    <3>2. CASE k # 0
      <4>1. k \in 1..n /\ k \in Nat /\ k - 1 \in 0..n
        BY <1>1, <3>2
      <4>2. e[k] = G[<<k, e[k - 1]>>]
        BY <2>1, <3>2 DEF IsRun
      <4>3. e[k - 1] \in D
        BY <4>1
      <4> QED BY <1>3, <1>4, <3>2, <4>1, <4>2, <4>3
    <3> QED BY <3>1, <3>2
  <2>3. e = [k \in 0..n |-> e[k]]
    OBVIOUS
  <2>4. Is(e)
    BY <2>2, <2>3
  <2> QED BY <2>4
<1>6. Is(F)
  BY <1>5
<1>7. StopOthers(f, others, resume, protected) = F[n]
  BY DEF StopOthers
<1> HIDE DEF F
<1>8. F[0] = f /\ \A k \in 1..n : F[k] = StopOther(F[k - 1], others[k], resume, protected)
  BY <1>1, <1>6
<1>9. F[n] \in D
  <2>1. 0 \in 0..n /\ n \in 0..n /\ \A k \in 1..n : k \in 0..n /\ k - 1 \in 0..n
    BY <1>1
  <2>2. J[0] = D /\ J[n] = D /\ \A k \in 1..n : J[k] = D /\ J[k - 1] = D
    BY <2>1
  <2>3. \A k \in 1..n : F[k - 1] \in D => F[k] \in D
    BY <1>2, <1>8
  <2> HIDE DEF J, n
  <2>4. F[n] \in J[n]
    BY <1>1, <1>8, <2>2, <2>3, RunHolds
  <2> QED BY <2>2, <2>4
<1> QED BY <1>7, <1>9 DEF D

\* The three passes.
LEMMA RouteSound ==
  ASSUME NEW f, NEW P, NEW q, Sound(f, P, q), f.active, NEW resume, resume <=> f.mode, NEW jobWaiters
  PROVE  Sound(Route(f, resume, jobWaiters), P, q) /\ Locked(f, Route(f, resume, jobWaiters))
<1> DEFINE live == {s \in Session : Live(f, s) /\ InFlow(f, s)}
           InControl(c) == f.phase[c] = "turn" \/ IsCaller(f, c) \/ c \in jobWaiters
           protected == {s \in live : LiveOwner(f, s) /\ InControl(Owner[s])}
           conductors == {Owner[s] : s \in protected}
           g == StopConductors(f, SetToSeq(conductors), resume)
           others == {s \in live \ conductors : f.phase[s] = "turn"}
<1>1. Route(f, resume, jobWaiters) = StopOthers(g, SetToSeq(others), resume, protected)
  BY DEF Route
<1> HIDE DEF InControl
<1>2. ASSUME NEW x \in conductors PROVE x \in Session /\ Live(f, x)
  <2>1. PICK s \in protected : x = Owner[s]
    OBVIOUS
  <2> QED BY <2>1, OverageAssumption DEF LiveOwner, Parent
<1>3. \A x \in others : x \in Session /\ Live(f, x)
  OBVIOUS
<1> HIDE DEF conductors, others, protected
<1>4. conductors \in SUBSET Session /\ others \in SUBSET Session
  BY <1>2, <1>3
<1>5. SetToSeq(conductors) \in Seq(conductors) /\ SetToSeq(others) \in Seq(others)
  BY <1>4, SetToSeqNames
<1>6. Sound(g, P, q) /\ Locked(f, g)
  BY <1>2, <1>5, ConductorsSound
<1> HIDE DEF g
<1>7. g.active /\ (resume <=> g.mode) /\ \A x \in others : x \in Session /\ Live(g, x)
  BY <1>3, <1>6, LockedLive
<1>8. /\ Sound(StopOthers(g, SetToSeq(others), resume, protected), P, q)
      /\ Locked(g, StopOthers(g, SetToSeq(others), resume, protected))
  BY <1>5, <1>6, <1>7, OthersSound
<1> QED BY <1>1, <1>6, <1>8, LockedTrans

\* No wake is cut when there is no lockout: a new one starts with none.
LEMMA TripSound ==
  ASSUME NEW f, NEW P, NEW q, Sound(f, P, q), q => policy # "stop-resume", NEW ahead \in BOOLEAN, NEW jobWaiters
  PROVE  Sound(Trip(f, ahead, jobWaiters), P, q)
<1> DEFINE resume == policy = "stop-resume"
           g == [f EXCEPT !.active = TRUE, !.ahead = ahead, !.mode = resume]
           h == Route(g, resume, jobWaiters)
<1>1. f \in Fleet /\ \A c \in Session : CutOK(f, {}, c)
  BY DEF Sound, SoundBut
<1>2. Trip(f, ahead, jobWaiters) = IF policy = "none" \/ f.active THEN f ELSE [h EXCEPT !.clearing = TRUE]
  BY DEF Trip
<1>3. CASE policy = "none" \/ f.active
  BY <1>2, <1>3
<1>4. CASE ~(policy = "none" \/ f.active)
  <2>1. f.cut = {}
    <3>1. \A c \in f.cut : c \in Session
      BY <1>1 DEF Fleet
    <3> QED BY <1>1, <1>4, <3>1 DEF CutOK
  <2>2. resume \in BOOLEAN
    OBVIOUS
  <2>3. /\ g \in Fleet /\ g.cut = {} /\ AgreeOff(f, g, {}) /\ g.active /\ g.mode = resume
    <3> HIDE DEF resume
    <3> QED BY <1>1, <2>1, <2>2 DEF Fleet, AgreeOff
  <2> HIDE DEF g
  <2>4. q => ~g.mode
    BY <2>3
  <2>5. Sound(g, P, q)
    BY <2>3, <2>4, ChangeSound
  <2> HIDE DEF resume
  <2>6. Sound(h, P, q) /\ h \in Fleet
    BY <2>3, <2>5, RouteSound DEF Locked
  <2> HIDE DEF h
  <2>7. Alike(h, [h EXCEPT !.clearing = TRUE]) /\ [h EXCEPT !.clearing = TRUE].phase = h.phase
    BY <2>6 DEF Fleet, Alike
  <2> QED BY <1>2, <1>4, <2>6, <2>7, AlikeSound
<1> QED BY <1>3, <1>4

-----------------------------------------------------------------------------
(* A prompt *)

\* A queue of a session whose resume is on its way.
LEMMA QueuedSound ==
  ASSUME NEW f, NEW P, NEW q, Sound(f, P, q), NEW s \in Session, Live(f, s), ~q,
         s \in f.orphaned \/ (s \in f.marked /\ s \in f.timers \union P),
         NEW g, g = [f EXCEPT !.queued = @ \union {s}]
  PROVE  Sound(g, P, q) /\ g.phase = f.phase
<1>1. f \in Fleet
  BY DEF Sound, SoundBut
<1>2. /\ g \in Fleet /\ g.phase = f.phase /\ g.active = f.active /\ g.mode = f.mode /\ g.unarmed = f.unarmed
      /\ g.marked = f.marked /\ g.badge = f.badge /\ g.timers = f.timers /\ g.queued = f.queued \union {s}
      /\ g.orphaned = f.orphaned /\ g.cut = f.cut
  BY <1>1 DEF Fleet
<1>3. \A c \in Session : /\ Live(g, c) = Live(f, c) /\ InFlow(g, c) = InFlow(f, c) /\ LiveOwner(g, c) = LiveOwner(f, c)
                         /\ Registered(g, c) = Registered(f, c)
  BY <1>2, SamePhases
<1>4. \A c \in Session : CutOK(g, {}, c)
  BY <1>2, <1>3 DEF Sound, SoundBut, CutOK, Covered
<1>5. ASSUME NEW x \in Session PROVE MarksOK(g, P, q, x)
  <2>1. MarksOK(f, P, q, x)
    BY DEF Sound, SoundBut
  <2>2. CASE x = s
    BY <1>2, <1>3, <2>1, <2>2 DEF MarksOK
  <2>3. CASE x # s
    BY <1>2, <1>3, <2>1, <2>3 DEF MarksOK
  <2> QED BY <2>2, <2>3
<1> QED BY <1>2, <1>4, <1>5 DEF Sound, SoundBut

LEMMA QueueSound ==
  ASSUME NEW f, NEW P, NEW q, Sound(f, P, q), NEW s \in Session, Live(f, s),
         ~(s \in f.unarmed /\ GateActive(f, s)), GateActive(f, s) \/ s \in f.badge
  PROVE  Sound(Queue(f, s), P, q)
<1> DEFINE held == [f EXCEPT !.queued = @ \union {s}]
           armed == IF s \in f.badge THEN held ELSE ArmNow(held, s)
           a == IF s \in f.badge THEN f ELSE ArmNow(f, s)
<1>1. f \in Fleet /\ MarksOK(f, P, q, s) /\ (q => ~f.mode) /\ Registered(f, s) /\ f.phase[s] \in {"idle", "turn"}
  BY LiveRegistered DEF Sound, SoundBut
<1>2. ~q
  BY <1>1 DEF GateActive, MarksOK
<1>3. armed = [a EXCEPT !.queued = @ \union {s}]
  BY <1>1 DEF ArmNow, Arm, Fleet
<1>4. Queue(f, s) = IF f.phase[s] = "idle" THEN ArmAtIdle(armed, s) ELSE armed
  BY DEF Queue
<1>5. Sound(a, P, q) /\ Grown(f, a) /\ (s \in a.orphaned \/ (s \in a.marked /\ s \in a.timers \union P))
  <2>1. CASE s \in f.badge
    <3>1. a = f
      BY <2>1
    <3> HIDE DEF a
    <3> QED BY <1>1, <2>1, <3>1, GrownSelf DEF MarksOK
  <2>2. CASE s \notin f.badge
    <3>1. a = ArmNow(f, s)
      BY <2>2
    <3> HIDE DEF a
    <3>2. Sound(a, P, q) /\ Grown(f, a) /\ (s \notin f.timers \union f.unarmed => s \in a.marked /\ s \in a.timers)
      BY <1>2, <2>2, <3>1, ArmNowSound DEF Sound
    <3>3. s \notin f.unarmed
      BY <2>2
    <3>4. s \in f.timers => s \in f.orphaned \/ s \in f.marked
      BY <1>1 DEF MarksOK
    <3> QED BY <3>2, <3>3, <3>4 DEF Grown
  <2> QED BY <2>1, <2>2
<1> HIDE DEF a, armed
<1>6. Live(a, s)
  BY <1>5, SamePhases DEF Grown
<1>7. Sound(armed, P, q) /\ armed.phase = a.phase
  BY <1>2, <1>3, <1>5, <1>6, QueuedSound
<1>8. Live(armed, s)
  BY <1>6, <1>7, SamePhases
<1>9. Sound(ArmAtIdle(armed, s), P, q)
  BY <1>7, <1>8, ArmAtIdleSound DEF Sound
<1> QED BY <1>4, <1>7, <1>9

LEMMA TakeOverSound ==
  ASSUME NEW f, NEW P, NEW q, Sound(f, P, q), NEW s \in Session
  PROVE  Sound(TakeOver(f, s), P, q)
<1> DEFINE c == Driven(Cancel(f, s), s)
           r == IF s \in f.marked /\ f.active THEN ClearOverage(c) ELSE c
<1>1. TakeOver(f, s) = InternalPrompt(r, s)
  BY DEF TakeOver
<1>2. Sound(c, P, q)
  <2>1. Sound(c, P \ {s}, q)
    BY DrivenSound
  <2> HIDE DEF c
  <2> QED BY <2>1, MoreChecks
<1> HIDE DEF c
<1>3. Sound(r, P, q)
  BY <1>2, ClearSound
<1> HIDE DEF r
<1> QED BY <1>1, <1>3, InternalSound

-----------------------------------------------------------------------------
(* Processes, deadlines and the policy *)

\* A session without a process is nobody's live owner, and no cut wake is its own.
LEMMA CutElsewhere ==
  ASSUME NEW f, NEW P, NEW q, Sound(f, P, q), NEW s \in Session, ~Live(f, s)
  PROVE  \A c \in f.cut : c \notin {s} /\ (LiveOwner(f, c) => Owner[c] \notin {s})
<1> SUFFICES ASSUME NEW c \in f.cut PROVE c # s /\ (LiveOwner(f, c) => Owner[c] # s)
  OBVIOUS
<1>1. c \in Session
  BY DEF Sound, SoundBut, Fleet
<1>2. Live(f, c)
  BY <1>1 DEF Sound, SoundBut, CutOK
<1> QED BY <1>2 DEF LiveOwner, Parent

\* Only s changes, and it does not come back to the registry.
LEMMA OneSound ==
  ASSUME NEW f, NEW P, NEW q, Sound(f, P, q), NEW s \in Session, NEW g \in Fleet, AgreeOff(f, g, {s}),
         MarksOK(g, P, q, s), g.active = f.active, g.mode = f.mode, g.cut \subseteq f.cut,
         Registered(g, s) => Registered(f, s), f.unarmed \ {s} \subseteq g.unarmed,
         \A c \in g.cut : c \notin {s} /\ (LiveOwner(f, c) => Owner[c] \notin {s})
  PROVE  Sound(g, P, q)
<1>1. q => ~g.mode
  BY DEF Sound, SoundBut
<1>2. \A x \in Session \ {s} : x \in f.unarmed => x \in g.unarmed
  OBVIOUS
<1> QED BY <1>1, <1>2, ChangeSound

\* None of the wakes cut is s's to make good.
Undriven(f, g, s) ==
  /\ g \in Fleet /\ g.phase = f.phase /\ g.marked = f.marked /\ g.badge = f.badge /\ g.timers = f.timers
  /\ g.unarmed = f.unarmed /\ g.queued = f.queued /\ g.orphaned = f.orphaned
  /\ g.active = f.active /\ g.mode = f.mode /\ g.cut = {c \in f.cut : c # s /\ Owner[c] # s}

LEMMA UndrivenShape ==
  ASSUME NEW f \in Fleet, NEW s \in Session, NEW V \in SUBSET (Session \X Session)
  PROVE  Undriven(f, [Driven(f, s) EXCEPT !.waits = V], s)
<1> DEFINE C == {c \in f.cut : c # s /\ Owner[c] # s}
           d == Driven(f, s)
<1>1. d \in Fleet /\ d = [f EXCEPT !.cut = C]
  BY DrivenShape
<1> HIDE DEF C, d
<1>2. /\ d.phase = f.phase /\ d.marked = f.marked /\ d.badge = f.badge /\ d.timers = f.timers
      /\ d.unarmed = f.unarmed /\ d.queued = f.queued /\ d.orphaned = f.orphaned
      /\ d.active = f.active /\ d.mode = f.mode /\ d.cut = C
  BY <1>1 DEF Fleet
<1> DEFINE g == [d EXCEPT !.waits = V]
<1>3. /\ g.phase = d.phase /\ g.marked = d.marked /\ g.badge = d.badge /\ g.timers = d.timers
      /\ g.unarmed = d.unarmed /\ g.queued = d.queued /\ g.orphaned = d.orphaned
      /\ g.active = d.active /\ g.mode = d.mode /\ g.cut = d.cut
  BY <1>1 DEF Fleet
<1>4. g \in Fleet
  BY <1>1 DEF Fleet
<1> HIDE DEF g
<1>5. Undriven(f, g, s)
  BY <1>2, <1>3, <1>4 DEF Undriven, C
<1> QED BY <1>5 DEF g, d

\* The process of s ends; told is where its owner may have been told.
LEMMA EndSound ==
  ASSUME NEW f, NEW P, NEW q, Sound(f, P, q), NEW s \in Session, Live(f, s), NEW told, Undriven(f, told, s),
         NEW X \in SUBSET (Session \X Session)
  PROVE  /\ Sound([told EXCEPT !.phase[s] = "dead"], P, q)
         /\ Sound([Cancel(told, s) EXCEPT !.phase[s] = "gone", !.waits = X], P, q)
<1> DEFINE C == {c \in f.cut : c # s /\ Owner[c] # s}
           d == [told EXCEPT !.phase[s] = "dead"]
           h == Cancel(told, s)
           e == [h EXCEPT !.phase[s] = "gone", !.waits = X]
<1>1. f \in Fleet /\ MarksOK(f, P, q, s) /\ Registered(f, s)
  BY LiveRegistered DEF Sound, SoundBut
<1>2. C \subseteq f.cut
  OBVIOUS
<1>3. \A c \in C : c \notin {s} /\ (LiveOwner(f, c) => Owner[c] \notin {s})
  OBVIOUS
<1>4. told.phase = f.phase
  BY DEF Undriven
<1>5. /\ told \in Fleet /\ told.marked = f.marked /\ told.badge = f.badge /\ told.timers = f.timers
      /\ told.unarmed = f.unarmed /\ told.queued = f.queued /\ told.orphaned = f.orphaned
      /\ told.active = f.active /\ told.mode = f.mode /\ told.cut = C
  BY DEF Undriven
<1> HIDE DEF C
<1>6. Sound(d, P, q)
  <2>1. /\ d.phase = [f.phase EXCEPT ![s] = "dead"] /\ d.marked = f.marked /\ d.badge = f.badge
        /\ d.timers = f.timers /\ d.unarmed = f.unarmed /\ d.queued = f.queued /\ d.orphaned = f.orphaned
        /\ d.active = f.active /\ d.mode = f.mode /\ d.cut = C
    BY <1>4, <1>5 DEF Fleet
  <2>2. d \in Fleet
    BY <1>5 DEF Fleet, Phase
  <2> HIDE DEF d
  <2>3. d.phase[s] = "dead" /\ ~Live(d, s)
    BY <1>1, <2>1 DEF Fleet, Live
  <2>4. MarksOK(d, P, q, s)
    BY <1>1, <2>1, <2>3 DEF MarksOK
  <2>5. AgreeOff(f, d, {s})
    BY <1>1, <2>1 DEF AgreeOff, Fleet
  <2> QED BY <1>1, <1>2, <1>3, <2>1, <2>2, <2>4, <2>5, OneSound
<1>7. Sound(e, P, q)
  <2>1. Cancelled(told, h, {s}) /\ h.cut = C
    BY <1>5, CancelShape DEF Cancel
  <2> HIDE DEF h
  <2>2. /\ e.phase = [f.phase EXCEPT ![s] = "gone"] /\ e.marked = h.marked /\ e.badge = h.badge
        /\ e.timers = h.timers /\ e.unarmed = h.unarmed /\ e.queued = h.queued /\ e.orphaned = h.orphaned
        /\ e.active = f.active /\ e.mode = f.mode /\ e.cut = C
    BY <1>4, <1>5, <2>1 DEF Fleet, Cancelled
  <2>3. e \in Fleet
    BY <2>1 DEF Fleet, Phase, Cancelled
  <2> HIDE DEF e
  <2>4. e.phase[s] = "gone" /\ ~Live(e, s) /\ ~Registered(e, s)
    BY <1>1, <2>2 DEF Fleet, Live, Registered
  <2>5. Registered(told, s)
    BY <1>1, <1>4 DEF Registered
  <2>6. MarksOK(e, P, q, s)
    BY <2>1, <2>2, <2>4, <2>5 DEF MarksOK, Cancelled
  <2>7. AgreeOff(f, e, {s}) /\ f.unarmed \ {s} \subseteq e.unarmed
    BY <1>1, <1>5, <2>1, <2>2 DEF AgreeOff, Fleet, Cancelled
  <2> QED BY <1>1, <1>2, <1>3, <2>2, <2>3, <2>4, <2>6, <2>7, OneSound
<1> QED BY <1>6, <1>7

\* remove().
LEMMA RemoveSound ==
  ASSUME NEW f, NEW P, NEW q, Sound(f, P, q), NEW s \in Session, f.phase[s] = "dead",
         NEW X \in SUBSET (Session \X Session)
  PROVE  Sound(Cancel([f EXCEPT !.phase[s] = "gone", !.waits = X], s), P, q)
<1> DEFINE r == [f EXCEPT !.phase[s] = "gone", !.waits = X]
           g == Cancel(r, s)
<1>1. f \in Fleet /\ MarksOK(f, P, q, s) /\ ~Live(f, s) /\ Registered(f, s)
  BY DEF Sound, SoundBut, Live, Registered
<1>2. /\ r \in Fleet /\ r.phase = [f.phase EXCEPT ![s] = "gone"] /\ r.marked = f.marked /\ r.badge = f.badge
      /\ r.timers = f.timers /\ r.unarmed = f.unarmed /\ r.queued = f.queued /\ r.orphaned = f.orphaned
      /\ r.active = f.active /\ r.mode = f.mode /\ r.cut = f.cut
  BY <1>1 DEF Fleet, Phase
<1> HIDE DEF r
<1>3. Cancelled(r, g, {s}) /\ g.cut = f.cut
  BY <1>2, CancelShape DEF Cancel
<1> HIDE DEF g
<1>4. g.phase[s] = "gone" /\ ~Live(g, s) /\ ~Registered(g, s) /\ ~Registered(r, s)
  BY <1>1, <1>2, <1>3 DEF Fleet, Live, Registered, Cancelled
<1>5. MarksOK(g, P, q, s)
  BY <1>1, <1>2, <1>3, <1>4 DEF MarksOK, Cancelled
<1>6. AgreeOff(f, g, {s}) /\ f.unarmed \ {s} \subseteq g.unarmed
  BY <1>1, <1>2, <1>3 DEF AgreeOff, Fleet, Cancelled
<1>7. g \in Fleet /\ g.active = f.active /\ g.mode = f.mode
  BY <1>2, <1>3 DEF Cancelled
<1>8. \A c \in g.cut : c \notin {s} /\ (LiveOwner(f, c) => Owner[c] \notin {s})
  BY <1>1, <1>3, CutElsewhere
<1>9. Sound(g, P, q)
  BY <1>1, <1>3, <1>4, <1>5, <1>6, <1>7, <1>8, OneSound
<1> QED BY <1>9 DEF g, r

LEMMA RespawnSound ==
  ASSUME NEW f, NEW P, NEW q, Sound(f, P, q), NEW s \in Session, f.phase[s] = "dead"
  PROVE  Sound([Cancel(f, s) EXCEPT !.phase[s] = "gap"], P, q)
<1> DEFINE h == Cancel(f, s)
           g == [h EXCEPT !.phase[s] = "gap"]
<1>1. f \in Fleet /\ MarksOK(f, P, q, s) /\ ~Live(f, s) /\ Registered(f, s)
  BY DEF Sound, SoundBut, Live, Registered
<1>2. Cancelled(f, h, {s}) /\ h.cut = f.cut
  BY <1>1, CancelShape DEF Cancel
<1> HIDE DEF h
<1>3. /\ g \in Fleet /\ g.phase = [f.phase EXCEPT ![s] = "gap"] /\ g.marked = h.marked /\ g.badge = h.badge
      /\ g.timers = h.timers /\ g.unarmed = h.unarmed /\ g.queued = h.queued /\ g.orphaned = h.orphaned
      /\ g.active = f.active /\ g.mode = f.mode /\ g.cut = f.cut
  BY <1>2 DEF Fleet, Phase, Cancelled
<1> HIDE DEF g
<1>4. ~Live(g, s)
  BY <1>1, <1>3 DEF Fleet, Live
<1>5. MarksOK(g, P, q, s)
  BY <1>1, <1>2, <1>3, <1>4 DEF MarksOK, Cancelled
<1>6. AgreeOff(f, g, {s}) /\ f.unarmed \ {s} \subseteq g.unarmed
  BY <1>1, <1>2, <1>3 DEF AgreeOff, Fleet, Cancelled
<1>7. \A c \in g.cut : c \notin {s} /\ (LiveOwner(f, c) => Owner[c] \notin {s})
  BY <1>1, <1>3, CutElsewhere
<1>8. Sound(g, P, q)
  BY <1>1, <1>3, <1>5, <1>6, <1>7, OneSound
<1> QED BY <1>8 DEF g, h

\* A relaunch kills the process; a deadline it had is an orphan's.
LEMMA RelaunchSound ==
  ASSUME NEW f, NEW P, NEW q, Sound(f, P, q), NEW s \in Session, Live(f, s),
         NEW X, X = IF s \in f.timers THEN f.orphaned \union {s} ELSE f.orphaned
  PROVE  Sound([Driven(f, s) EXCEPT !.phase[s] = "gap", !.orphaned = X], P, q)
<1> DEFINE C == {c \in f.cut : c # s /\ Owner[c] # s}
           d == Driven(f, s)
           g == [d EXCEPT !.phase[s] = "gap", !.orphaned = X]
<1>1. f \in Fleet /\ MarksOK(f, P, q, s) /\ Registered(f, s)
  BY LiveRegistered DEF Sound, SoundBut
<1>2. d = [f EXCEPT !.cut = C] /\ C \subseteq f.cut
  BY <1>1, DrivenShape
<1>3. \A c \in C : c \notin {s} /\ (LiveOwner(f, c) => Owner[c] \notin {s})
  OBVIOUS
<1> HIDE DEF C
<1>4. X \in SUBSET Session /\ (s \in f.timers => s \in X) /\ (\A x \in Session \ {s} : x \in X <=> x \in f.orphaned)
  BY <1>1 DEF Fleet
<1>5. /\ d \in Fleet /\ d.phase = f.phase /\ d.marked = f.marked /\ d.badge = f.badge
      /\ d.timers = f.timers /\ d.unarmed = f.unarmed /\ d.queued = f.queued
      /\ d.active = f.active /\ d.mode = f.mode /\ d.cut = C
  BY <1>1, <1>2 DEF Fleet
<1> HIDE DEF d
<1>6. /\ g \in Fleet /\ g.phase = [f.phase EXCEPT ![s] = "gap"] /\ g.marked = f.marked /\ g.badge = f.badge
      /\ g.timers = f.timers /\ g.unarmed = f.unarmed /\ g.queued = f.queued /\ g.orphaned = X
      /\ g.active = f.active /\ g.mode = f.mode /\ g.cut = C
  BY <1>1, <1>4, <1>5 DEF Fleet, Phase
<1> HIDE DEF g
<1>7. ~Live(g, s)
  BY <1>1, <1>6 DEF Fleet, Live
<1>8. MarksOK(g, P, q, s)
  BY <1>1, <1>4, <1>6, <1>7 DEF MarksOK
<1>9. AgreeOff(f, g, {s})
  BY <1>1, <1>4, <1>6 DEF AgreeOff, Fleet
<1>10. Sound(g, P, q)
  BY <1>1, <1>2, <1>3, <1>6, <1>8, <1>9, OneSound
<1> QED BY <1>10 DEF g, d

\* The next process starts, or does not.
LEMMA LaunchSound ==
  ASSUME NEW f, NEW P, NEW q, Sound(f, P, q), NEW s \in Session, f.phase[s] = "gap"
  PROVE  /\ Sound([f EXCEPT !.phase[s] = "idle", !.marked = @ \ {s}, !.badge = @ \ {s}, !.firing = @ \ {s},
                            !.unarmed = @ \ {s}, !.queued = @ \ {s}], P, q)
         /\ Sound([f EXCEPT !.phase[s] = "dead"], P, q)
<1> DEFINE g == [f EXCEPT !.phase[s] = "idle", !.marked = @ \ {s}, !.badge = @ \ {s}, !.firing = @ \ {s},
                          !.unarmed = @ \ {s}, !.queued = @ \ {s}]
           d == [f EXCEPT !.phase[s] = "dead"]
<1>1. f \in Fleet /\ MarksOK(f, P, q, s) /\ ~Live(f, s) /\ Registered(f, s)
  BY DEF Sound, SoundBut, Live, Registered
<1>2. \A c \in f.cut : c \notin {s} /\ (LiveOwner(f, c) => Owner[c] \notin {s})
  BY <1>1, CutElsewhere
<1>3. Sound(g, P, q)
  <2>1. /\ g \in Fleet /\ g.phase = [f.phase EXCEPT ![s] = "idle"] /\ g.marked = f.marked \ {s}
        /\ g.badge = f.badge \ {s} /\ g.timers = f.timers /\ g.unarmed = f.unarmed \ {s}
        /\ g.queued = f.queued \ {s} /\ g.orphaned = f.orphaned
        /\ g.active = f.active /\ g.mode = f.mode /\ g.cut = f.cut
    BY <1>1 DEF Fleet, Phase
  <2> HIDE DEF g
  <2>2. MarksOK(g, P, q, s)
    BY <1>1, <2>1 DEF MarksOK
  <2>3. AgreeOff(f, g, {s})
    BY <1>1, <2>1 DEF AgreeOff, Fleet
  <2> QED BY <1>1, <1>2, <2>1, <2>2, <2>3, OneSound
<1>4. Sound(d, P, q)
  <2>1. /\ d \in Fleet /\ d.phase = [f.phase EXCEPT ![s] = "dead"] /\ d.marked = f.marked /\ d.badge = f.badge
        /\ d.timers = f.timers /\ d.unarmed = f.unarmed /\ d.queued = f.queued /\ d.orphaned = f.orphaned
        /\ d.active = f.active /\ d.mode = f.mode /\ d.cut = f.cut
    BY <1>1 DEF Fleet, Phase
  <2> HIDE DEF d
  <2>2. d.phase[s] = "dead" /\ ~Live(d, s)
    BY <1>1, <2>1 DEF Fleet, Live
  <2>3. MarksOK(d, P, q, s)
    BY <1>1, <2>1, <2>2 DEF MarksOK
  <2>4. AgreeOff(f, d, {s})
    BY <1>1, <2>1 DEF AgreeOff, Fleet
  <2> QED BY <1>1, <1>2, <2>1, <2>3, <2>4, OneSound
<1> QED BY <1>3, <1>4

\* Deadlines come due: their sessions are being checked instead.
LEMMA DueSound ==
  ASSUME NEW f, NEW P, NEW q, Sound(f, P, q), NEW T, T \subseteq f.timers, NEW Q,
         \A x \in Session : Registered(f, x) /\ x \in f.timers \union P => x \in T \union Q
  PROVE  Sound([f EXCEPT !.timers = T], Q, q)
<1> DEFINE g == [f EXCEPT !.timers = T]
<1>1. f \in Fleet
  BY DEF Sound, SoundBut
<1>2. /\ g \in Fleet /\ g.phase = f.phase /\ g.active = f.active /\ g.mode = f.mode /\ g.unarmed = f.unarmed
      /\ g.marked = f.marked /\ g.badge = f.badge /\ g.timers = T /\ g.queued = f.queued
      /\ g.orphaned = f.orphaned /\ g.cut = f.cut
  BY <1>1 DEF Fleet
<1> HIDE DEF g
<1>3. \A c \in Session : /\ Live(g, c) = Live(f, c) /\ InFlow(g, c) = InFlow(f, c) /\ LiveOwner(g, c) = LiveOwner(f, c)
                         /\ Registered(g, c) = Registered(f, c)
  BY <1>2, SamePhases
<1>4. \A c \in Session : CutOK(g, {}, c)
  BY <1>2, <1>3 DEF Sound, SoundBut, CutOK, Covered
<1>5. ASSUME NEW x \in Session PROVE MarksOK(g, Q, q, x)
  <2>1. MarksOK(f, P, q, x)
    BY DEF Sound, SoundBut
  <2>2. Live(f, x) /\ x \in f.timers \union P => x \in g.timers \union Q
    BY <1>2, LiveRegistered
  <2> QED BY <1>2, <1>3, <2>1, <2>2 DEF MarksOK
<1>6. Sound(g, Q, q)
  BY <1>2, <1>4, <1>5 DEF Sound, SoundBut
<1> QED BY <1>6 DEF g

\* syncOveragePolicy
LEMMA SyncSound ==
  ASSUME NEW f, NEW P, NEW q, Sound(f, P, q), NEW r, r <=> policy # "stop-resume"
  PROVE  Sound(SyncedFleet(f), P, r)
<1> DEFINE S == {s \in f.badge \union f.marked \union f.queued \union f.unarmed \union f.timers : Registered(f, s)}
           z == [f EXCEPT !.mode = FALSE, !.cut = {}]
           g == CancelAll(z, S)
<1>1. f \in Fleet /\ \A x \in Session : MarksOK(f, P, q, x)
  BY DEF Sound, SoundBut
<1>2. CASE policy = "stop-resume"
  <2>1. SyncedFleet(f) = f /\ ~r
    BY <1>2 DEF SyncedFleet
  <2> QED BY <2>1 DEF Sound, SoundBut, MarksOK
<1>3. CASE policy # "stop-resume"
  <2>1. SyncedFleet(f) = g
    BY <1>3 DEF SyncedFleet
  <2>2. /\ z \in Fleet /\ z.phase = f.phase /\ z.marked = f.marked /\ z.badge = f.badge
        /\ z.timers = f.timers /\ z.queued = f.queued /\ z.mode = FALSE /\ z.cut = {}
    BY <1>1 DEF Fleet
  <2>3. S \in SUBSET Session
    BY <1>1 DEF Fleet
  <2>4. \A x : Registered(f, x) /\ x \notin S => x \notin f.marked \union f.badge \union f.queued \union f.timers
    OBVIOUS
  <2> HIDE DEF z, S
  <2>5. Cancelled(z, g, S) /\ g.cut = {}
    BY <2>2, <2>3, CancelShape
  <2> HIDE DEF g
  <2>6. ASSUME NEW x \in Session PROVE MarksOK(g, P, r, x)
    <3>1. Registered(g, x) = Registered(f, x) /\ Registered(z, x) = Registered(f, x)
      BY <2>2, <2>5 DEF Registered, Cancelled
    <3>2. CASE Registered(f, x)
      <4>1. x \notin g.marked \union g.badge \union g.queued \union g.timers
        BY <2>2, <2>4, <2>5, <3>1, <3>2 DEF Cancelled
      <4> QED BY <4>1 DEF MarksOK
    <3>3. CASE ~Registered(f, x)
      <4>1. ~Live(g, x) /\ g.phase[x] = "gone"
        BY <3>1, <3>3, LiveRegistered DEF Registered
      <4>2. x \in g.badge => x \in g.marked
        BY <1>1, <2>2, <2>5, <3>1, <3>3 DEF MarksOK, Cancelled
      <4> QED BY <3>1, <3>3, <4>1, <4>2 DEF MarksOK
    <3> QED BY <3>2, <3>3
  <2>7. g \in Fleet /\ g.mode = FALSE
    BY <2>2, <2>5 DEF Cancelled
  <2>8. \A c \in Session : CutOK(g, {}, c)
    BY <2>5 DEF CutOK
  <2> QED BY <2>1, <2>6, <2>7, <2>8 DEF Sound, SoundBut
<1> QED BY <1>2, <1>3

\* Where marks are allowed, less is asked.
LEMMA LoudSound ==
  ASSUME NEW f, NEW P, NEW q, Sound(f, P, q)
  PROVE  Sound(f, P, FALSE)
BY DEF Sound, SoundBut, MarksOK

-----------------------------------------------------------------------------
(* The steps *)

Parked == forced \union sweep

\* What TypeOK says besides the fleet's type.
OtherTypes ==
  /\ sweep \subseteq Session /\ forced \subseteq Session /\ waking \subseteq Session
  /\ policy \in Policy /\ apply \in {"none", "sync", "reevaluate"}
  /\ upsets \in 0..MaxUpsets

LEMMA InvariantParts == IInv <=> OtherTypes /\ Sound(fleet, Parked, Quiet)
BY DEF IInv, OtherTypes, TypeOK, Parked, Sound, SoundBut

LEMMA InitSound == Init => IInv
<1> SUFFICES ASSUME Init PROVE OtherTypes /\ Sound(fleet, Parked, Quiet)
  BY InvariantParts
<1>1. /\ fleet.phase = [s \in Session |-> "idle"] /\ fleet.marked = {} /\ fleet.badge = {} /\ fleet.unarmed = {}
      /\ fleet.queued = {} /\ fleet.timers = {} /\ fleet.active = FALSE /\ fleet.mode = FALSE /\ fleet.cut = {}
      /\ fleet.orphaned = {}
  BY DEF Init
<1>2. fleet \in Fleet
  BY OverageAssumption DEF Init, Fleet, Phase
<1>3. OtherTypes
  BY OverageAssumption DEF Init, OtherTypes
<1>4. Sound(fleet, Parked, Quiet)
  BY <1>1, <1>2 DEF Sound, SoundBut, MarksOK, CutOK
<1> QED BY <1>3, <1>4

\* A turn ends.
LEMMA TurnEndSound ==
  ASSUME NEW f, NEW P, NEW q, Sound(f, P, q), NEW s \in Session, Live(f, s), NEW V \in SUBSET (Session \X Session)
  PROVE  Sound(ArmAtIdle([f EXCEPT !.phase[s] = "idle", !.waits = V], s), P, q)
<1> DEFINE g == [f EXCEPT !.phase[s] = "idle", !.waits = V]
<1>1. f \in Fleet
  BY DEF Sound, SoundBut
<1>2. Alike(f, g) /\ g.phase = [f.phase EXCEPT ![s] = "idle"]
  <2>1. g \in Fleet
    BY <1>1 DEF Fleet, Phase
  <2>2. /\ g.phase = [f.phase EXCEPT ![s] = "idle"] /\ g.marked = f.marked /\ g.badge = f.badge /\ g.timers = f.timers
        /\ g.unarmed = f.unarmed /\ g.queued = f.queued /\ g.orphaned = f.orphaned
        /\ g.active = f.active /\ g.mode = f.mode /\ g.cut = f.cut
    BY <1>1 DEF Fleet
  <2> HIDE DEF g
  <2> QED BY <2>1, <2>2 DEF Alike
<1> HIDE DEF g
<1>3. Sound(g, P, q) /\ Live(g, s)
  <2>1. Sound(g, P, q)
    BY <1>2, LiveMove
  <2>2. f.phase \in [Session -> Phase]
    BY <1>1 DEF Fleet
  <2>3. Live(g, s)
    BY <1>2, <2>2 DEF Live
  <2> QED BY <2>1, <2>3
<1>4. Sound(ArmAtIdle(g, s), P, q)
  BY <1>3, ArmAtIdleSound DEF Sound
<1> QED BY <1>4 DEF g

\* The resume prompt goes out after its attachments.
LEMMA SentSound ==
  ASSUME NEW f, NEW P, NEW q, Sound(f, P, q), NEW s \in Session
  PROVE  LET sent == [f EXCEPT !.sending = @ \ {s}]
         IN  Sound([IF Live(sent, s) THEN InternalPrompt(sent, s) ELSE sent EXCEPT !.firing = @ \ {s}], P, q)
<1> DEFINE sent == [f EXCEPT !.sending = @ \ {s}]
           g == IF Live(sent, s) THEN InternalPrompt(sent, s) ELSE sent
           h == [g EXCEPT !.firing = @ \ {s}]
<1>1. f \in Fleet
  BY DEF Sound, SoundBut
<1>2. Alike(f, sent) /\ sent.phase = f.phase
  BY <1>1 DEF Fleet, Alike
<1>3. Sound(sent, P, q)
  BY <1>2, AlikeSound
<1> HIDE DEF sent
<1>4. Sound(g, P, q) /\ g \in Fleet
  BY <1>3, InternalSound DEF Sound, SoundBut
<1> HIDE DEF g
<1>5. Alike(g, h) /\ h.phase = g.phase
  BY <1>4 DEF Fleet, Alike
<1>6. Sound(h, P, q)
  BY <1>4, <1>5, AlikeSound
<1> QED BY <1>6 DEF h, g, sent

\* Each action.
LEMMA StepSound ==
  ASSUME OtherTypes, Sound(fleet, Parked, Quiet), [Next]_vars
  PROVE  OtherTypes' /\ Sound(fleet', Parked', Quiet')
<1> DEFINE Rest == policy' = policy /\ apply' = apply
<1>1. Rest => Quiet' = Quiet
  BY DEF Quiet
<1>2. fleet \in Fleet /\ (Quiet => policy # "stop-resume")
  BY DEF Sound, SoundBut, Quiet
<1>3. \A s \in Session : fleet.phase[s] \in {"idle", "turn"} => Live(fleet, s)
  BY DEF Live
<1>4. fleet.waits \in SUBSET (Session \X Session)
  BY <1>2 DEF Fleet
<1>5. CASE UNCHANGED vars
  BY <1>5 DEF vars, OtherTypes, Parked, Quiet
<1>6. ASSUME NEW s \in Session, Prompt(s) PROVE OtherTypes' /\ Sound(fleet', Parked', Quiet')
  <2>1. Live(fleet, s) /\ ~(s \in fleet.unarmed /\ GateActive(fleet, s))
    BY <1>6 DEF Prompt
  <2>2. OtherTypes' /\ Parked' = Parked /\ Quiet' = Quiet
    BY <1>1, <1>6 DEF Prompt, OtherTypes, Parked
  <2>3. CASE GateActive(fleet, s) \/ (s \in fleet.marked /\ s \in fleet.badge)
    <3>1. fleet' = Queue(fleet, s)
      BY <1>6, <2>3 DEF Prompt
    <3>2. GateActive(fleet, s) \/ s \in fleet.badge
      BY <2>3
    <3>3. Sound(Queue(fleet, s), Parked, Quiet)
      BY <2>1, <3>2, QueueSound
    <3> QED BY <2>2, <3>1, <3>3
  <2>4. CASE ~(GateActive(fleet, s) \/ (s \in fleet.marked /\ s \in fleet.badge))
    <3>1. fleet' = TakeOver(fleet, s)
      BY <1>6, <2>4 DEF Prompt
    <3> QED BY <2>2, <3>1, TakeOverSound
  <2> QED BY <2>3, <2>4
<1>7. ASSUME NEW s \in Session, Reinvoke(s) PROVE OtherTypes' /\ Sound(fleet', Parked', Quiet')
  <2>1. OtherTypes' /\ Parked' = Parked /\ Quiet' = Quiet /\ fleet' = TurnStarts(fleet, s) /\ Live(fleet, s)
    BY <1>1, <1>3, <1>7 DEF Reinvoke, OtherTypes, Parked
  <2> QED BY <2>1, TurnSound
<1>8. ASSUME NEW s \in Session, TurnEnds(s) PROVE OtherTypes' /\ Sound(fleet', Parked', Quiet')
  <2> DEFINE waiters == {c \in Session : <<c, s>> \in fleet.waits}
             holds == s \in waking \/ \E t \in Session : <<s, t>> \in fleet.waits /\ Live(fleet, t)
             woken == IF holds THEN {} ELSE waiters
             V == fleet.waits \ {<<c, s>> : c \in woken}
  <2>1. OtherTypes' /\ Parked' = Parked /\ Quiet' = Quiet /\ Live(fleet, s)
    <3>1. waking' \subseteq Session
      BY <1>8 DEF TurnEnds, OtherTypes
    <3> QED BY <1>1, <1>3, <1>8, <3>1 DEF TurnEnds, OtherTypes, Parked
  <2>2. fleet' = ArmAtIdle([fleet EXCEPT !.phase[s] = "idle", !.waits = V], s)
    BY <1>2, <1>8 DEF TurnEnds, Fleet
  <2> HIDE DEF woken
  <2>3. V \in SUBSET (Session \X Session)
    BY <1>4
  <2> HIDE DEF V
  <2> QED BY <2>1, <2>2, <2>3, TurnEndSound
<1>9. ASSUME NEW s \in Session, SendWake(s) PROVE OtherTypes' /\ Sound(fleet', Parked', Quiet')
  <2>1. OtherTypes' /\ Parked' = Parked /\ Quiet' = Quiet /\ fleet' \in {InternalPrompt(fleet, s), fleet}
    BY <1>1, <1>9 DEF SendWake, OtherTypes, Parked
  <2> QED BY <2>1, InternalSound
<1>10. ASSUME NEW s \in Session, SendResume(s) PROVE OtherTypes' /\ Sound(fleet', Parked', Quiet')
  <2> DEFINE sent == [fleet EXCEPT !.sending = @ \ {s}]
  <2>1. OtherTypes' /\ Parked' = Parked /\ Quiet' = Quiet
    BY <1>1, <1>10 DEF SendResume, OtherTypes, Parked
  <2>2. fleet' = [IF Live(sent, s) THEN InternalPrompt(sent, s) ELSE sent EXCEPT !.firing = @ \ {s}]
    BY <1>10 DEF SendResume
  <2>3. Sound([IF Live(sent, s) THEN InternalPrompt(sent, s) ELSE sent EXCEPT !.firing = @ \ {s}], Parked, Quiet)
    BY SentSound
  <2> HIDE DEF sent
  <2> QED BY <2>1, <2>2, <2>3
<1>11. ASSUME NEW ahead \in BOOLEAN, NEW jobWaiters, fleet' = Trip(fleet, ahead, jobWaiters),
              UNCHANGED <<sweep, forced, waking, policy, apply, upsets>>
       PROVE  OtherTypes' /\ Sound(fleet', Parked', Quiet')
  <2>1. OtherTypes' /\ Parked' = Parked /\ Quiet' = Quiet
    BY <1>1, <1>11 DEF OtherTypes, Parked
  <2> QED BY <1>2, <1>11, <2>1, TripSound
<1>12. ASSUME NEW s \in Session, NEW usage, ForcedAnswers(s, usage) PROVE OtherTypes' /\ Sound(fleet', Parked', Quiet')
  <2>1. OtherTypes' /\ Parked \ {s} \subseteq Parked' /\ Quiet' = Quiet
    BY <1>1, <1>12 DEF ForcedAnswers, OtherTypes, Parked
  <2>2. PICK saving \in BOOLEAN : fleet' = Resolve(fleet, s, usage, saving)
    BY <1>12 DEF ForcedAnswers
  <2>3. Sound(fleet', Parked \ {s}, Quiet)
    BY <2>2, ResolveSound
  <2>4. Sound(fleet', Parked', Quiet)
    BY <2>1, <2>3, MoreChecks
  <2> QED BY <2>1, <2>4
<1>13. ASSUME NEW usage, SweepAnswers(usage) PROVE OtherTypes' /\ Sound(fleet', Parked', Quiet')
  <2>1. OtherTypes' /\ Parked' = forced /\ Quiet' = Quiet /\ sweep \in SUBSET Session
    BY <1>1, <1>13 DEF SweepAnswers, OtherTypes, Parked
  <2>2. PICK saving \in BOOLEAN, order \in SetToSeqs(sweep) : fleet' = ResolveAll(fleet, order, usage, saving)
    BY <1>13 DEF SweepAnswers
  <2>3. order \in Seq(Session) /\ \A c \in sweep : \E k \in 1..Len(order) : order[k] = c
    BY <2>1, OrderNames
  <2>4. Sound(fleet', {c \in Parked : \A k \in 1..Len(order) : order[k] # c}, Quiet)
    BY <2>2, <2>3, ResolveAllSound
  <2>5. {c \in Parked : \A k \in 1..Len(order) : order[k] # c} \subseteq forced
    BY <2>3 DEF Parked
  <2>6. Sound(fleet', forced, Quiet)
    BY <2>4, <2>5, MoreChecks
  <2> QED BY <2>1, <2>6
<1>14. ASSUME NEW s \in Session, Exit(s) PROVE OtherTypes' /\ Sound(fleet', Parked', Quiet')
  <2> DEFINE waiters == {c \in Session : <<c, s>> \in fleet.waits}
             d == Driven(fleet, s)
             V == d.waits \ {<<c, s>> : c \in waiters}
             told == [d EXCEPT !.waits = V]
             Ended(f) == IF s \in Temp
                         THEN [Cancel(f, s) EXCEPT !.phase[s] = "gone", !.waits = {e \in @ : s \notin {e[1], e[2]}}]
                         ELSE [f EXCEPT !.phase[s] = "dead"]
  <2>1. OtherTypes' /\ Parked' = Parked /\ Quiet' = Quiet /\ Live(fleet, s)
    <3>1. waking' = waking \union {c \in waiters : Live(fleet, c)} \/ waking' = waking
      BY <1>14 DEF Exit
    <3>2. waking' \subseteq Session
      BY <3>1 DEF OtherTypes
    <3>3. upsets' \in 0..MaxUpsets
      BY <1>14, OverageAssumption DEF Exit, OtherTypes
    <3>4. UNCHANGED <<sweep, forced, policy, apply>> /\ Live(fleet, s)
      BY <1>14 DEF Exit
    <3> QED BY <1>1, <3>2, <3>3, <3>4 DEF OtherTypes, Parked
  <2>2. fleet' = Ended(told) \/ fleet' = Ended(d)
    BY <1>14 DEF Exit
  <2>3. d \in Fleet /\ d.waits \in SUBSET (Session \X Session)
    <3>1. d \in Fleet
      BY <1>2, DrivenShape
    <3> HIDE DEF d
    <3> QED BY <3>1 DEF Fleet
  <2>4. V \in SUBSET (Session \X Session) /\ d = [d EXCEPT !.waits = d.waits]
    <3> HIDE DEF d
    <3> QED BY <2>3 DEF Fleet
  <2>5. ASSUME NEW W \in SUBSET (Session \X Session), NEW f, f = [d EXCEPT !.waits = W]
        PROVE  Sound(Ended(f), Parked, Quiet)
    <3> DEFINE h == Cancel(f, s)
               X == {e \in h.waits : s \notin {e[1], e[2]}}
    <3>1. f \in Fleet
      <4> HIDE DEF d
      <4> QED BY <2>3, <2>5 DEF Fleet
    <3>2. Undriven(fleet, f, s)
      BY <1>2, <2>5, UndrivenShape
    <3>3. h \in Fleet
      BY <3>1, CancelShape DEF Cancelled, Cancel
    <3> HIDE DEF h
    <3>4. X \in SUBSET (Session \X Session)
      BY <3>3 DEF Fleet
    <3>5. [h EXCEPT !.phase[s] = "gone", !.waits = {e \in @ : s \notin {e[1], e[2]}}]
            = [h EXCEPT !.phase[s] = "gone", !.waits = X]
      BY <3>3 DEF Fleet
    <3> HIDE DEF X
    <3>6. /\ Sound([f EXCEPT !.phase[s] = "dead"], Parked, Quiet)
          /\ Sound([h EXCEPT !.phase[s] = "gone", !.waits = X], Parked, Quiet)
      BY <2>1, <3>4, <3>2, EndSound DEF h
    <3>7. CASE s \in Temp
      <4>1. Ended(f) = [h EXCEPT !.phase[s] = "gone", !.waits = X]
        BY <3>5, <3>7 DEF h
      <4> QED BY <3>6, <4>1
    <3>8. CASE s \notin Temp
      BY <3>6, <3>8
    <3> QED BY <3>7, <3>8
  <2> HIDE DEF Ended, d, V
  <2>6. Sound(Ended(told), Parked, Quiet) /\ Sound(Ended(d), Parked, Quiet)
    BY <2>3, <2>4, <2>5
  <2> QED BY <2>1, <2>2, <2>6
<1>15. ASSUME NEW s \in Session, RemoveSession(s) PROVE OtherTypes' /\ Sound(fleet', Parked', Quiet')
  <2> DEFINE X == {e \in fleet.waits : s \notin {e[1], e[2]}}
  <2>1. OtherTypes' /\ Parked' = Parked /\ Quiet' = Quiet /\ fleet.phase[s] = "dead"
    BY <1>1, <1>15 DEF RemoveSession, OtherTypes, Parked
  <2>2. fleet' = Cancel([fleet EXCEPT !.phase[s] = "gone", !.waits = X], s)
    BY <1>2, <1>15 DEF RemoveSession, Fleet
  <2>3. X \in SUBSET (Session \X Session)
    BY <1>4
  <2> HIDE DEF X
  <2> QED BY <2>1, <2>2, <2>3, RemoveSound
<1>16. ASSUME NEW s \in Session, Respawn(s) PROVE OtherTypes' /\ Sound(fleet', Parked', Quiet')
  <2>1. /\ OtherTypes' /\ Parked' = Parked /\ Quiet' = Quiet /\ fleet.phase[s] = "dead"
        /\ fleet' = [Cancel(fleet, s) EXCEPT !.phase[s] = "gap"]
    BY <1>1, <1>16 DEF Respawn, OtherTypes, Parked
  <2> QED BY <2>1, RespawnSound
<1>17. ASSUME NEW s \in Session, RelaunchKills(s) PROVE OtherTypes' /\ Sound(fleet', Parked', Quiet')
  <2> DEFINE X == IF s \in fleet.timers THEN fleet.orphaned \union {s} ELSE fleet.orphaned
             d == Driven(fleet, s)
  <2>1. OtherTypes' /\ Parked' = Parked /\ Quiet' = Quiet /\ Live(fleet, s)
    BY <1>1, <1>3, <1>17 DEF RelaunchKills, OtherTypes, Parked
  <2>2. d \in Fleet /\ d.orphaned = fleet.orphaned
    <3>1. d \in Fleet /\ d = [fleet EXCEPT !.cut = d.cut]
      BY <1>2, DrivenShape
    <3> HIDE DEF d
    <3> QED BY <1>2, <3>1 DEF Fleet
  <2>3. fleet' = [d EXCEPT !.phase[s] = "gap",
                           !.orphaned = IF s \in fleet.timers THEN @ \union {s} ELSE @]
    BY <1>17 DEF RelaunchKills
  <2> HIDE DEF d
  <2>4. fleet' = [d EXCEPT !.phase[s] = "gap", !.orphaned = X]
    BY <2>2, <2>3 DEF Fleet
  <2>5. Sound([Driven(fleet, s) EXCEPT !.phase[s] = "gap", !.orphaned = X], Parked, Quiet)
    BY <2>1, RelaunchSound
  <2> QED BY <2>1, <2>4, <2>5 DEF d
<1>18. ASSUME NEW s \in Session, Launched(s) PROVE OtherTypes' /\ Sound(fleet', Parked', Quiet')
  <2>1. OtherTypes' /\ Parked' = Parked /\ Quiet' = Quiet /\ fleet.phase[s] = "gap"
    BY <1>1, <1>18 DEF Launched, OtherTypes, Parked
  <2> DEFINE g == [fleet EXCEPT !.phase[s] = "idle", !.marked = @ \ {s}, !.badge = @ \ {s}, !.firing = @ \ {s},
                                !.unarmed = @ \ {s}, !.queued = @ \ {s}]
             d == [fleet EXCEPT !.phase[s] = "dead"]
  <2>2. fleet' = g \/ fleet' = d
    BY <1>18 DEF Launched
  <2>3. Sound(g, Parked, Quiet) /\ Sound(d, Parked, Quiet)
    BY <2>1, LaunchSound
  <2> HIDE DEF g, d
  <2> QED BY <2>1, <2>2, <2>3
<1>19. CASE ResetPasses
  <2>1. OtherTypes' /\ Parked' = Parked /\ Quiet' = Quiet
    BY <1>1, <1>19 DEF ResetPasses, OtherTypes, Parked
  <2>2. Alike(fleet, fleet') /\ fleet'.phase = fleet.phase
    BY <1>2, <1>19 DEF ResetPasses, Fleet, Alike
  <2> QED BY <2>1, <2>2, AlikeSound
<1>20. CASE ClearTimerFires
  <2> DEFINE g == [fleet EXCEPT !.clearing = FALSE]
  <2>1. OtherTypes' /\ Parked' = Parked /\ Quiet' = Quiet /\ fleet' = MaybeRelease(g)
    BY <1>1, <1>20 DEF ClearTimerFires, OtherTypes, Parked
  <2>2. Alike(fleet, g) /\ g.phase = fleet.phase
    BY <1>2 DEF Fleet, Alike
  <2> HIDE DEF g
  <2> QED BY <2>1, <2>2, AlikeSound, MaybeReleaseSound
<1>21. CASE SweepBegins
  <2>1. PICK due \in SUBSET (fleet.timers \ forced) :
          /\ sweep = {} /\ sweep' = {s \in due : Registered(fleet, s)}
          /\ fleet' = [fleet EXCEPT !.timers = {s \in @ : s \in due => Registered(fleet, s)}]
          /\ UNCHANGED <<forced, waking, policy, apply, upsets>>
    BY <1>21 DEF SweepBegins
  <2> DEFINE T == {s \in fleet.timers : s \in due => Registered(fleet, s)}
  <2>2. fleet' = [fleet EXCEPT !.timers = T] /\ T \subseteq fleet.timers
    BY <1>2, <2>1 DEF Fleet
  <2>3. sweep' \subseteq Session
    BY <1>2, <2>1 DEF Fleet
  <2>4. OtherTypes' /\ Quiet' = Quiet
    BY <1>1, <2>1, <2>3 DEF OtherTypes
  <2>5. \A x \in Session : Registered(fleet, x) /\ x \in fleet.timers \union Parked => x \in T \union Parked'
    BY <2>1 DEF Parked
  <2> HIDE DEF T
  <2> QED BY <2>2, <2>4, <2>5, DueSound
<1>22. CASE SavePolicy
  <2>1. upsets' \in 0..MaxUpsets
    BY <1>22, OverageAssumption DEF SavePolicy, OtherTypes
  <2>2. OtherTypes' /\ Parked' = Parked /\ Quiet' = FALSE /\ fleet' = fleet
    BY <1>22, <2>1 DEF SavePolicy, OtherTypes, Parked, Quiet
  <2> QED BY <2>2, LoudSound
<1>23. CASE SyncPolicy
  <2>1. OtherTypes' /\ Parked' = Parked /\ (Quiet' <=> policy # "stop-resume") /\ fleet' = SyncedFleet(fleet)
    BY <1>23 DEF SyncPolicy, OtherTypes, Parked, Quiet
  <2> QED BY <2>1, SyncSound
<1>24. CASE Reevaluate
  <2> DEFINE fired == {s \in fleet.timers \ (sweep \union forced) : Registered(fleet, s)}
             T == {s \in fleet.timers \ fired : Registered(fleet, s)}
  <2>1. /\ forced' = forced \union fired /\ fleet' = [fleet EXCEPT !.timers = T] /\ T \subseteq fleet.timers
        /\ sweep' = sweep
    BY <1>2, <1>24 DEF Reevaluate, Fleet
  <2>2. fired \subseteq Session
    BY <1>2 DEF Fleet
  <2>3. OtherTypes' /\ Quiet' = Quiet
    BY <1>24, <2>1, <2>2 DEF Reevaluate, OtherTypes, Quiet
  <2>4. \A x \in Session : Registered(fleet, x) /\ x \in fleet.timers \union Parked => x \in T \union Parked'
    BY <2>1 DEF Parked
  <2> HIDE DEF T
  <2> QED BY <2>1, <2>3, <2>4, DueSound
<1>25. ASSUME NEW s \in Session, StreamOverage(s) PROVE OtherTypes' /\ Sound(fleet', Parked', Quiet')
  BY <1>11, <1>25 DEF StreamOverage
<1>26. CASE PollOverage
  BY <1>11, <1>26 DEF PollOverage
<1> HIDE DEF Rest
<1> QED
  BY <1>5, <1>6, <1>7, <1>8, <1>9, <1>10, <1>12, <1>13, <1>14, <1>15, <1>16, <1>17, <1>18, <1>19, <1>20, <1>21,
     <1>22, <1>23, <1>24, <1>25, <1>26 DEF Next

\* A check that comes back leaves alone a session that is not parked any more.
LEMMA StepSpares ==
  ASSUME OtherTypes, Sound(fleet, Parked, Quiet), Next, NEW s \in Session,
         s \in sweep \union forced, s \notin sweep' \union forced', Spared(fleet, s)
  PROVE  fleet'.phase[s] = "idle"
<1>1. ASSUME NEW x \in Session, NEW usage, ForcedAnswers(x, usage) PROVE fleet'.phase[s] = "idle"
  <2>1. PICK saving \in BOOLEAN : fleet' = Resolve(fleet, x, usage, saving)
    BY <1>1 DEF ForcedAnswers
  <2> QED BY <2>1, ResolveSpares DEF Spared
<1>2. ASSUME NEW usage, SweepAnswers(usage) PROVE fleet'.phase[s] = "idle"
  <2>1. PICK saving \in BOOLEAN, order \in SetToSeqs(sweep) : fleet' = ResolveAll(fleet, order, usage, saving)
    BY <1>2 DEF SweepAnswers
  <2>2. order \in Seq(Session)
    BY OrderNames DEF OtherTypes
  <2>3. Spared(ResolveAll(fleet, order, usage, saving), s)
    BY <2>2, ResolveAllSound
  <2> QED BY <2>1, <2>3 DEF Spared
<1>3. CASE SweepBegins \/ Reevaluate
  BY <1>3 DEF SweepBegins, Reevaluate
<1>4. CASE UNCHANGED <<sweep, forced>>
  BY <1>4
<1>5. \/ UNCHANGED <<sweep, forced>> \/ SweepBegins \/ Reevaluate
      \/ \E x \in Session, usage \in Usage : ForcedAnswers(x, usage)
      \/ \E usage \in Usage : SweepAnswers(usage)
  BY DEF Next, Prompt, Reinvoke, TurnEnds, SendWake, SendResume, StreamOverage, PollOverage, ResetPasses,
         ClearTimerFires, SavePolicy, SyncPolicy, Exit, RemoveSession, Respawn, RelaunchKills, Launched
<1> QED BY <1>1, <1>2, <1>3, <1>4, <1>5

-----------------------------------------------------------------------------
(* The theorems *)

\* IInv is inductive: badges, deadlines, queues and cut wakes stay in step with the marks, whatever
\* trip, check, prompt, exit, relaunch or Apply comes when.
THEOREM OverageInvariant == Spec => []IInv
<1>1. Init => IInv
  BY InitSound
<1>2. IInv /\ [Next]_vars => IInv'
  <2> SUFFICES ASSUME IInv, [Next]_vars PROVE IInv'
    OBVIOUS
  <2>1. OtherTypes' /\ Sound(fleet', Parked', Quiet')
    BY InvariantParts, StepSound
  <2>2. fleet' \in Fleet
    BY <2>1 DEF Sound, SoundBut
  <2> QED BY <2>1, <2>2 DEF IInv, OtherTypes, TypeOK, Parked
<1> QED BY <1>1, <1>2, PTL DEF Spec

\* The types.
THEOREM OverageTypes == Spec => []TypeOK
<1>1. IInv => TypeOK
  BY DEF IInv
<1> QED BY <1>1, OverageInvariant, PTL

\* A message that prompt() queued under the gate (src/instances.ts) is never stranded: a live session
\* with a queue is marked, and has a deadline or a usage check under way.
THEOREM QueuesAreFlushed == Spec => []QueueHasFlush
<1>1. IInv => QueueHasFlush
  BY DEF IInv, Sound, SoundBut, MarksOK, QueueHasFlush, WillFlush, TypeOK, Fleet
<1> QED BY <1>1, OverageInvariant, PTL

\* Once syncOveragePolicy ran for a policy other than stop-resume, no registered session has a mark, a
\* badge, a queue or a deadline, and none comes by one later.
THEOREM PolicyRules == Spec => []PolicyIsLive
<1>1. IInv => PolicyIsLive
  BY DEF IInv, Sound, SoundBut, MarksOK, PolicyIsLive, Quiet
<1> QED BY <1>1, OverageInvariant, PTL

\* Whoever loses a wake to the sever (_severOverageWakes), in any tree and any order of stops, turns
\* and exits, is to be resumed itself or has a live owner that is.
THEOREM CutWakesHaveDrivers == Spec => []CutHasDriver
<1>1. IInv => CutHasDriver
  BY DEF IInv, Sound, SoundBut, CutOK, Covered, CutHasDriver, TypeOK, Fleet
<1> QED BY <1>1, OverageInvariant, PTL

\* _resolveDue starts no turn on a session that was cancelled while its usage was fetched, whatever
\* else the same sweep resumes.
THEOREM OnlyMarkedResume == Spec => ResumeOnlyMarked
<1> DEFINE A == \A s \in Session :
                  LET checked == s \in sweep \union forced /\ s \notin sweep' \union forced'
                  IN  checked /\ s \notin fleet.marked \union fleet.badge /\ fleet.phase[s] = "idle"
                        => fleet'.phase[s] = "idle"
<1>1. IInv /\ [Next]_vars => [A]_vars
  <2> SUFFICES ASSUME IInv, Next PROVE A
    BY DEF vars
  <2>1. OtherTypes /\ Sound(fleet, Parked, Quiet)
    BY InvariantParts
  <2> QED BY <2>1, StepSpares DEF Spared
<1> HIDE DEF A
<1>2. Spec => [][A]_vars
  BY <1>1, OverageInvariant, PTL DEF Spec
<1> QED BY <1>2 DEF ResumeOnlyMarked, A
=============================================================================
