----------------------- MODULE PlaybookGateProofs -----------------------
(***************************************************************************)
(* Theorems about PlaybookGate, for any number of sessions, calls, faults  *)
(* and events, and for any playbook.                                       *)
(*                                                                         *)
(* A counted move is one that was checked while no other move was under    *)
(* way and whose stage's runs have stayed apart since (~blind).  There is  *)
(* at most one, and the stage it leads to has stayed free of counted       *)
(* workers since its check; so its row cannot put a second one there.      *)
(***************************************************************************)
EXTENDS PlaybookGate, SequenceTheorems, NaturalsInduction, WellFoundedInduction, TLAPS

\* The types of a call, a row and a projection.
Kind == {"none", "resume", "spawn", "transition", "self"}
CallType ==
  [at : {"idle", "allowed", "waiting", "done", "recording"}, tool : Tools \cup {"none"}, kind : Kind,
   w : Session \cup {NoSession}, stage : Stage \cup {NoStage}, prov : SUBSET Session, blind : BOOLEAN]
RowType ==
  [kind : RowKinds, w : Session, stage : Stage \cup {NoStage}, prov : SUBSET Session,
   by : Call \cup {NoCall}, conducted : BOOLEAN]
ProjType ==
  [stage : [Session -> Stage \cup {NoStage}], history : [Session -> Seq(Stage)], run : [Session -> Session]]

\* The kinds that bring a worker into a stage.
Moves == {"spawn", "transition"}

\* A row that moves a worker names a stage.
Staged(rows) == \A i \in 1..Len(rows) : rows[i].kind \in Moves => rows[i].stage \in Stage

\* A projection: a worker's stage is the last of its history.
Consistent(p) ==
  /\ p \in ProjType
  /\ \A w \in Session :
       p.stage[w] = IF p.history[w] = <<>> THEN NoStage ELSE p.history[w][Len(p.history[w])]

\* TypeOK, with what the functions and sequences hold.
SessionsTyped ==
  /\ session \in [Session -> {"new", "dead", "launching", "up"}]
  /\ conducted \subseteq Session
  /\ lifecycle \in [Session -> {"none", "alive", "dead"}]
ChainTyped == chain \in Seq(RowType) /\ Staged(chain)
LogTyped == file \in Seq(StoredRow) /\ Staged(file) /\ {torn, glued} \subseteq BOOLEAN
HistoryTyped == {excused, gaps} \subseteq SUBSET Session
CallsTyped == calls \in [Call -> CallType]

Types == SessionsTyped /\ ChainTyped /\ LogTyped /\ HistoryTyped /\ CallsTyped /\ Consistent(proj)

\* What a call in its slot is.
CallOK(k) ==
  /\ k.at = "idle" => k.kind = "none"
  /\ k.kind \in Moves \cup {"self"} => k.stage \in Stage
  /\ k.kind \notin Moves => k.prov = {}
  /\ \A m, n \in k.prov : m = n
  /\ k.w = NoSession => k.at = "idle" \/ (k.at = "allowed" /\ k.tool = "spawn_instance")
  /\ k.kind \in {"transition", "self"} => k.tool # "spawn_instance"
  /\ k.kind \in {"spawn", "resume"} => k.tool = "spawn_instance"

\* Whom a move is about is bound already: its worker, or those a spawn names.
Placed(k) ==
  /\ k.kind \in {"transition", "self"} => k.w \in Bound(proj)
  /\ k.kind = "spawn" => k.prov \subseteq Bound(proj)

PlacedOK == \A c \in Call : Placed(calls[c])

CallsOK == \A c \in Call : CallOK(calls[c])

\* A row that moves a worker is the one its call is recording.
LinkOK ==
  /\ \A i \in 1..Len(chain) :
       /\ chain[i].kind \in Moves <=> chain[i].by # NoCall
       /\ chain[i].by # NoCall =>
            /\ calls[chain[i].by].at = "recording"
            /\ calls[chain[i].by].w = chain[i].w
            /\ calls[chain[i].by].stage = chain[i].stage
            /\ calls[chain[i].by].prov = chain[i].prov
            /\ calls[chain[i].by].kind = "spawn" <=> chain[i].kind = "spawn"
            /\ calls[chain[i].by].kind \in Moves \cup {"self"}
  /\ \A c \in Call : calls[c].at = "recording" => \E i \in 1..Len(chain) : chain[i].by = c
  /\ \A i, j \in 1..Len(chain) : chain[i].by = chain[j].by => i = j \/ chain[i].by = NoCall

\* Until a row is glued to a fragment, the projection is what a reload would fold.
LogOK == Consistent(Folded(file)) /\ (~glued => proj = Folded(file))

\* The workers the check counts.
Counted == (Bound(proj) \cap Live) \ excused

\* Whom a move joins: its worker's run, or the run of those it names.
Fellow(k, x) ==
  IF k.kind = "transition" THEN SameRun(proj, x, k.w) ELSE \E n \in k.prov : SameRun(proj, x, n)

\* The stage a counted move leads to has stayed free of counted workers since its check.
RoomKept ==
  \A c \in Call : Moving(c) /\ ~calls[c].blind /\ calls[c].stage \notin Many =>
    \A x \in Counted : Fellow(calls[c], x) => proj.stage[x] # calls[c].stage

\* Of the moves under way one at most is counted.
OneCounted ==
  \A c, d \in Call : Moving(c) /\ Moving(d) /\ ~calls[c].blind /\ ~calls[d].blind => c = d

\* The inductive invariant.
IInv == Types /\ CallsOK /\ PlacedOK /\ LinkOK /\ LogOK /\ RoomKept /\ OneCounted /\ OneWorkerPerStage

-----------------------------------------------------------------------------
(* The fold of the ledger's rows. *)

\* f is the fold of the first n rows.
IsFold(f, rows, n) ==
  f = [i \in 0..n |-> IF i = 0 THEN Empty ELSE Applied(f[i - 1], rows[i])]

\* A set of naturals that holds 0 and, with each number, the next one, holds them all.
LEMMA Natural ==
  ASSUME NEW S, 0 \in S, \A n \in Nat : n \in S => n + 1 \in S
  PROVE  Nat \subseteq S
<1>1. SUFFICES ASSUME Nat \ S # {} PROVE FALSE
  OBVIOUS
<1>2. PICK x \in Nat \ S : \A y \in Nat \ S : ~(<<y, x>> \in OpToRel(<, Nat))
  BY <1>1, NatLessThanWellFounded, WFMin
<1>3. \A y \in Nat \ S : ~(y < x)
  BY <1>2 DEF OpToRel
<1>4. x # 0 /\ x - 1 \in Nat
  OBVIOUS
<1>5. x - 1 \in S
  BY <1>3, <1>4
<1>6. (x - 1) + 1 \in S
  BY <1>4, <1>5
<1> QED BY <1>6

\* Such a fold exists.
LEMMA FoldExists ==
  ASSUME NEW rows, NEW n \in Nat
  PROVE  \E f : IsFold(f, rows, n)
<1> DEFINE S == {m \in Nat : \E f : IsFold(f, rows, m)}
<1>1. 0 \in S
  <2>1. IsFold([i \in 0..0 |-> Empty], rows, 0)
    BY DEF IsFold
  <2> QED BY <2>1
<1>2. ASSUME NEW m \in Nat, m \in S PROVE m + 1 \in S
  <2>1. PICK f : IsFold(f, rows, m)
    BY <1>2
  <2> DEFINE g == [i \in 0..(m + 1) |-> IF i = m + 1 THEN Applied(f[m], rows[m + 1]) ELSE f[i]]
  <2>2. \A i \in 0..(m + 1) : g[i] = IF i = 0 THEN Empty ELSE Applied(g[i - 1], rows[i])
    <3> TAKE i \in 0..(m + 1)
    <3>1. CASE i = m + 1
      BY <3>1
    <3>2. CASE i \in 0..m
      <4>1. f[i] = IF i = 0 THEN Empty ELSE Applied(f[i - 1], rows[i])
        BY <2>1, <3>2 DEF IsFold
      <4>2. g[i] = f[i] /\ (i # 0 => g[i - 1] = f[i - 1])
        BY <3>2
      <4> QED BY <4>1, <4>2
    <3> QED BY <3>1, <3>2
  <2>3. g = [i \in 0..(m + 1) |-> g[i]]
    OBVIOUS
  <2>4. IsFold(g, rows, m + 1)
    <3> HIDE DEF g
    <3> QED BY <2>2, <2>3 DEF IsFold
  <2> QED BY <2>4
<1> HIDE DEF S
<1>3. Nat \subseteq S
  BY <1>1, <1>2, Natural
<1> QED BY <1>3 DEF S

\* Two folds of the same rows agree.
LEMMA FoldUnique ==
  ASSUME NEW rows, NEW more, NEW n \in Nat, NEW m \in Nat, n <= m, NEW f, NEW g,
         IsFold(f, rows, n), IsFold(g, more, m), \A i \in 1..n : rows[i] = more[i]
  PROVE  f[n] = g[n]
<1> DEFINE S == {i \in Nat : i <= n => f[i] = g[i]}
<1>1. 0 \in S
  BY DEF IsFold
<1>2. ASSUME NEW i \in Nat, i \in S PROVE i + 1 \in S
  <2>1. CASE i + 1 <= n
    <3>1. f[i + 1] = Applied(f[i], rows[i + 1]) /\ g[i + 1] = Applied(g[i], more[i + 1])
      BY <2>1 DEF IsFold
    <3> QED BY <1>2, <2>1, <3>1
  <2> QED BY <2>1
<1> HIDE DEF S
<1>3. Nat \subseteq S
  BY <1>1, <1>2, Natural
<1> QED BY <1>3 DEF S

\* Folded is its last value.
LEMMA FoldedIs ==
  ASSUME NEW rows \in Seq(StoredRow)
  PROVE  \E f : IsFold(f, rows, Len(rows)) /\ Folded(rows) = f[Len(rows)]
<1>1. Len(rows) \in Nat
  OBVIOUS
<1> DEFINE F == CHOOSE f : IsFold(f, rows, Len(rows))
<1>2. IsFold(F, rows, Len(rows))
  BY <1>1, FoldExists
<1>3. Folded(rows) = F[Len(rows)]
  BY DEF Folded, IsFold
<1> QED BY <1>2, <1>3

\* An empty ledger folds to nothing.
LEMMA FoldedEmpty == Folded(<<>>) = Empty
<1>1. <<>> \in Seq(StoredRow) /\ Len(<<>>) = 0
  OBVIOUS
<1>2. PICK f : IsFold(f, <<>>, 0) /\ Folded(<<>>) = f[0]
  BY <1>1, FoldedIs
<1> QED BY <1>2 DEF IsFold

\* One more row is applied last.
LEMMA FoldedAppend ==
  ASSUME NEW rows \in Seq(StoredRow), NEW row \in StoredRow
  PROVE  Folded(Append(rows, row)) = Applied(Folded(rows), row)
<1> DEFINE more == Append(rows, row)
           n == Len(rows)
<1>1. more \in Seq(StoredRow) /\ n \in Nat /\ Len(more) = n + 1 /\ more[n + 1] = row
      /\ \A i \in 1..n : rows[i] = more[i]
  OBVIOUS
<1> HIDE DEF more
<1>2. PICK f : IsFold(f, rows, n) /\ Folded(rows) = f[n]
  BY FoldedIs
<1>3. PICK g : IsFold(g, more, n + 1) /\ Folded(more) = g[n + 1]
  BY <1>1, FoldedIs
<1> HIDE DEF n
<1>4. f[n] = g[n]
  BY <1>1, <1>2, <1>3, FoldUnique
<1>5. g[n + 1] = Applied(g[n], row)
  BY <1>1, <1>3 DEF IsFold
<1> QED BY <1>2, <1>3, <1>4, <1>5 DEF more

-----------------------------------------------------------------------------
(* The projection. *)

\* Who shares a run after a join.
LEMMA JoinedRuns ==
  ASSUME NEW run \in [Session -> Session], NEW w \in Session, NEW prov \in SUBSET Session,
         \A m, n \in prov : m = n
  PROVE  /\ Joined(run, w, prov) \in [Session -> Session]
         /\ \A a, b \in Session : Joined(run, w, prov)[a] = Joined(run, w, prov)[b] <=>
              \/ run[a] = run[b]
              \/ \E n \in prov : {run[a], run[b]} \subseteq {run[w], run[n]}
<1>1. CASE prov = {}
  BY <1>1 DEF Joined
<1>2. CASE prov # {}
  <2>1. PICK n \in prov : prov = {n}
    BY <1>2
  <2>2. (CHOOSE x \in prov : TRUE) = n
    BY <2>1
  <2>3. {run[x] : x \in prov} = {run[n]}
    BY <2>1
  <2>4. Joined(run, w, prov) = [x \in Session |-> IF run[x] \in {run[w], run[n]} THEN run[n] ELSE run[x]]
    BY <1>2, <2>2, <2>3 DEF Joined
  <2> QED BY <2>1, <2>4
<1> QED BY <1>1, <1>2

\* A join keeps the runs' type.
LEMMA JoinedType ==
  ASSUME NEW run \in [Session -> Session], NEW w \in Session, NEW prov \in SUBSET Session
  PROVE  Joined(run, w, prov) \in [Session -> Session]
<1>1. prov # {} => (CHOOSE x \in prov : TRUE) \in Session
  OBVIOUS
<1> QED BY <1>1 DEF Joined

\* A row to fold.
Foldable(row) ==
  /\ row.kind \in RowKinds /\ row.w \in Session /\ row.prov \in SUBSET Session
  /\ row.kind \in Moves => row.stage \in Stage

\* A spawn row replaces the worker's state.
LEMMA AppliedSpawn ==
  ASSUME NEW p, Consistent(p), NEW row, Foldable(row), row.kind = "spawn"
  PROVE  /\ Consistent(Applied(p, row))
         /\ Applied(p, row).stage = [p.stage EXCEPT ![row.w] = row.stage]
         /\ Applied(p, row).history = [p.history EXCEPT ![row.w] = <<row.stage>>]
         /\ Applied(p, row).run = Joined(p.run, row.w, row.prov)
<1>1. Applied(p, row) = [stage |-> [p.stage EXCEPT ![row.w] = row.stage],
                         history |-> [p.history EXCEPT ![row.w] = <<row.stage>>],
                         run |-> Joined(p.run, row.w, row.prov)]
  BY DEF Applied
<1>2. row.w \in Session /\ row.stage \in Stage /\ Joined(p.run, row.w, row.prov) \in [Session -> Session]
  BY JoinedType DEF Consistent, ProjType, Foldable, Moves
<1>3. <<row.stage>> \in Seq(Stage) /\ <<row.stage>> # <<>> /\ Len(<<row.stage>>) = 1 /\ <<row.stage>>[1] = row.stage
  BY <1>2
<1>4. Consistent([stage |-> [p.stage EXCEPT ![row.w] = row.stage],
                  history |-> [p.history EXCEPT ![row.w] = <<row.stage>>],
                  run |-> Joined(p.run, row.w, row.prov)])
  BY <1>2, <1>3 DEF Consistent, ProjType
<1> QED BY <1>1, <1>4

\* A transition row extends its history.
LEMMA AppliedTransition ==
  ASSUME NEW p, Consistent(p), NEW row, Foldable(row), row.kind = "transition", p.stage[row.w] # NoStage
  PROVE  /\ Consistent(Applied(p, row))
         /\ Applied(p, row).stage = [p.stage EXCEPT ![row.w] = row.stage]
         /\ Applied(p, row).history = [p.history EXCEPT ![row.w] = Append(@, row.stage)]
         /\ Applied(p, row).run = Joined(p.run, row.w, row.prov)
<1>1. Applied(p, row) = [stage |-> [p.stage EXCEPT ![row.w] = row.stage],
                         history |-> [p.history EXCEPT ![row.w] = Append(@, row.stage)],
                         run |-> Joined(p.run, row.w, row.prov)]
  BY DEF Applied
<1>2. row.w \in Session /\ row.stage \in Stage /\ Joined(p.run, row.w, row.prov) \in [Session -> Session]
  BY JoinedType DEF Consistent, ProjType, Foldable, Moves
<1> DEFINE h == Append(p.history[row.w], row.stage)
<1>3. h \in Seq(Stage) /\ h # <<>> /\ h[Len(h)] = row.stage
  <2>1. p.history[row.w] \in Seq(Stage)
    BY <1>2 DEF Consistent, ProjType
  <2> QED BY <1>2, <2>1
<1>4. Consistent([stage |-> [p.stage EXCEPT ![row.w] = row.stage],
                  history |-> [p.history EXCEPT ![row.w] = Append(@, row.stage)],
                  run |-> Joined(p.run, row.w, row.prov)])
  <2> HIDE DEF h
  <2>1. [p.history EXCEPT ![row.w] = h] \in [Session -> Seq(Stage)]
    BY <1>2, <1>3 DEF Consistent, ProjType
  <2>2. Consistent([stage |-> [p.stage EXCEPT ![row.w] = row.stage],
                  history |-> [p.history EXCEPT ![row.w] = h],
                  run |-> Joined(p.run, row.w, row.prov)])
    BY <1>2, <1>3, <2>1 DEF Consistent, ProjType
  <2> QED BY <2>2 DEF h
<1> QED BY <1>1, <1>4

\* Any other row leaves the projection alone.
LEMMA AppliedOther ==
  ASSUME NEW p, NEW row, row.kind # "spawn", row.kind = "transition" => p.stage[row.w] = NoStage
  PROVE  Applied(p, row) = p
BY DEF Applied

\* A row keeps the projection consistent.
LEMMA AppliedType ==
  ASSUME NEW p, Consistent(p), NEW row, Foldable(row)
  PROVE  Consistent(Applied(p, row))
<1>1. CASE row.kind = "spawn"
  BY <1>1, AppliedSpawn
<1>2. CASE row.kind = "transition" /\ p.stage[row.w] # NoStage
  BY <1>2, AppliedTransition
<1>3. CASE row.kind # "spawn" /\ (row.kind = "transition" => p.stage[row.w] = NoStage)
  BY <1>3, AppliedOther
<1> QED BY <1>1, <1>2, <1>3

\* What is read back applies as what was written.
LEMMA AppliedStored ==
  ASSUME NEW p, NEW row
  PROVE  Applied(p, Stored(row)) = Applied(p, row)
<1>1. /\ Stored(row).kind = row.kind /\ Stored(row).w = row.w
      /\ Stored(row).stage = row.stage /\ Stored(row).prov = row.prov
  BY DEF Stored
<1> QED BY <1>1 DEF Applied

-----------------------------------------------------------------------------
(* The chain. *)

\* What an append to a sequence holds.
LEMMA Queued ==
  ASSUME NEW T, NEW q \in Seq(T), NEW m \in T
  PROVE  /\ Append(q, m) \in Seq(T) /\ Append(q, m) # <<>> /\ Len(Append(q, m)) = Len(q) + 1
         /\ \A i \in 1..Len(Append(q, m)) :
              \/ i \in 1..Len(q) /\ Append(q, m)[i] = q[i]
              \/ i = Len(q) + 1 /\ Append(q, m)[i] = m
         /\ \A i \in 1..Len(q) : i \in 1..Len(Append(q, m)) /\ Append(q, m)[i] = q[i]
         /\ Len(q) + 1 \in 1..Len(Append(q, m)) /\ Append(q, m)[Len(q) + 1] = m
OBVIOUS

\* What the rest of a sequence holds.
LEMMA Taken ==
  ASSUME NEW T, NEW q \in Seq(T), q # <<>>
  PROVE  /\ Head(q) \in T /\ Head(q) = q[1] /\ 1 \in 1..Len(q)
         /\ Tail(q) \in Seq(T)
         /\ \A i \in 1..Len(Tail(q)) : i + 1 \in 1..Len(q) /\ Tail(q)[i] = q[i + 1] /\ i + 1 # 1
         /\ \A i \in 2..Len(q) : i - 1 \in 1..Len(Tail(q)) /\ Tail(q)[i - 1] = q[i]
<1>1. Len(q) \in Nat /\ Len(q) > 0 /\ Len(Tail(q)) = Len(q) - 1
  BY HeadTailProperties
<1>2. \A i \in 1..Len(Tail(q)) : Tail(q)[i] = q[i + 1]
  BY HeadTailProperties, Z3
<1>3. Head(q) \in T /\ Head(q) = q[1] /\ Tail(q) \in Seq(T)
  BY HeadTailProperties
<1>4. ASSUME NEW i \in 2..Len(q) PROVE i - 1 \in 1..Len(Tail(q)) /\ Tail(q)[i - 1] = q[i]
  <2>1. i - 1 \in 1..Len(Tail(q)) /\ (i - 1) + 1 = i
    BY <1>1
  <2> QED BY <1>2, <2>1
<1> QED BY <1>1, <1>2, <1>3, <1>4

-----------------------------------------------------------------------------
(* The decision. *)

\* The types of a call's arguments.
LEMMA AskType ==
  ASSUME NEW ask \in Asks
  PROVE  /\ ask.tool \in Tools /\ ask.w \in Session \cup {NoSession} /\ ask.stage \in Stage \cup {NoStage}
         /\ ask.tool # "spawn_instance" => ask.w \in Session
         /\ ask.tool = "send_prompt" => ask.stage \in Stage
         /\ {n[2] : n \in ask.prov} \in SUBSET Session
         /\ \A n \in ask.prov : n[2] \in Session
         /\ \A m, n \in {p[2] : p \in ask.prov} : m = n
<1>1. ask.prov \in Provenance \/ ask.prov = {}
  BY DEF Asks
<1>2. \A n \in ask.prov : n[2] \in Session
  BY <1>1 DEF Provenance
<1>3. \A m, n \in ask.prov : m = n
  BY <1>1 DEF Provenance
<1> QED BY <1>2, <1>3 DEF Asks, Known, Tools

\* A call that may move its worker has found room where it leads.
LEMMA DecisionCounts ==
  ASSUME Types, NEW ask \in Asks
  PROVE  /\ Decision(ask) \in Kind \cup {"refused"}
         /\ Decision(ask) = "spawn" =>
              /\ ask.tool = "spawn_instance"
              /\ Entered(ask, "spawn") \in Stage
              /\ \A n \in ask.prov : HasRoom(Entered(ask, "spawn"), n[2])
              /\ {n[2] : n \in ask.prov} \subseteq Bound(proj)
         /\ Decision(ask) = "transition" =>
              /\ ask.tool # "spawn_instance"
              /\ Entered(ask, "transition") \in Stage
              /\ HasRoom(Entered(ask, "transition"), ask.w)
         /\ Decision(ask) = "self" => ask.tool = "send_prompt" /\ Entered(ask, "self") \in Stage
         /\ Decision(ask) \in {"transition", "self"} => ask.w \in Bound(proj)
         /\ Decision(ask) = "resume" => ask.tool = "spawn_instance"
<1>1. CASE ask.tool = "spawn_instance"
  <2>1. Decision(ask) = SpawnKind(ask)
    BY <1>1 DEF Decision
  <2>2. SpawnKind(ask) \in {"resume", "refused", "spawn"}
    BY DEF SpawnKind
  <2>3. SpawnKind(ask) = "spawn" =>
          /\ ask.stage \in Spawnable
          /\ \A n \in ask.prov : HasRoom(ask.stage, n[2]) /\ n[2] \in Bound(proj)
    BY DEF SpawnKind
  <2>4. Entered(ask, "spawn") = ask.stage
    BY <1>1 DEF Entered
  <2> QED BY <1>1, <2>1, <2>2, <2>3, <2>4, GateAssumption DEF Kind
<1>2. CASE ask.tool # "spawn_instance"
  <2> DEFINE s == proj.stage[ask.w]
             to == CHOOSE t \in Targets(s, ask) : TRUE
  <2>1. Decision(ask) = TargetedKind(ask)
    BY <1>2 DEF Decision
  <2>2. SelfKind(s, ask) \in {"none", "self"} /\ (SelfKind(s, ask) = "self" => ask.tool = "send_prompt")
    BY DEF SelfKind
  <2>3. /\ TargetedKind(ask) \in {"none", "refused", "self", "transition"}
        /\ TargetedKind(ask) = "self" => ask.tool = "send_prompt" /\ ask.w \in Bound(proj)
        /\ TargetedKind(ask) = "transition" =>
             ask.w \in Bound(proj) /\ Targets(s, ask) # {} /\ HasRoom(to, ask.w)
    <3> HIDE DEF to
    <3>1. TargetedKind(ask) =
            IF ask.w \notin Bound(proj) THEN "none"
            ELSE IF <<s, ask.tool>> \in Denied \/ Targets(s, ask) = {} THEN "refused"
            ELSE IF Stays(s, ask, to) THEN SelfKind(s, ask)
            ELSE IF NeedsMet(to, ask.prov, ask.w) /\ HasRoom(to, ask.w) THEN "transition" ELSE "refused"
      BY DEF TargetedKind, to
    <3> QED BY <2>2, <3>1
  <2>4. ask.w \in Bound(proj) => s \in Stage
    BY DEF Types, Consistent, ProjType, Bound
  <2>5. ask.w \in Bound(proj) => Targets(s, ask) \subseteq Stage
    BY <2>4, AskType, GateAssumption DEF Targets
  <2>6. ask.tool = "send_prompt" => Targets(s, ask) \subseteq {ask.stage} /\ Entered(ask, "transition") = ask.stage
                                 /\ Entered(ask, "self") = ask.stage
    BY DEF Targets, Entered
  <2>7. ask.tool # "send_prompt" => Entered(ask, "transition") = to
    BY <1>2 DEF Entered
  <2>8. Targets(s, ask) # {} => to \in Targets(s, ask)
    OBVIOUS
  <2>9. TargetedKind(ask) = "transition" => Entered(ask, "transition") = to /\ to \in Stage
    BY <2>3, <2>5, <2>6, <2>7, <2>8
  <2> HIDE DEF to
  <2> QED BY <1>2, <2>1, <2>3, <2>6, <2>9, AskType DEF Kind
<1> QED BY <1>1, <1>2

-----------------------------------------------------------------------------
(* Steps that leave the projection alone. *)

\* An idle slot is a call.
LEMMA IdleCall == Idle \in CallType /\ CallOK(Idle)
<1>1. /\ Idle.at = "idle" /\ Idle.kind = "none" /\ Idle.prov = {} /\ Idle.w = NoSession
  BY DEF Idle
<1>2. CallOK(Idle)
  BY <1>1 DEF CallOK, Moves
<1>3. Idle \in CallType
  BY DEF Idle, CallType, Kind
<1> QED BY <1>2, <1>3

\* The rows of the chain are rows.
LEMMA ChainRows ==
  ASSUME chain \in Seq(RowType)
  PROVE  \A i \in 1..Len(chain) : chain[i] \in RowType /\ chain[i].by \in Call \cup {NoCall}
<1>1. \A i \in 1..Len(chain) : chain[i] \in RowType
  OBVIOUS
<1> QED BY <1>1 DEF RowType

\* A life row is a row, and nobody's.
LEMMA LifeRowType ==
  ASSUME Types, NEW w \in Session, NEW kind \in {"retire", "resume"}
  PROVE  LifeRow(kind, w) \in RowType /\ LifeRow(kind, w).by = NoCall /\ LifeRow(kind, w).kind \notin Moves
BY DEF LifeRow, Row, RowType, RowKinds, Moves

\* A life row is nobody's, and calls that are recording stay as they are.
LEMMA LifeQueued ==
  ASSUME IInv, NEW w \in Session, NEW kind \in {"retire", "resume"},
         chain' = Append(chain, LifeRow(kind, w)),
         \A c \in Call : calls[c].at = "recording" \/ calls'[c].at = "recording" => calls'[c] = calls[c]
  PROVE  ChainTyped' /\ LinkOK'
<1> DEFINE r == LifeRow(kind, w)
<1>1. r \in RowType /\ r.by = NoCall /\ r.kind \notin Moves
  BY LifeRowType DEF IInv
<1> HIDE DEF r
<1>2. chain \in Seq(RowType) /\ chain' = Append(chain, r)
  BY DEF IInv, Types, ChainTyped, r
<1>3. chain' \in Seq(RowType)
  BY <1>1, <1>2, Queued
<1>4. \A i \in 1..Len(chain') : (i \in 1..Len(chain) /\ chain'[i] = chain[i]) \/ chain'[i] = r
  BY <1>1, <1>2, Queued
<1>5. Staged(chain)'
  BY <1>1, <1>4 DEF IInv, Types, ChainTyped, Staged
<1>6. \A i \in 1..Len(chain) : chain[i].by \in Call \cup {NoCall}
  BY <1>2, ChainRows
<1>7. LinkOK'
  <2>1. ASSUME NEW i \in 1..Len(chain')
        PROVE  /\ chain'[i].kind \in Moves <=> chain'[i].by # NoCall
               /\ chain'[i].by # NoCall =>
                    /\ i \in 1..Len(chain) /\ chain'[i] = chain[i]
                    /\ chain[i].by \in Call
                    /\ calls'[chain[i].by] = calls[chain[i].by]
    BY <1>1, <1>4, <1>6, <2>1 DEF IInv, LinkOK
  <2>2. ASSUME NEW c \in Call, calls'[c].at = "recording"
        PROVE \E i \in 1..Len(chain') : chain'[i].by = c
    <3>1. PICK i \in 1..Len(chain) : chain[i].by = c
      BY <2>2 DEF IInv, LinkOK
    <3> QED BY <1>1, <1>2, <3>1, Queued
  <2>3. ASSUME NEW i \in 1..Len(chain'), NEW j \in 1..Len(chain'), chain'[i].by = chain'[j].by
        PROVE  i = j \/ chain'[i].by = NoCall
    BY <1>1, <1>4, <2>3 DEF IInv, LinkOK
  <2> QED BY <2>1, <2>2, <2>3 DEF IInv, LinkOK
<1> QED BY <1>3, <1>5, <1>7 DEF ChainTyped

\* The chain and the recording calls stay as they are.
LEMMA ChainStays ==
  ASSUME IInv, UNCHANGED chain,
         \A c \in Call : calls[c].at = "recording" \/ calls'[c].at = "recording" => calls'[c] = calls[c]
  PROVE  ChainTyped' /\ LinkOK'
<1>1. \A i \in 1..Len(chain) : chain[i].by \in Call \cup {NoCall}
  BY ChainRows DEF IInv, Types, ChainTyped
<1>2. ChainTyped'
  BY DEF IInv, Types, ChainTyped, Staged
<1>3. LinkOK'
  BY <1>1 DEF IInv, LinkOK
<1> QED BY <1>2, <1>3

\* The first row leaves the chain and its call its slot.
LEMMA HeadReplied ==
  ASSUME IInv, chain # <<>>, chain' = Tail(chain),
         \A c \in Call : IF c = Head(chain).by THEN calls'[c].at = "idle"
                         ELSE \A f \in {"at", "w", "stage", "prov", "kind"} : calls'[c][f] = calls[c][f]
  PROVE  ChainTyped' /\ LinkOK'
<1>1. chain \in Seq(RowType)
  BY DEF IInv, Types, ChainTyped
<1>2. chain' \in Seq(RowType)
  BY <1>1, Taken
<1>3. /\ Head(chain) = chain[1] /\ 1 \in 1..Len(chain)
      /\ \A i \in 1..Len(chain') : i + 1 \in 1..Len(chain) /\ chain'[i] = chain[i + 1] /\ i + 1 # 1
      /\ \A i \in 2..Len(chain) : i - 1 \in 1..Len(chain') /\ chain'[i - 1] = chain[i]
  BY <1>1, Taken
<1>4. Staged(chain)'
  BY <1>3 DEF IInv, Types, ChainTyped, Staged
<1>5. \A i \in 1..Len(chain) : chain[i].by \in Call \cup {NoCall}
  BY <1>1, ChainRows
<1>6. LinkOK'
  <2>1. ASSUME NEW i \in 1..Len(chain')
        PROVE  /\ chain'[i].kind \in Moves <=> chain'[i].by # NoCall
               /\ chain'[i].by # NoCall =>
                    /\ calls'[chain'[i].by].at = "recording"
                    /\ calls'[chain'[i].by].w = chain'[i].w
                    /\ calls'[chain'[i].by].stage = chain'[i].stage
                    /\ calls'[chain'[i].by].prov = chain'[i].prov
                    /\ calls'[chain'[i].by].kind = "spawn" <=> chain'[i].kind = "spawn"
                    /\ calls'[chain'[i].by].kind \in Moves \cup {"self"}
    <3> DEFINE k == i + 1
    <3>1. k \in 1..Len(chain) /\ chain'[i] = chain[k] /\ k # 1
      BY <1>3
    <3> HIDE DEF k
    <3>2. chain[k].by # NoCall => chain[k].by \in Call /\ chain[k].by # Head(chain).by
      BY <1>3, <1>5, <3>1 DEF IInv, LinkOK
    <3>3. chain[k].by # NoCall =>
            \A f \in {"at", "w", "stage", "prov", "kind"} : calls'[chain[k].by][f] = calls[chain[k].by][f]
      BY <3>2
    <3> QED BY <3>1, <3>2, <3>3 DEF IInv, LinkOK
  <2>2. ASSUME NEW c \in Call, calls'[c].at = "recording"
        PROVE \E i \in 1..Len(chain') : chain'[i].by = c
    <3>1. c # Head(chain).by /\ calls[c].at = "recording"
      BY <2>2
    <3>2. PICK i \in 1..Len(chain) : chain[i].by = c
      BY <3>1 DEF IInv, LinkOK
    <3>3. i \in 2..Len(chain)
      BY <1>3, <3>1, <3>2
    <3> QED BY <1>3, <3>2, <3>3
  <2>3. ASSUME NEW i \in 1..Len(chain'), NEW j \in 1..Len(chain'), chain'[i].by = chain'[j].by
        PROVE  i = j \/ chain'[i].by = NoCall
    <3>1. i + 1 = j + 1 \/ chain[i + 1].by = NoCall
      BY <1>3, <2>3 DEF IInv, LinkOK
    <3> QED BY <1>3, <3>1
  <2> QED BY <2>1, <2>2, <2>3 DEF LinkOK
<1> QED BY <1>2, <1>4, <1>6 DEF ChainTyped

\* A step that moves nobody, counts nobody anew and begins no move keeps every stage's room.
LEMMA NobodyCounted ==
  ASSUME IInv, Bound(proj)' = Bound(proj), Counted' \subseteq Counted, proj'.run = proj.run,
         \A x \in Counted' : proj'.stage[x] = proj.stage[x],
         \A c \in Call : calls'[c].kind \in Moves \cup {"self"} =>
           /\ calls'[c].kind = calls[c].kind /\ calls'[c].stage = calls[c].stage
           /\ calls'[c].prov = calls[c].prov /\ calls'[c].blind = calls[c].blind
           /\ calls[c].kind # "spawn" => calls'[c].w = calls[c].w
  PROVE  PlacedOK' /\ RoomKept' /\ OneCounted' /\ OneWorkerPerStage'
<1>1. RoomKept'
  <2> SUFFICES ASSUME NEW c \in Call, Moving(c)', ~calls'[c].blind, calls'[c].stage \notin Many,
                      NEW x \in Counted', Fellow(calls[c], x)'
               PROVE  proj'.stage[x] # calls'[c].stage
    BY DEF RoomKept
  <2>1. Moving(c) /\ ~calls[c].blind /\ calls[c].stage = calls'[c].stage
    BY DEF Moving, Moves
  <2>2. Fellow(calls[c], x)
    BY <2>1 DEF Fellow, SameRun, Moving, Moves
  <2> QED BY <2>1, <2>2 DEF IInv, RoomKept
<1>2. OneCounted'
  BY DEF IInv, OneCounted, Moving, Moves
<1>3. OneWorkerPerStage'
  BY DEF IInv, OneWorkerPerStage, Counted, SameRun
<1>4. PlacedOK'
  BY DEF IInv, PlacedOK, Placed, Moves
<1> QED BY <1>1, <1>2, <1>3, <1>4


\* A process dies.
LEMMA DiesKeeps ==
  ASSUME IInv, NEW w \in Session, Dies(w)
  PROVE  IInv'
<1>1. SessionsTyped' /\ LogTyped' /\ HistoryTyped'
  BY DEF Dies, ledger, DeadStatus, IInv, Types, SessionsTyped, LogTyped, HistoryTyped
<1>2. CallsTyped'
  BY DEF Dies, IInv, Types, CallsTyped
<1>3. w \in Session /\ (chain' = chain \/ chain' = Append(chain, LifeRow("retire", w)))
  BY DEF Dies, DeadStatus
<1>4. \A d \in Call : calls[d].at = "recording" \/ calls'[d].at = "recording" => calls'[d] = calls[d]
  BY DEF Dies
<1>5. ChainTyped' /\ LinkOK'
  BY <1>3, <1>4, LifeQueued, ChainStays
<1>6. CallsOK'
  BY DEF Dies, IInv, CallsOK
<1>7. LogOK'
  BY DEF Dies, ledger, IInv, LogOK
<1>8. Counted' \subseteq Counted
  BY DEF Dies, ledger, Live, Counted
<1>9. \A d \in Call : calls'[d].kind \in Moves \cup {"self"} =>
           /\ calls'[d].kind = calls[d].kind /\ calls'[d].stage = calls[d].stage
           /\ calls'[d].prov = calls[d].prov /\ calls'[d].blind = calls[d].blind
           /\ calls[d].kind # "spawn" => calls'[d].w = calls[d].w
  BY DEF Dies
<1>10. UNCHANGED proj
  BY DEF Dies, ledger
<1>11. PlacedOK' /\ RoomKept' /\ OneCounted' /\ OneWorkerPerStage'
  BY <1>8, <1>9, <1>10, NobodyCounted
<1> QED BY <1>1, <1>2, <1>5, <1>6, <1>7, <1>10, <1>11 DEF IInv, Types


\* A dead session is told dead again.
LEMMA DeadAgainKeeps ==
  ASSUME IInv, NEW w \in Session, DeadAgain(w)
  PROVE  IInv'
<1>1. SessionsTyped' /\ LogTyped' /\ HistoryTyped'
  BY DEF DeadAgain, ledger, DeadStatus, IInv, Types, SessionsTyped, LogTyped, HistoryTyped
<1>2. CallsTyped'
  BY DEF DeadAgain, IInv, Types, CallsTyped
<1>3. w \in Session /\ (chain' = chain \/ chain' = Append(chain, LifeRow("retire", w)))
  BY DEF DeadAgain, DeadStatus
<1>4. \A d \in Call : calls[d].at = "recording" \/ calls'[d].at = "recording" => calls'[d] = calls[d]
  BY DEF DeadAgain
<1>5. ChainTyped' /\ LinkOK'
  BY <1>3, <1>4, LifeQueued, ChainStays
<1>6. CallsOK'
  BY DEF DeadAgain, IInv, CallsOK
<1>7. LogOK'
  BY DEF DeadAgain, ledger, IInv, LogOK
<1>8. Counted' \subseteq Counted
  BY DEF DeadAgain, ledger, Live, Counted
<1>9. \A d \in Call : calls'[d].kind \in Moves \cup {"self"} =>
           /\ calls'[d].kind = calls[d].kind /\ calls'[d].stage = calls[d].stage
           /\ calls'[d].prov = calls[d].prov /\ calls'[d].blind = calls[d].blind
           /\ calls[d].kind # "spawn" => calls'[d].w = calls[d].w
  BY DEF DeadAgain
<1>10. UNCHANGED proj
  BY DEF DeadAgain, ledger
<1>11. PlacedOK' /\ RoomKept' /\ OneCounted' /\ OneWorkerPerStage'
  BY <1>8, <1>9, <1>10, NobodyCounted
<1> QED BY <1>1, <1>2, <1>5, <1>6, <1>7, <1>10, <1>11 DEF IInv, Types


\* Somebody resumes it.
LEMMA ReviveKeeps ==
  ASSUME IInv, NEW w \in Session, Revive(w)
  PROVE  IInv'
<1>1. SessionsTyped' /\ LogTyped' /\ HistoryTyped'
  BY DEF Revive, IInv, Types, SessionsTyped, LogTyped, HistoryTyped
<1>2. CallsTyped'
  BY DEF Revive, IInv, Types, CallsTyped
<1>4. \A d \in Call : calls[d].at = "recording" \/ calls'[d].at = "recording" => calls'[d] = calls[d]
  BY DEF Revive
<1>5. ChainTyped' /\ LinkOK'
  BY ChainStays DEF Revive
<1>6. CallsOK'
  BY DEF Revive, IInv, CallsOK
<1>7. LogOK'
  BY DEF Revive, IInv, LogOK
<1>8. Counted' \subseteq Counted
  BY DEF Revive, Live, Counted
<1>9. \A d \in Call : calls'[d].kind \in Moves \cup {"self"} =>
           /\ calls'[d].kind = calls[d].kind /\ calls'[d].stage = calls[d].stage
           /\ calls'[d].prov = calls[d].prov /\ calls'[d].blind = calls[d].blind
           /\ calls[d].kind # "spawn" => calls'[d].w = calls[d].w
  BY DEF Revive
<1>10. UNCHANGED proj
  BY DEF Revive
<1>11. PlacedOK' /\ RoomKept' /\ OneCounted' /\ OneWorkerPerStage'
  BY <1>8, <1>9, <1>10, NobodyCounted
<1> QED BY <1>1, <1>2, <1>5, <1>6, <1>7, <1>10, <1>11 DEF IInv, Types


\* A status comes before the relaunch.
LEMMA EarlyStatusKeeps ==
  ASSUME IInv, NEW w \in Session, EarlyStatus(w)
  PROVE  IInv'
<1>1. SessionsTyped' /\ LogTyped' /\ HistoryTyped'
  BY DEF EarlyStatus, ledger, IInv, Types, SessionsTyped, LogTyped, HistoryTyped
<1>2. CallsTyped'
  BY DEF EarlyStatus, IInv, Types, CallsTyped
<1>4. \A d \in Call : calls[d].at = "recording" \/ calls'[d].at = "recording" => calls'[d] = calls[d]
  BY DEF EarlyStatus
<1>5. ChainTyped' /\ LinkOK'
  BY ChainStays DEF EarlyStatus
<1>6. CallsOK'
  BY DEF EarlyStatus, IInv, CallsOK
<1>7. LogOK'
  BY DEF EarlyStatus, ledger, IInv, LogOK
<1>8. Counted' \subseteq Counted
  BY DEF EarlyStatus, ledger, Live, Counted
<1>9. \A d \in Call : calls'[d].kind \in Moves \cup {"self"} =>
           /\ calls'[d].kind = calls[d].kind /\ calls'[d].stage = calls[d].stage
           /\ calls'[d].prov = calls[d].prov /\ calls'[d].blind = calls[d].blind
           /\ calls[d].kind # "spawn" => calls'[d].w = calls[d].w
  BY DEF EarlyStatus
<1>10. UNCHANGED proj
  BY DEF EarlyStatus, ledger
<1>11. PlacedOK' /\ RoomKept' /\ OneCounted' /\ OneWorkerPerStage'
  BY <1>8, <1>9, <1>10, NobodyCounted
<1> QED BY <1>1, <1>2, <1>5, <1>6, <1>7, <1>10, <1>11 DEF IInv, Types


\* The relaunch is told.
LEMMA RelaunchedKeeps ==
  ASSUME IInv, NEW w \in Session, Relaunched(w)
  PROVE  IInv'
<1>1. SessionsTyped' /\ LogTyped' /\ HistoryTyped'
  BY DEF Relaunched, ledger, IInv, Types, SessionsTyped, LogTyped, HistoryTyped
<1>2. CallsTyped'
  BY DEF Relaunched, IInv, Types, CallsTyped, CallType
<1>3. w \in Session /\ (chain' = chain \/ chain' = Append(chain, LifeRow("resume", w)))
  BY DEF Relaunched
<1>4. \A d \in Call : calls[d].at = "recording" \/ calls'[d].at = "recording" => calls'[d] = calls[d]
  BY DEF Relaunched
<1>5. ChainTyped' /\ LinkOK'
  BY <1>3, <1>4, LifeQueued, ChainStays
<1>6. CallsOK'
  BY DEF Relaunched, IInv, CallsOK, CallOK
<1>7. LogOK'
  BY DEF Relaunched, ledger, IInv, LogOK
<1>8. Counted' \subseteq Counted
  BY DEF Relaunched, ledger, Live, Counted
<1>9. \A d \in Call : calls'[d].kind \in Moves \cup {"self"} =>
           /\ calls'[d].kind = calls[d].kind /\ calls'[d].stage = calls[d].stage
           /\ calls'[d].prov = calls[d].prov /\ calls'[d].blind = calls[d].blind
           /\ calls[d].kind # "spawn" => calls'[d].w = calls[d].w
  BY DEF Relaunched
<1>10. UNCHANGED proj
  BY DEF Relaunched, ledger
<1>11. PlacedOK' /\ RoomKept' /\ OneCounted' /\ OneWorkerPerStage'
  BY <1>8, <1>9, <1>10, NobodyCounted
<1> QED BY <1>1, <1>2, <1>5, <1>6, <1>7, <1>10, <1>11 DEF IInv, Types


\* The launch is refused.
LEMMA LaunchRefusedKeeps ==
  ASSUME IInv, NEW w \in Session, LaunchRefused(w)
  PROVE  IInv'
<1>1. SessionsTyped' /\ LogTyped' /\ HistoryTyped'
  BY DEF LaunchRefused, ledger, IInv, Types, SessionsTyped, LogTyped, HistoryTyped
<1>2. CallsTyped'
  BY IdleCall DEF LaunchRefused, IInv, Types, CallsTyped
<1>4. \A d \in Call : calls[d].at = "recording" \/ calls'[d].at = "recording" => calls'[d] = calls[d]
  BY DEF LaunchRefused, Idle
<1>5. ChainTyped' /\ LinkOK'
  BY ChainStays DEF LaunchRefused, Idle
<1>6. CallsOK'
  <2>1. \A d \in Call : calls'[d] \in {calls[d], Idle}
    BY DEF LaunchRefused
  <2> QED BY <2>1, IdleCall DEF IInv, CallsOK
<1>7. LogOK'
  BY DEF LaunchRefused, ledger, IInv, LogOK
<1>8. Counted' \subseteq Counted
  BY DEF LaunchRefused, ledger, Live, Counted
<1>9. \A d \in Call : calls'[d].kind \in Moves \cup {"self"} =>
           /\ calls'[d].kind = calls[d].kind /\ calls'[d].stage = calls[d].stage
           /\ calls'[d].prov = calls[d].prov /\ calls'[d].blind = calls[d].blind
           /\ calls[d].kind # "spawn" => calls'[d].w = calls[d].w
  BY GateAssumption DEF LaunchRefused, outside, ledger, Event, Idle, Live, Creates, DeadStatus, Moving,
       Replied, IInv, Types, SessionsTyped, LogTyped, HistoryTyped, CallsTyped, CallType, Tools, Kind,
       CallsOK, CallOK, Moves
<1>10. UNCHANGED proj
  BY DEF LaunchRefused, ledger
<1>11. PlacedOK' /\ RoomKept' /\ OneCounted' /\ OneWorkerPerStage'
  BY <1>8, <1>9, <1>10, NobodyCounted
<1> QED BY <1>1, <1>2, <1>5, <1>6, <1>7, <1>10, <1>11 DEF IInv, Types


\* A new session is created.
LEMMA CreateFreshKeeps ==
  ASSUME IInv, NEW c \in Call, NEW w \in Session, CreateFresh(c, w)
  PROVE  IInv'
<1>1. SessionsTyped' /\ LogTyped' /\ HistoryTyped'
  BY DEF CreateFresh, ledger, IInv, Types, SessionsTyped, LogTyped, HistoryTyped
<1>2. CallsTyped'
  BY GateAssumption DEF CreateFresh, IInv, Types, CallsTyped, CallType
<1>4. \A d \in Call : calls[d].at = "recording" \/ calls'[d].at = "recording" => calls'[d] = calls[d]
  BY DEF CreateFresh, IInv, Types, CallsTyped, CallsOK, CallOK
<1>5. ChainTyped' /\ LinkOK'
  BY <1>4, ChainStays DEF CreateFresh, outside, ledger, Event, Idle, Live, Creates, DeadStatus, Moving,
       Replied
<1>6. CallsOK'
  BY GateAssumption DEF CreateFresh, IInv, Types, CallsTyped, CallsOK, CallOK
<1>7. LogOK'
  BY DEF CreateFresh, ledger, IInv, LogOK
<1>8. Counted' \subseteq Counted
  BY DEF CreateFresh, ledger, Live, Counted
<1>9. \A d \in Call : calls'[d].kind \in Moves \cup {"self"} =>
           /\ calls'[d].kind = calls[d].kind /\ calls'[d].stage = calls[d].stage
           /\ calls'[d].prov = calls[d].prov /\ calls'[d].blind = calls[d].blind
           /\ calls[d].kind # "spawn" => calls'[d].w = calls[d].w
  BY DEF CreateFresh, IInv, Types, CallsTyped, CallsOK, CallOK, Moves
<1>10. UNCHANGED proj
  BY DEF CreateFresh, ledger
<1>11. PlacedOK' /\ RoomKept' /\ OneCounted' /\ OneWorkerPerStage'
  BY <1>8, <1>9, <1>10, NobodyCounted
<1> QED BY <1>1, <1>2, <1>5, <1>6, <1>7, <1>10, <1>11 DEF IInv, Types


\* A session is resumed by a call.
LEMMA CreateResumedKeeps ==
  ASSUME IInv, NEW c \in Call, CreateResumed(c)
  PROVE  IInv'
<1>1. SessionsTyped' /\ LogTyped' /\ HistoryTyped'
  BY DEF CreateResumed, Creates, IInv, Types, SessionsTyped, LogTyped, HistoryTyped, CallsTyped, CallType
<1>2. CallsTyped'
  BY DEF CreateResumed, IInv, Types, CallsTyped, CallType
<1>4. \A d \in Call : calls[d].at = "recording" \/ calls'[d].at = "recording" => calls'[d] = calls[d]
  BY DEF CreateResumed, Creates
<1>5. ChainTyped' /\ LinkOK'
  BY ChainStays DEF CreateResumed, Creates
<1>6. CallsOK'
  BY DEF CreateResumed, IInv, CallsOK, CallOK
<1>7. LogOK'
  BY DEF CreateResumed, IInv, LogOK
<1>8. Counted' \subseteq Counted
  BY DEF CreateResumed, Live, Counted, IInv, Types, SessionsTyped
<1>9. \A d \in Call : calls'[d].kind \in Moves \cup {"self"} =>
           /\ calls'[d].kind = calls[d].kind /\ calls'[d].stage = calls[d].stage
           /\ calls'[d].prov = calls[d].prov /\ calls'[d].blind = calls[d].blind
           /\ calls[d].kind # "spawn" => calls'[d].w = calls[d].w
  BY DEF CreateResumed
<1>10. UNCHANGED proj
  BY DEF CreateResumed
<1>11. PlacedOK' /\ RoomKept' /\ OneCounted' /\ OneWorkerPerStage'
  BY <1>8, <1>9, <1>10, NobodyCounted
<1> QED BY <1>1, <1>2, <1>5, <1>6, <1>7, <1>10, <1>11 DEF IInv, Types


\* The handler fails.
LEMMA HandlerFailsKeeps ==
  ASSUME IInv, NEW c \in Call, HandlerFails(c)
  PROVE  IInv'
<1>1. SessionsTyped' /\ LogTyped' /\ HistoryTyped'
  BY DEF HandlerFails, outside, ledger, IInv, Types, SessionsTyped, LogTyped, HistoryTyped
<1>2. CallsTyped'
  BY IdleCall DEF HandlerFails, IInv, Types, CallsTyped
<1>4. \A d \in Call : calls[d].at = "recording" \/ calls'[d].at = "recording" => calls'[d] = calls[d]
  BY DEF HandlerFails, Idle
<1>5. ChainTyped' /\ LinkOK'
  BY ChainStays DEF HandlerFails, Idle
<1>6. CallsOK'
  <2>1. \A d \in Call : calls'[d] \in {calls[d], Idle}
    BY DEF HandlerFails
  <2> QED BY <2>1, IdleCall DEF IInv, CallsOK
<1>7. LogOK'
  BY DEF HandlerFails, ledger, IInv, LogOK
<1>8. Counted' \subseteq Counted
  BY DEF HandlerFails, outside, ledger, Live, Counted
<1>9. \A d \in Call : calls'[d].kind \in Moves \cup {"self"} =>
           /\ calls'[d].kind = calls[d].kind /\ calls'[d].stage = calls[d].stage
           /\ calls'[d].prov = calls[d].prov /\ calls'[d].blind = calls[d].blind
           /\ calls[d].kind # "spawn" => calls'[d].w = calls[d].w
  BY GateAssumption DEF HandlerFails, outside, ledger, Event, Idle, Live, Creates, DeadStatus, Moving,
       Replied, IInv, Types, SessionsTyped, LogTyped, HistoryTyped, CallsTyped, CallType, Tools, Kind,
       CallsOK, CallOK, Moves
<1>10. UNCHANGED proj
  BY DEF HandlerFails, ledger
<1>11. PlacedOK' /\ RoomKept' /\ OneCounted' /\ OneWorkerPerStage'
  BY <1>8, <1>9, <1>10, NobodyCounted
<1> QED BY <1>1, <1>2, <1>5, <1>6, <1>7, <1>10, <1>11 DEF IInv, Types


\* A call kills its worker.
LEMMA KillKeeps ==
  ASSUME IInv, NEW c \in Call, Kill(c)
  PROVE  IInv'
<1>1. SessionsTyped' /\ LogTyped' /\ HistoryTyped'
  BY GateAssumption DEF Kill, outside, ledger, Event, Idle, Live, Creates, DeadStatus, Moving, Replied,
       IInv, Types, SessionsTyped, LogTyped, HistoryTyped, CallsTyped, CallType
<1>2. CallsTyped'
  BY DEF Kill, IInv, Types, CallsTyped, CallType
<1>3. calls[c].w \in Session /\ (chain' = chain \/ chain' = Append(chain, LifeRow("retire", calls[c].w)))
  BY DEF Kill, DeadStatus, IInv, Types, CallsTyped, CallType, CallsOK, CallOK
<1>4. \A d \in Call : calls[d].at = "recording" \/ calls'[d].at = "recording" => calls'[d] = calls[d]
  BY DEF Kill
<1>5. ChainTyped' /\ LinkOK'
  BY <1>3, <1>4, LifeQueued, ChainStays
<1>6. CallsOK'
  BY DEF Kill, IInv, CallsOK, CallOK
<1>7. LogOK'
  BY DEF Kill, ledger, IInv, LogOK
<1>8. Counted' \subseteq Counted
  BY DEF Kill, ledger, Live, Counted
<1>9. \A d \in Call : calls'[d].kind \in Moves \cup {"self"} =>
           /\ calls'[d].kind = calls[d].kind /\ calls'[d].stage = calls[d].stage
           /\ calls'[d].prov = calls[d].prov /\ calls'[d].blind = calls[d].blind
           /\ calls[d].kind # "spawn" => calls'[d].w = calls[d].w
  BY DEF Kill
<1>10. UNCHANGED proj
  BY DEF Kill, ledger
<1>11. PlacedOK' /\ RoomKept' /\ OneCounted' /\ OneWorkerPerStage'
  BY <1>8, <1>9, <1>10, NobodyCounted
<1> QED BY <1>1, <1>2, <1>5, <1>6, <1>7, <1>10, <1>11 DEF IInv, Types


\* A row nobody wants is dropped.
LEMMA SkipKeeps ==
  ASSUME IInv, Skip
  PROVE  IInv'
<1>3. Head(chain) \in RowType /\ Head(chain).by \in Call \cup {NoCall} /\ Head(chain).w \in Session
  <2>1. Head(chain) \in RowType
    BY DEF Skip, IInv, Types, ChainTyped
  <2> QED BY <2>1 DEF RowType
<1>1. SessionsTyped' /\ LogTyped' /\ HistoryTyped'
  BY DEF Skip, outside, ledger, IInv, Types, SessionsTyped, LogTyped, HistoryTyped
<1>2. CallsTyped'
  BY IdleCall, GateAssumption DEF Skip, ledger, Replied, IInv, Types, CallsTyped, CallType
<1>4. \A d \in Call : IF d = Head(chain).by THEN calls'[d].at = "idle" ELSE calls'[d] = calls[d]
  BY GateAssumption DEF Skip, Idle, Replied, IInv, Types, CallsTyped
<1>5. ChainTyped' /\ LinkOK'
  BY <1>4, HeadReplied DEF Skip
<1>6. CallsOK'
  <2>1. \A d \in Call : calls'[d] \in {calls[d], Idle}
    BY DEF Skip, Replied
  <2> QED BY <2>1, IdleCall DEF IInv, CallsOK
<1>7. LogOK'
  BY DEF Skip, ledger, IInv, LogOK
<1>8. Counted' \subseteq Counted
  BY DEF Skip, outside, ledger, Live, Counted
<1>9. \A d \in Call : calls'[d].kind \in Moves \cup {"self"} =>
           /\ calls'[d].kind = calls[d].kind /\ calls'[d].stage = calls[d].stage
           /\ calls'[d].prov = calls[d].prov /\ calls'[d].blind = calls[d].blind
           /\ calls[d].kind # "spawn" => calls'[d].w = calls[d].w
  BY <1>3, <1>4, GateAssumption DEF Skip, outside, ledger, Event, Idle, Live, Creates, DeadStatus,
       Moving, Replied, IInv, Types, SessionsTyped, LogTyped, HistoryTyped, CallsTyped, CallType, Tools,
       Kind, CallsOK, CallOK, Moves
<1>10. UNCHANGED proj
  BY DEF Skip, ledger
<1>11. PlacedOK' /\ RoomKept' /\ OneCounted' /\ OneWorkerPerStage'
  BY <1>8, <1>9, <1>10, NobodyCounted
<1> QED BY <1>1, <1>2, <1>5, <1>6, <1>7, <1>10, <1>11 DEF IInv, Types


\* A row is lost to a failed write.
LEMMA WriteFailsKeeps ==
  ASSUME IInv, WriteFails
  PROVE  IInv'
<1>3. Head(chain) \in RowType /\ Head(chain).by \in Call \cup {NoCall} /\ Head(chain).w \in Session
  <2>1. Head(chain) \in RowType
    BY DEF WriteFails, IInv, Types, ChainTyped
  <2> QED BY <2>1 DEF RowType
<1>1. SessionsTyped' /\ LogTyped' /\ HistoryTyped'
  BY <1>3, GateAssumption DEF WriteFails, outside, ledger, Event, Idle, Live, Creates, DeadStatus,
       Moving, Replied, IInv, Types, SessionsTyped, LogTyped, HistoryTyped, CallsTyped, CallType
<1>2. CallsTyped'
  BY IdleCall, GateAssumption DEF WriteFails, ledger, Replied, IInv, Types, CallsTyped, CallType
<1>4. \A d \in Call : IF d = Head(chain).by THEN calls'[d].at = "idle" ELSE calls'[d] = calls[d]
  BY GateAssumption DEF WriteFails, Idle, Replied, IInv, Types, CallsTyped
<1>5. ChainTyped' /\ LinkOK'
  BY <1>4, HeadReplied DEF WriteFails
<1>6. CallsOK'
  <2>1. \A d \in Call : calls'[d] \in {calls[d], Idle}
    BY DEF WriteFails, Replied
  <2> QED BY <2>1, IdleCall DEF IInv, CallsOK
<1>7. LogOK'
  BY DEF WriteFails, IInv, LogOK
<1>8. Counted' \subseteq Counted
  BY DEF WriteFails, outside, Live, Counted
<1>9. \A d \in Call : calls'[d].kind \in Moves \cup {"self"} =>
           /\ calls'[d].kind = calls[d].kind /\ calls'[d].stage = calls[d].stage
           /\ calls'[d].prov = calls[d].prov /\ calls'[d].blind = calls[d].blind
           /\ calls[d].kind # "spawn" => calls'[d].w = calls[d].w
  BY <1>3, <1>4, GateAssumption DEF WriteFails, outside, ledger, Event, Idle, Live, Creates, DeadStatus,
       Moving, Replied, IInv, Types, SessionsTyped, LogTyped, HistoryTyped, CallsTyped, CallType, Tools,
       Kind, CallsOK, CallOK, Moves
<1>10. UNCHANGED proj
  BY DEF WriteFails
<1>11. PlacedOK' /\ RoomKept' /\ OneCounted' /\ OneWorkerPerStage'
  BY <1>8, <1>9, <1>10, NobodyCounted
<1> QED BY <1>1, <1>2, <1>5, <1>6, <1>7, <1>10, <1>11 DEF IInv, Types

-----------------------------------------------------------------------------
(* The check. *)

\* The call that a check leaves in its slot.
LEMMA Checked ==
  ASSUME Types, NEW c \in Call, NEW ask \in Asks, Check(c, ask)
  PROVE  /\ calls' = [calls EXCEPT ![c] = calls'[c]]
         /\ calls'[c] \in CallType /\ CallOK(calls'[c]) /\ Placed(calls'[c])
         /\ calls'[c].at = "allowed"
         /\ calls'[c].kind = "spawn" => \A n \in calls'[c].prov : HasRoom(calls'[c].stage, n)
         /\ calls'[c].kind = "transition" => HasRoom(calls'[c].stage, calls'[c].w)
         /\ calls'[c].kind \in Moves => (calls'[c].blind <=> \E d \in Call : Moving(d))
<1> DEFINE kind == Decision(ask)
           goes == IF kind = "refused" THEN "none" ELSE kind
           blind == goes \in {"spawn", "transition"} /\ \E d \in Call : Moving(d)
           prov == IF goes \in {"spawn", "transition"} THEN {n[2] : n \in ask.prov} ELSE {}
           k == [at |-> "allowed", tool |-> ask.tool, kind |-> goes, w |-> ask.w,
                 stage |-> Entered(ask, goes), prov |-> prov, blind |-> blind]
<1>1. calls' = [calls EXCEPT ![c] = k]
  BY DEF Check
<1>2. calls'[c] = k
  BY <1>1 DEF Types, CallsTyped
<1>3. goes \in Kind
  BY DecisionCounts DEF Kind
<1>4. Entered(ask, goes) \in Stage \cup {NoStage} /\ (goes \in {"spawn", "transition", "self"} => Entered(ask, goes) \in Stage)
  <2>1. goes \notin {"spawn", "transition", "self"} => Entered(ask, goes) = NoStage
    BY DEF Entered
  <2> QED BY <2>1, <1>3, DecisionCounts
<1>5. prov \in SUBSET Session /\ \A m, n \in prov : m = n
  BY AskType
<1>6. blind \in BOOLEAN
  OBVIOUS
<1>7. /\ goes = "spawn" => ask.tool = "spawn_instance" /\ (\A n \in prov : HasRoom(Entered(ask, goes), n))
                           /\ prov \subseteq Bound(proj)
      /\ goes = "transition" => ask.tool # "spawn_instance" /\ HasRoom(Entered(ask, goes), ask.w)
      /\ goes = "self" => ask.tool # "spawn_instance"
      /\ goes \in {"transition", "self"} => ask.w \in Bound(proj)
      /\ goes = "resume" => ask.tool = "spawn_instance"
  <2>1. goes = "spawn" => kind = "spawn"
    OBVIOUS
  <2>2. goes \in {"transition", "self", "resume"} => kind = goes
    OBVIOUS
  <2> HIDE DEF goes
  <2> QED BY <2>1, <2>2, DecisionCounts
<1> HIDE DEF goes, blind, prov
<1>8. /\ k.at = "allowed" /\ k.tool = ask.tool /\ k.kind = goes /\ k.w = ask.w
      /\ k.stage = Entered(ask, goes) /\ k.prov = prov /\ k.blind = blind
  OBVIOUS
<1>9. k \in CallType
  BY <1>3, <1>4, <1>5, <1>6, AskType DEF CallType
<1> HIDE DEF k
<1>10. CallOK(k)
  <2>1. k.w = NoSession => k.tool = "spawn_instance"
    <3>1. ask.tool # "spawn_instance" => ask.w \in Session
      BY AskType
    <3>2. NoSession \notin Session
      BY GateAssumption
    <3> QED BY <1>8, <3>1, <3>2
  <2>2. goes \notin Moves => prov = {}
    BY DEF prov, Moves
  <2> QED BY <1>4, <1>5, <1>7, <1>8, <2>1, <2>2 DEF CallOK, Moves
<1>11. Placed(k)
  BY <1>7, <1>8 DEF Placed
<1>12. k.kind \in Moves => (k.blind <=> \E d \in Call : Moving(d))
  BY <1>8 DEF blind, Moves
<1>13. /\ k.kind = "spawn" => \A n \in k.prov : HasRoom(k.stage, n)
       /\ k.kind = "transition" => HasRoom(k.stage, k.w)
  BY <1>7, <1>8
<1>14. k.at = "allowed"
  BY <1>8
<1> QED BY <1>1, <1>2, <1>9, <1>10, <1>11, <1>12, <1>13, <1>14

\* A call is checked.
LEMMA CheckKeeps ==
  ASSUME IInv, NEW c \in Call, NEW ask \in Asks, Check(c, ask)
  PROVE  IInv'
<1> DEFINE k == calls'[c]
<1>1. /\ calls' = [calls EXCEPT ![c] = k] /\ k \in CallType /\ CallOK(k) /\ Placed(k)
      /\ k.at = "allowed"
      /\ k.kind = "spawn" => \A n \in k.prov : HasRoom(k.stage, n)
      /\ k.kind = "transition" => HasRoom(k.stage, k.w)
      /\ k.kind \in Moves => (k.blind <=> \E d \in Call : Moving(d))
  BY Checked DEF IInv
<1> HIDE DEF k
<1>2. UNCHANGED <<session, conducted, lifecycle, chain, proj, file, torn, faults, glued, excused, gaps>>
      /\ calls[c].at = "idle"
  BY DEF Check, outside, ledger
<1>3. \A d \in Call : calls'[d] = IF d = c THEN k ELSE calls[d]
  BY <1>1 DEF IInv, Types, CallsTyped
<1>4. Types'
  <2>1. CallsTyped'
    BY <1>1 DEF IInv, Types, CallsTyped
  <2>2. ChainTyped'
    BY <1>2 DEF IInv, Types, ChainTyped, Staged
  <2>3. SessionsTyped' /\ LogTyped' /\ HistoryTyped' /\ Consistent(proj)'
    BY <1>2 DEF IInv, Types, SessionsTyped, LogTyped, HistoryTyped, Staged, Consistent
  <2> QED BY <2>1, <2>2, <2>3 DEF Types
<1>5. CallsOK'
  BY <1>1, <1>3 DEF IInv, CallsOK
<1>6. PlacedOK'
  BY <1>1, <1>2, <1>3 DEF IInv, PlacedOK, Placed, Bound
<1>7. LinkOK'
  <2>1. \A d \in Call : calls[d].at = "recording" \/ calls'[d].at = "recording" => calls'[d] = calls[d]
    BY <1>1, <1>2, <1>3
  <2> QED BY <1>2, <2>1, ChainStays
<1>8. LogOK'
  BY <1>2 DEF IInv, LogOK
<1>9. Counted' = Counted
  BY <1>2 DEF Counted, Bound, Live
<1>10. ~Moving(c)
  BY <1>2 DEF IInv, CallsOK, CallOK, Moving
<1>11. RoomKept'
  <2> SUFFICES ASSUME NEW d \in Call, Moving(d)', ~calls'[d].blind, calls'[d].stage \notin Many,
                      NEW x \in Counted, Fellow(calls[d], x)'
               PROVE  proj.stage[x] # calls'[d].stage
    BY <1>2, <1>9 DEF RoomKept
  <2>1. Fellow(calls'[d], x)
    BY <1>2 DEF Fellow, SameRun
  <2>2. CASE d # c
    BY <1>3, <2>1, <2>2 DEF IInv, RoomKept, Moving
  <2>3. CASE d = c
    <3>1. PICK n : HasRoom(k.stage, n) /\ SameRun(proj, n, x)
      <4>1. CASE k.kind = "spawn"
        <5>1. PICK n \in k.prov : SameRun(proj, x, n)
          BY <1>3, <2>1, <2>3, <4>1 DEF Fellow
        <5> QED BY <1>1, <4>1, <5>1 DEF SameRun
      <4>2. CASE k.kind = "transition"
        BY <1>1, <1>3, <2>1, <2>3, <4>2 DEF Fellow, SameRun
      <4> QED BY <1>3, <2>3, <4>1, <4>2 DEF Moving
    <3> QED BY <1>3, <2>3, <3>1 DEF HasRoom, LiveIn, Counted
  <2> QED BY <2>2, <2>3
<1>12. OneCounted'
  <2> SUFFICES ASSUME NEW d \in Call, NEW e \in Call, Moving(d)', Moving(e)', ~calls'[d].blind, ~calls'[e].blind
               PROVE  d = e
    BY DEF OneCounted
  <2>1. ASSUME NEW f \in Call, Moving(f)', ~calls'[f].blind, f # c PROVE Moving(f) /\ ~calls[f].blind
    BY <1>3, <2>1 DEF Moving
  <2>2. Moving(c)' /\ ~calls'[c].blind => \A f \in Call : ~Moving(f)
    BY <1>1, <1>3 DEF Moving, Moves
  <2> QED BY <2>1, <2>2 DEF IInv, OneCounted
<1>13. OneWorkerPerStage'
  BY <1>2 DEF IInv, OneWorkerPerStage, Bound, Live, SameRun
<1> QED BY <1>4, <1>5, <1>6, <1>7, <1>8, <1>11, <1>12, <1>13 DEF IInv

-----------------------------------------------------------------------------
(* The rows. *)

\* A call returns and its row joins the chain.
LEMMA HandlerReturnsKeeps ==
  ASSUME IInv, NEW c \in Call, HandlerReturns(c)
  PROVE  IInv'
<1>1. UNCHANGED <<session, conducted, lifecycle, proj, file, torn, faults, glued, excused, gaps>> /\ Returned(c)
  BY DEF HandlerReturns, outside, ledger
<1>2. calls \in [Call -> CallType] /\ calls[c] \in CallType /\ CallOK(calls[c])
  BY DEF IInv, Types, CallsTyped, CallsOK
<1>3. calls[c].at \in {"allowed", "done"}
  BY <1>1 DEF Returned
<1>4. SessionsTyped' /\ LogTyped' /\ HistoryTyped' /\ Consistent(proj)'
  BY <1>1 DEF IInv, Types, SessionsTyped, LogTyped, HistoryTyped, Staged, Consistent
<1>5. LogOK'
  BY <1>1 DEF IInv, LogOK
<1>6. Counted' = Counted /\ Bound(proj)' = Bound(proj)
  BY <1>1 DEF Counted, Bound, Live
<1>7. CASE RowKind(c) = {}
  <2>1. calls' = [calls EXCEPT ![c] = Idle] /\ UNCHANGED chain
    BY <1>7 DEF HandlerReturns
  <2>2. \A d \in Call : calls'[d] = IF d = c THEN Idle ELSE calls[d]
    BY <1>2, <2>1
  <2>3. CallsTyped' /\ CallsOK'
    BY <1>2, <2>1, <2>2, IdleCall DEF CallsTyped, CallsOK, IInv
  <2>4. ChainTyped' /\ LinkOK'
    BY <1>3, <2>1, <2>2, ChainStays DEF Idle
  <2>5. PlacedOK' /\ RoomKept' /\ OneCounted' /\ OneWorkerPerStage'
    BY <1>1, <1>6, <2>2, NobodyCounted DEF Idle, Moves
  <2> QED BY <1>4, <1>5, <2>3, <2>4, <2>5 DEF IInv, Types
<1>8. CASE RowKind(c) # {}
  <2> DEFINE r == Row(CHOOSE k \in RowKind(c) : TRUE, calls[c].w, calls[c].stage, calls[c].prov, c)
  <2>1. calls' = [calls EXCEPT ![c].at = "recording"] /\ chain' = Append(chain, r)
    BY <1>8 DEF HandlerReturns
  <2>2. /\ calls[c].kind \in Moves \cup {"self"}
        /\ RowKind(c) = {IF calls[c].kind = "spawn" THEN "spawn" ELSE "transition"}
    BY <1>8 DEF RowKind, Moves
  <2>3. /\ r.kind = IF calls[c].kind = "spawn" THEN "spawn" ELSE "transition"
        /\ r.w = calls[c].w /\ r.stage = calls[c].stage /\ r.prov = calls[c].prov /\ r.by = c
        /\ r = Row(r.kind, calls[c].w, calls[c].stage, calls[c].prov, c)
    BY <2>2 DEF Row
  <2> HIDE DEF r
  <2>4. calls[c].w \in Session
    BY <1>1, <1>2, <1>3 DEF CallType, CallOK, Returned
  <2>5. calls[c].stage \in Stage /\ calls[c].prov \in SUBSET Session
    BY <1>2, <2>2 DEF CallType, CallOK
  <2>6. r \in RowType /\ r.kind \in Moves /\ r.stage \in Stage
    <3>1. r.kind \in {"spawn", "transition"}
      BY <2>3
    <3>2. Row(r.kind, calls[c].w, calls[c].stage, calls[c].prov, c) \in RowType
      BY <2>4, <2>5, <3>1 DEF Row, RowType, RowKinds
    <3> QED BY <2>3, <2>5, <3>1, <3>2 DEF Moves
  <2>7. \A d \in Call : /\ d # c => calls'[d] = calls[d]
                        /\ calls'[d].w = calls[d].w /\ calls'[d].stage = calls[d].stage
                        /\ calls'[d].prov = calls[d].prov /\ calls'[d].kind = calls[d].kind
                        /\ calls'[d].tool = calls[d].tool /\ calls'[d].blind = calls[d].blind
    BY <1>2, <2>1 DEF CallType
  <2>8. calls'[c].at = "recording"
    BY <1>2, <2>1 DEF CallType
  <2>9. CallsTyped'
    BY <1>2, <2>1 DEF CallsTyped, CallType
  <2>10. CallsOK'
    <3>1. CallOK(calls[c])'
      BY <1>2, <2>2, <2>4, <2>7, <2>8, GateAssumption DEF CallOK, Moves
    <3> QED BY <2>7, <3>1 DEF IInv, CallsOK
  <2>11. chain \in Seq(RowType)
    BY DEF IInv, Types, ChainTyped
  <2>12. /\ chain' \in Seq(RowType)
         /\ \A i \in 1..Len(chain') : (i \in 1..Len(chain) /\ chain'[i] = chain[i]) \/ (i = Len(chain) + 1 /\ chain'[i] = r)
         /\ \A i \in 1..Len(chain) : i \in 1..Len(chain') /\ chain'[i] = chain[i]
         /\ Len(chain) + 1 \in 1..Len(chain') /\ chain'[Len(chain) + 1] = r
    BY <2>1, <2>6, <2>11, Queued
  <2>13. ChainTyped'
    BY <2>6, <2>12 DEF IInv, Types, ChainTyped, Staged
  <2>14. \A i \in 1..Len(chain) : chain[i].by \in Call \cup {NoCall} /\ chain[i].by # c
    <3>1. \A i \in 1..Len(chain) : chain[i].by \in Call \cup {NoCall}
      BY <2>11, ChainRows
    <3>2. NoCall # c
      BY GateAssumption
    <3> QED BY <1>3, <3>1, <3>2 DEF IInv, LinkOK
  <2>15. LinkOK'
    <3>1. ASSUME NEW i \in 1..Len(chain')
          PROVE  /\ chain'[i].kind \in Moves <=> chain'[i].by # NoCall
                 /\ chain'[i].by # NoCall =>
                      /\ calls'[chain'[i].by].at = "recording"
                      /\ calls'[chain'[i].by].w = chain'[i].w
                      /\ calls'[chain'[i].by].stage = chain'[i].stage
                      /\ calls'[chain'[i].by].prov = chain'[i].prov
                      /\ calls'[chain'[i].by].kind = "spawn" <=> chain'[i].kind = "spawn"
                      /\ calls'[chain'[i].by].kind \in Moves \cup {"self"}
      <4>1. CASE i \in 1..Len(chain) /\ chain'[i] = chain[i]
        BY <2>7, <2>14, <4>1 DEF IInv, LinkOK
      <4>2. CASE chain'[i] = r
        BY <2>2, <2>3, <2>6, <2>7, <2>8, <4>2, GateAssumption
      <4> QED BY <2>12, <4>1, <4>2
    <3>2. ASSUME NEW d \in Call, calls'[d].at = "recording"
          PROVE \E i \in 1..Len(chain') : chain'[i].by = d
      <4>1. CASE d = c
        BY <2>3, <2>12, <4>1
      <4>2. CASE d # c
        <5>1. PICK i \in 1..Len(chain) : chain[i].by = d
          BY <2>7, <3>2, <4>2 DEF IInv, LinkOK
        <5> QED BY <2>12, <5>1
      <4> QED BY <4>1, <4>2
    <3>3. ASSUME NEW i \in 1..Len(chain'), NEW j \in 1..Len(chain'), chain'[i].by = chain'[j].by
          PROVE  i = j \/ chain'[i].by = NoCall
      BY <2>3, <2>12, <2>14, <3>3 DEF IInv, LinkOK
    <3> QED BY <3>1, <3>2, <3>3 DEF LinkOK
  <2>16. PlacedOK' /\ RoomKept' /\ OneCounted' /\ OneWorkerPerStage'
    BY <1>1, <1>6, <2>7, NobodyCounted
  <2> QED BY <1>4, <1>5, <2>9, <2>10, <2>13, <2>15, <2>16 DEF IInv, Types
<1> QED BY <1>7, <1>8

\* What the first row of the chain is, and its call, if it moves a worker.
LEMMA HeadRow ==
  ASSUME IInv, chain # <<>>, NEW row, row = Head(chain)
  PROVE  /\ row \in RowType /\ Foldable(row) /\ Stored(row) \in StoredRow
         /\ row.kind \in Moves => row.by \in Call
         /\ row.kind \notin Moves => row.by = NoCall
         /\ row.by \in Call =>
              /\ calls[row.by].w = row.w /\ calls[row.by].stage = row.stage /\ calls[row.by].prov = row.prov
              /\ calls[row.by].kind = "spawn" <=> row.kind = "spawn"
              /\ calls[row.by].kind \in Moves \cup {"self"}
              /\ \A m, n \in row.prov : m = n
              /\ calls[row.by].kind = "self" => row.prov = {}
              /\ row.kind = "spawn" => row.prov \subseteq Bound(proj)
              /\ row.kind = "transition" => row.w \in Bound(proj)
<1>1. chain \in Seq(RowType)
  BY DEF IInv, Types, ChainTyped
<1>2. row \in RowType /\ row = chain[1] /\ 1 \in 1..Len(chain)
  BY <1>1, Taken
<1>3. row.kind \in Moves => row.stage \in Stage
  BY <1>2 DEF IInv, Types, ChainTyped, Staged
<1>4. /\ row.kind \in RowKinds /\ row.w \in Session /\ row.prov \in SUBSET Session
      /\ row.by \in Call \cup {NoCall} /\ row.stage \in Stage \cup {NoStage}
  BY <1>2 DEF RowType
<1>5. /\ row.kind \in Moves <=> row.by # NoCall
      /\ row.by # NoCall =>
           /\ calls[row.by].w = row.w /\ calls[row.by].stage = row.stage /\ calls[row.by].prov = row.prov
           /\ calls[row.by].kind = "spawn" <=> row.kind = "spawn"
           /\ calls[row.by].kind \in Moves \cup {"self"}
  BY <1>2 DEF IInv, LinkOK
<1>6. row.by \in Call => CallOK(calls[row.by]) /\ Placed(calls[row.by])
  BY DEF IInv, CallsOK, PlacedOK
<1>7. Stored(row) \in StoredRow
  BY <1>4 DEF Stored, StoredRow
<1>8. Foldable(row)
  BY <1>3, <1>4 DEF Foldable
<1>9. row.by \in Call => row.by # NoCall
  BY GateAssumption
<1>10. row.by \in Call =>
         /\ \A m, n \in row.prov : m = n
         /\ calls[row.by].kind = "self" => row.prov = {}
  BY <1>5, <1>6, <1>9 DEF CallOK, Moves
<1>11. row.by \in Call =>
         /\ row.kind = "spawn" => row.prov \subseteq Bound(proj)
         /\ row.kind = "transition" => row.w \in Bound(proj)
  BY <1>5, <1>6, <1>9 DEF Placed, Moves
<1> QED BY <1>2, <1>4, <1>5, <1>7, <1>8, <1>9, <1>10, <1>11

\* Outside those the row smuggles in, it makes nobody's run one whom the check did not see there.
LEMMA RunsKept ==
  ASSUME IInv, NEW row, row \in RowType, row.kind \in Moves, Wanted(row),
         \A m, n \in row.prov : m = n,
         row.kind = "transition" => row.w \in Bound(proj),
         row.kind = "spawn" => row.prov \subseteq Bound(proj),
         NEW p, p.run = Joined(proj.run, row.w, row.prov)
  PROVE  /\ \A a, b \in Bound(proj) \ Smuggled(row) : SameRun(p, a, b) => SameRun(proj, a, b)
         /\ \A b \in Bound(proj) \ Smuggled(row) :
              row.w \notin Smuggled(row) /\ SameRun(p, row.w, b) =>
                IF row.kind = "transition" THEN SameRun(proj, b, row.w) ELSE \E n \in row.prov : SameRun(proj, b, n)
         /\ Smuggled(row) \subseteq Session
<1> DEFINE run == proj.run
           w == row.w
           fellows(x) == {y \in Bound(proj) : SameRun(proj, y, x)}
<1>1. run \in [Session -> Session] /\ w \in Session /\ row.prov \in SUBSET Session /\ Bound(proj) \subseteq Session
  BY DEF IInv, Types, Consistent, ProjType, RowType, Bound
<1>2. \A a, b \in Session : SameRun(p, a, b) <=>
         SameRun(proj, a, b) \/ \E n \in row.prov : {run[a], run[b]} \subseteq {run[w], run[n]}
  BY <1>1, JoinedRuns DEF SameRun
<1>3. CASE row.kind = "transition"
  <2>1. Smuggled(row) = UNION {fellows(n) : n \in {m \in row.prov : ~SameRun(proj, m, w)}}
    BY <1>3 DEF Smuggled
  <2>2. ASSUME NEW a \in Bound(proj), NEW b \in Bound(proj), a \notin Smuggled(row),
               b \notin Smuggled(row), SameRun(p, a, b)
        PROVE  SameRun(proj, a, b)
    <3> SUFFICES ASSUME ~SameRun(proj, a, b) PROVE FALSE
      OBVIOUS
    <3>1. PICK n \in row.prov : {run[a], run[b]} \subseteq {run[w], run[n]}
      BY <1>1, <1>2, <2>2
    <3>2. ~SameRun(proj, n, w) /\ (SameRun(proj, a, n) \/ SameRun(proj, b, n))
      BY <3>1 DEF SameRun
    <3>3. fellows(n) \subseteq Smuggled(row)
      BY <2>1, <3>2
    <3> QED BY <2>2, <3>2, <3>3
  <2>3. Smuggled(row) \subseteq Session
    BY <1>1, <2>1
  <2> QED BY <1>3, <2>2, <2>3 DEF SameRun
<1>4. CASE row.kind = "spawn"
  <2>1. w \notin Bound(proj)
    BY <1>4 DEF Wanted
  <2>2. Smuggled(row) = IF fellows(w) # {} THEN fellows(w) \cup {w} ELSE {}
    BY <1>4 DEF Smuggled
  <2>3. \A b \in Bound(proj) \ Smuggled(row) : ~SameRun(proj, b, w)
    BY <2>2
  <2>4. ASSUME NEW a \in Bound(proj) \ Smuggled(row), NEW b \in Bound(proj) \ Smuggled(row),
               SameRun(p, a, b)
        PROVE  SameRun(proj, a, b)
    <3>1. run[a] # run[w] /\ run[b] # run[w]
      BY <2>3 DEF SameRun
    <3> QED BY <1>1, <1>2, <2>4, <3>1 DEF SameRun
  <2>5. ASSUME NEW b \in Bound(proj) \ Smuggled(row), SameRun(p, w, b)
        PROVE  \E n \in row.prov : SameRun(proj, b, n)
    <3>1. run[b] # run[w]
      BY <2>3 DEF SameRun
    <3>2. PICK n \in row.prov : {run[w], run[b]} \subseteq {run[w], run[n]}
      BY <1>1, <1>2, <2>5, <3>1 DEF SameRun
    <3> QED BY <3>1, <3>2 DEF SameRun
  <2>6. Smuggled(row) \subseteq Session
    BY <1>1, <2>2
  <2> QED BY <1>4, <2>4, <2>5, <2>6
<1> QED BY <1>3, <1>4 DEF Moves

\* A row that moves a counted worker.
LEMMA MoveWritten ==
  ASSUME IInv, Write, NEW row, row = Head(chain), row.by \in Call, calls[row.by].kind \in Moves
  PROVE  PlacedOK' /\ RoomKept' /\ OneCounted' /\ OneWorkerPerStage'
<1> DEFINE w == row.w
           mine == calls[row.by]
<1>1. /\ chain # <<>> /\ Wanted(row) /\ proj' = Applied(proj, row) /\ session' = session
      /\ excused' = Smuggled(row) \cup Excused(row) /\ calls' = Outrun(row)
  BY DEF Write, outside
<1>2. /\ row \in RowType /\ Foldable(row) /\ row.kind \in Moves
      /\ mine.w = w /\ mine.stage = row.stage /\ mine.prov = row.prov /\ (mine.kind = "spawn" <=> row.kind = "spawn")
      /\ \A m, n \in row.prov : m = n
      /\ row.kind = "transition" => w \in Bound(proj)
      /\ row.kind = "spawn" => row.prov \subseteq Bound(proj)
  BY <1>1, HeadRow, GateAssumption
<1>3. w \in Session /\ row.stage \in Stage /\ Consistent(proj)
  BY <1>2 DEF Foldable, IInv, Types
<1>4. /\ proj'.stage = [proj.stage EXCEPT ![w] = row.stage]
      /\ proj'.run = Joined(proj.run, w, row.prov)
  <2>1. Foldable(row) /\ Consistent(proj)
    BY <1>2, <1>3
  <2>2. CASE row.kind = "spawn"
    <3>1. /\ Applied(proj, row).stage = [proj.stage EXCEPT ![row.w] = row.stage]
          /\ Applied(proj, row).run = Joined(proj.run, row.w, row.prov)
      BY <2>1, <2>2, AppliedSpawn
    <3> QED BY <1>1, <3>1
  <2>3. CASE row.kind = "transition"
    <3>1. proj.stage[w] # NoStage
      BY <1>2, <2>3 DEF Bound
    <3>2. /\ Applied(proj, row).stage = [proj.stage EXCEPT ![row.w] = row.stage]
          /\ Applied(proj, row).run = Joined(proj.run, row.w, row.prov)
      BY <2>1, <2>3, <3>1, AppliedTransition
    <3> QED BY <1>1, <3>2
  <2> QED BY <1>2, <2>2, <2>3 DEF Moves
<1>5. Bound(proj)' = Bound(proj) \cup {w}
  BY <1>3, <1>4, GateAssumption DEF Bound, Consistent, ProjType
<1>6. \A x \in Session : proj'.stage[x] = IF x = w THEN row.stage ELSE proj.stage[x]
  BY <1>3, <1>4 DEF Consistent, ProjType
<1>7. /\ \A a, b \in Bound(proj) \ Smuggled(row) : SameRun(proj', a, b) => SameRun(proj, a, b)
      /\ \A b \in Bound(proj) \ Smuggled(row) :
           w \notin Smuggled(row) /\ SameRun(proj', w, b) =>
             IF row.kind = "transition" THEN SameRun(proj, b, w) ELSE \E n \in row.prov : SameRun(proj, b, n)
  BY <1>1, <1>2, <1>4, RunsKept
<1>8. Excused(row) = IF mine.blind THEN excused \cup {w} ELSE excused \ {w}
  BY <1>2 DEF Excused, Moves
<1>9. \A x \in Counted' : /\ x \in Session /\ x \notin Smuggled(row)
                          /\ x # w => x \in Counted /\ x \in Bound(proj)
                          /\ x = w => ~mine.blind
  BY <1>1, <1>5, <1>8 DEF Counted, Bound, Live
<1>10. calls \in [Call -> CallType]
  BY DEF IInv, Types, CallsTyped
<1>11. \A d \in Call :
         /\ d = row.by => calls'[d].kind = "none"
         /\ d # row.by => /\ calls'[d].kind = calls[d].kind /\ calls'[d].w = calls[d].w
                          /\ calls'[d].stage = calls[d].stage /\ calls'[d].prov = calls[d].prov
                          /\ calls'[d].blind <=> calls[d].blind \/ (Moving(d) /\ Smuggled(row) # {})
  <2>1. row.by # NoCall
    BY GateAssumption
  <2>2. \A d \in Call : Replied(row)[d] = IF d = row.by THEN Idle ELSE calls[d]
    BY <1>10, <2>1 DEF Replied
  <2>3. \A d \in Call : calls'[d] = [Replied(row)[d] EXCEPT !.blind = @ \/ (Moving(d) /\ d # row.by /\ Smuggled(row) # {})]
    BY <1>1 DEF Outrun
  <2>4. \A d \in Call : Replied(row)[d] \in CallType
    BY <1>10, <2>2, IdleCall
  <2>5. \A d \in Call :
          /\ calls'[d].kind = Replied(row)[d].kind /\ calls'[d].w = Replied(row)[d].w
          /\ calls'[d].stage = Replied(row)[d].stage /\ calls'[d].prov = Replied(row)[d].prov
          /\ calls'[d].blind <=> Replied(row)[d].blind \/ (Moving(d) /\ d # row.by /\ Smuggled(row) # {})
    <3> TAKE d \in Call
    <3> DEFINE r == Replied(row)[d]
               more == Moving(d) /\ d # row.by /\ Smuggled(row) # {}
    <3>1. calls'[d] = [r EXCEPT !.blind = r.blind \/ more] /\ r \in CallType
      BY <2>3, <2>4
    <3> HIDE DEF r, more
    <3>2. calls'[d].kind = r.kind /\ calls'[d].w = r.w /\ calls'[d].stage = r.stage /\ calls'[d].prov = r.prov
      BY <3>1 DEF CallType
    <3>3. calls'[d].blind <=> r.blind \/ more
      BY <3>1 DEF CallType
    <3> QED BY <3>2, <3>3 DEF r, more
  <2>6. Idle.kind = "none"
    BY DEF Idle
  <2> QED BY <2>2, <2>5, <2>6
\* The room that the row's call found is still there.
<1>12. ASSUME NEW b \in Counted', b # w, w \in Counted', SameRun(proj', w, b), row.stage \notin Many
       PROVE  proj'.stage[b] # row.stage
  <2>1. ~mine.blind /\ b \in Counted /\ b \in Bound(proj) \ Smuggled(row) /\ w \notin Smuggled(row)
    BY <1>9, <1>12
  <2>2. IF row.kind = "transition" THEN SameRun(proj, b, w) ELSE \E n \in row.prov : SameRun(proj, b, n)
    BY <1>7, <1>12, <2>1
  <2>3. Fellow(mine, b)
    BY <1>2, <2>2 DEF Fellow, Moves
  <2>4. proj.stage[b] # row.stage
    BY <1>2, <1>12, <2>1, <2>3 DEF IInv, RoomKept, Moving, Moves
  <2> QED BY <1>6, <1>9, <1>12, <2>4
<1>13. OneWorkerPerStage'
  <2> SUFFICES ASSUME NEW a \in Counted', NEW b \in Counted', a # b, SameRun(proj', a, b),
                      proj'.stage[a] = proj'.stage[b], proj'.stage[a] \notin Many
               PROVE  FALSE
    BY DEF OneWorkerPerStage, Counted, SameRun
  <2>1. CASE a # w /\ b # w
    <3>1. a \in Counted /\ b \in Counted /\ SameRun(proj, a, b)
      BY <1>7, <1>9, <2>1
    <3> QED BY <1>6, <1>9, <2>1, <3>1 DEF IInv, OneWorkerPerStage, Counted
  <2>2. CASE a = w
    BY <1>6, <1>9, <1>12, <2>2
  <2>3. CASE b = w
    <3>1. SameRun(proj', w, a)
      BY <2>3 DEF SameRun
    <3> QED BY <1>6, <1>9, <1>12, <2>3, <3>1
  <2> QED BY <2>1, <2>2, <2>3
<1>14. PlacedOK'
  <2> SUFFICES ASSUME NEW d \in Call PROVE Placed(calls[d])'
    BY DEF PlacedOK
  <2>1. Placed(calls[d])
    BY DEF IInv, PlacedOK
  <2> QED BY <1>5, <1>11, <2>1 DEF Placed
<1>15. OneCounted'
  BY <1>11 DEF IInv, OneCounted, Moving
<1>16. RoomKept'
  <2> SUFFICES ASSUME NEW d \in Call, Moving(d)', ~calls'[d].blind, calls'[d].stage \notin Many,
                      NEW x \in Counted', Fellow(calls[d], x)'
               PROVE  proj'.stage[x] # calls'[d].stage
    BY DEF RoomKept
  <2>1. d # row.by /\ Moving(d) /\ ~calls[d].blind /\ Smuggled(row) = {} /\ calls'[d].stage = calls[d].stage
    BY <1>11 DEF Moving
  <2>2. Moving(row.by)
    BY DEF Moving, Moves
  <2>3. x # w
    BY <1>9, <2>1, <2>2 DEF IInv, OneCounted
  <2>4. x \in Counted /\ x \in Bound(proj)
    BY <1>9, <2>3
  <2>5. calls'[d].kind = calls[d].kind /\ calls'[d].w = calls[d].w /\ calls'[d].prov = calls[d].prov
    BY <1>11, <2>1
  <2>6. Placed(calls[d])
    BY DEF IInv, PlacedOK
  <2>7. Fellow(calls[d], x)
    <3>1. CASE calls[d].kind = "transition"
      <4>1. SameRun(proj', x, calls[d].w) /\ calls[d].w \in Bound(proj)
        BY <2>5, <2>6, <3>1 DEF Fellow, Placed
      <4> QED BY <1>7, <2>1, <2>4, <3>1, <4>1 DEF Fellow
    <3>2. CASE calls[d].kind = "spawn"
      <4>1. PICK n \in calls[d].prov : SameRun(proj', x, n)
        BY <2>5, <3>2 DEF Fellow
      <4>2. n \in Bound(proj)
        BY <2>6, <3>2 DEF Placed
      <4> QED BY <1>7, <2>1, <2>4, <3>2, <4>1, <4>2 DEF Fellow
    <3> QED BY <2>1, <3>1, <3>2 DEF Moving
  <2>8. proj.stage[x] # calls[d].stage
    BY <2>1, <2>4, <2>7 DEF IInv, RoomKept
  <2> QED BY <1>6, <1>9, <2>1, <2>3, <2>8
<1> QED BY <1>13, <1>14, <1>15, <1>16

\* A row that moves nobody, or whose worker is in the stage by a declared loop.
LEMMA LoopWritten ==
  ASSUME IInv, Write, NEW row, row = Head(chain), row.by \in Call => calls[row.by].kind = "self"
  PROVE  PlacedOK' /\ RoomKept' /\ OneCounted' /\ OneWorkerPerStage'
<1>1. /\ chain # <<>> /\ proj' = Applied(proj, row) /\ session' = session
      /\ excused' = Smuggled(row) \cup Excused(row) /\ calls' = Outrun(row)
  BY DEF Write, outside
<1>2. /\ row \in RowType /\ Foldable(row) /\ row.by \in Call \cup {NoCall}
      /\ row.by \in Call => row.kind = "transition" /\ row.prov = {} /\ row.w \in Bound(proj)
      /\ row.by \notin Call => row.kind \notin Moves
  <2>1. row \in RowType /\ Foldable(row) /\ row.by \in Call \cup {NoCall}
    BY <1>1, HeadRow DEF RowType
  <2>2. row.by \in Call =>
          /\ (calls[row.by].kind = "spawn" <=> row.kind = "spawn") /\ row.kind \in Moves
          /\ calls[row.by].kind = "self" => row.prov = {}
          /\ row.kind = "transition" => row.w \in Bound(proj)
    BY <1>1, HeadRow, GateAssumption
  <2>3. row.by \notin Call => row.kind \notin Moves
    BY <1>1, HeadRow
  <2> QED BY <2>1, <2>2, <2>3 DEF Moves
<1>3. row.w \in Session /\ Consistent(proj) /\ (row.kind \in Moves => row.stage \in Stage)
  BY <1>2 DEF Foldable, IInv, Types
<1>4. Smuggled(row) = {}
  BY <1>2 DEF Smuggled, Moves
<1>5. calls \in [Call -> CallType]
  BY DEF IInv, Types, CallsTyped
<1>6. \A d \in Call :
        calls'[d] = [Replied(row)[d] EXCEPT !.blind = @ \/ (Moving(d) /\ d # row.by /\ Smuggled(row) # {})]
  BY <1>1 DEF Outrun
<1>7. \A d \in Call : Replied(row)[d] = IF d = row.by THEN Idle ELSE calls[d]
  BY <1>2, <1>5, GateAssumption DEF Replied
<1>8. \A d \in Call : Replied(row)[d] \in CallType
  BY <1>5, <1>7, IdleCall
<1>9. \A d \in Call : calls'[d] = IF d = row.by THEN Idle ELSE calls[d]
  <2> TAKE d \in Call
  <2> DEFINE r == Replied(row)[d]
             more == Moving(d) /\ d # row.by /\ Smuggled(row) # {}
  <2>1. calls'[d] = [r EXCEPT !.blind = r.blind \/ more] /\ r \in CallType /\ ~more
    BY <1>4, <1>6, <1>8
  <2> HIDE DEF r, more
  <2>2. r.blind \in BOOLEAN
    BY <2>1 DEF CallType
  <2>3. (r.blind \/ more) = r.blind
    BY <2>1, <2>2
  <2>4. calls'[d] = [r EXCEPT !.blind = r.blind]
    BY <2>1, <2>3
  <2>5. calls'[d] = r
    BY <2>1, <2>4 DEF CallType
  <2> QED BY <1>7, <2>5 DEF r
<1>10. /\ Bound(proj)' = Bound(proj) /\ proj'.run = proj.run
       /\ \A x \in Counted' : x \in Counted /\ proj'.stage[x] = proj.stage[x]
  <2>1. CASE row.by \notin Call
    <3>1. proj' = proj
      BY <1>1, <1>2, <2>1 DEF Applied, Moves
    <3>2. excused' = excused
      <4>1. Excused(row) = excused
        BY <1>2, <2>1 DEF Excused, Moves
      <4> QED BY <1>1, <1>4, <4>1
    <3> QED BY <1>1, <3>1, <3>2 DEF Counted, Bound, Live
  <2>2. CASE row.by \in Call
    <3>1. proj.stage[row.w] # NoStage /\ row.kind = "transition" /\ row.prov = {}
      BY <1>2, <2>2 DEF Bound
    <3>2. /\ Applied(proj, row).stage = [proj.stage EXCEPT ![row.w] = row.stage]
          /\ Applied(proj, row).run = Joined(proj.run, row.w, row.prov)
      BY <1>2, <1>3, <3>1, AppliedTransition
    <3>3. proj'.stage = [proj.stage EXCEPT ![row.w] = row.stage] /\ proj'.run = proj.run
      BY <1>1, <3>1, <3>2 DEF Joined
    <3>4. \A x \in Session : proj'.stage[x] = IF x = row.w THEN row.stage ELSE proj.stage[x]
      BY <1>3, <3>3 DEF Consistent, ProjType
    <3>5. Bound(proj)' = Bound(proj)
      BY <1>2, <1>3, <2>2, <3>1, <3>4, GateAssumption DEF Bound, Moves
    <3>6. excused' = IF proj.stage[row.w] = row.stage THEN excused ELSE excused \cup {row.w}
      BY <1>1, <1>4, <2>2, <3>1 DEF Excused
    <3>7. \A x \in Counted' : x \in Counted /\ x \in Session /\ (x = row.w => proj.stage[x] = row.stage)
      BY <1>1, <3>5, <3>6 DEF Counted, Bound, Live
    <3> QED BY <3>3, <3>4, <3>5, <3>7
  <2> QED BY <2>1, <2>2
<1> QED BY <1>9, <1>10, NobodyCounted DEF Idle, Moves

\* A row is written and folded.
LEMMA WriteKeeps ==
  ASSUME IInv, Write
  PROVE  IInv'
<1> DEFINE row == Head(chain)
<1>1. /\ chain # <<>> /\ Wanted(row) /\ chain' = Tail(chain)
      /\ file' = (IF torn THEN file ELSE Append(file, Stored(row))) /\ torn' = FALSE /\ glued' = (glued \/ torn)
      /\ proj' = Applied(proj, row) /\ excused' = Smuggled(row) \cup Excused(row)
      /\ gaps' = (IF torn THEN gaps \cup {row.w} ELSE gaps) /\ calls' = Outrun(row)
      /\ UNCHANGED <<session, conducted, lifecycle>>
  BY DEF Write, outside
<1>2. /\ row \in RowType /\ Foldable(row) /\ Stored(row) \in StoredRow
      /\ row.kind \in Moves => row.by \in Call
      /\ row.by \in Call => calls[row.by].kind \in Moves \cup {"self"}
  <2>1. row = Head(chain)
    OBVIOUS
  <2> HIDE DEF row
  <2> QED BY <1>1, <2>1, HeadRow
<1>3. row.w \in Session /\ row.prov \in SUBSET Session /\ row.by \in Call \cup {NoCall}
  BY <1>2 DEF RowType
<1>4. PlacedOK' /\ RoomKept' /\ OneCounted' /\ OneWorkerPerStage'
  <2>1. row = Head(chain)
    OBVIOUS
  <2> HIDE DEF row
  <2>2. CASE row.by \in Call /\ calls[row.by].kind \in Moves
    BY <2>1, <2>2, MoveWritten
  <2>3. CASE row.by \in Call => calls[row.by].kind = "self"
    BY <2>1, <2>3, LoopWritten
  <2> QED BY <1>2, <2>2, <2>3
<1> HIDE DEF row
<1>5. file' \in Seq(StoredRow) /\ Staged(file)' /\ {torn, glued}' \subseteq BOOLEAN
  <2>1. file \in Seq(StoredRow) /\ Staged(file)
    BY DEF IInv, Types, LogTyped
  <2>2. Stored(row).kind \in Moves => Stored(row).stage \in Stage
    BY <1>2 DEF Stored, Foldable
  <2>3. CASE torn
    BY <1>1, <2>1, <2>3 DEF Staged, IInv, Types, LogTyped
  <2>4. CASE ~torn
    <3>1. /\ Append(file, Stored(row)) \in Seq(StoredRow)
          /\ \A i \in 1..Len(Append(file, Stored(row))) :
               \/ i \in 1..Len(file) /\ Append(file, Stored(row))[i] = file[i]
               \/ i = Len(file) + 1 /\ Append(file, Stored(row))[i] = Stored(row)
      BY <1>2, <2>1, Queued
    <3>2. file' = Append(file, Stored(row))
      BY <1>1, <2>4
    <3> QED BY <1>1, <2>1, <2>2, <3>1, <3>2 DEF Staged, IInv, Types, LogTyped
  <2> QED BY <2>3, <2>4
<1>6. HistoryTyped'
  <2>1. Smuggled(row) \subseteq Session
    BY <1>3 DEF Smuggled, Bound
  <2>2. excused \subseteq Session /\ gaps \subseteq Session
    BY DEF IInv, Types, HistoryTyped
  <2>3. Excused(row) \subseteq Session
    BY <1>3, <2>2 DEF Excused
  <2> QED BY <1>1, <1>3, <2>1, <2>2, <2>3 DEF HistoryTyped
<1>7. calls \in [Call -> CallType]
  BY DEF IInv, Types, CallsTyped
<1>8. \A d \in Call : Replied(row)[d] = IF d = row.by THEN Idle ELSE calls[d]
  BY <1>3, <1>7, GateAssumption DEF Replied
<1>9. \A d \in Call : Replied(row)[d] \in CallType /\ CallOK(Replied(row)[d])
  BY <1>7, <1>8, IdleCall DEF IInv, CallsOK
<1>10. ASSUME NEW d \in Call
       PROVE  /\ calls'[d] \in CallType
              /\ \A f \in {"at", "tool", "kind", "w", "stage", "prov"} : calls'[d][f] = Replied(row)[d][f]
  <2> DEFINE r == Replied(row)[d]
             more == Moving(d) /\ d # row.by /\ Smuggled(row) # {}
  <2>1. calls'[d] = [r EXCEPT !.blind = r.blind \/ more] /\ r \in CallType
    BY <1>1, <1>9 DEF Outrun
  <2> HIDE DEF r, more
  <2>2. calls'[d] \in CallType
    BY <2>1 DEF CallType
  <2>3. \A f \in {"at", "tool", "kind", "w", "stage", "prov"} : calls'[d][f] = r[f]
    BY <2>1 DEF CallType
  <2> QED BY <2>2, <2>3 DEF r
<1>11. CallsTyped'
  <2>1. calls' = [d \in Call |-> calls'[d]]
    BY <1>1 DEF Outrun
  <2> QED BY <1>10, <2>1 DEF CallsTyped
<1>12. CallsOK'
  <2> SUFFICES ASSUME NEW d \in Call PROVE CallOK(calls[d])'
    BY DEF CallsOK
  <2> QED BY <1>9, <1>10 DEF CallOK
<1>13. ChainTyped' /\ LinkOK'
  <2>1. \A d \in Call : IF d = Head(chain).by THEN calls'[d].at = "idle"
                        ELSE \A f \in {"at", "w", "stage", "prov", "kind"} : calls'[d][f] = calls[d][f]
    BY <1>8, <1>10 DEF row, Idle
  <2> QED BY <1>1, <2>1, HeadReplied
<1>14. Consistent(proj)'
  <2>1. Consistent(proj)
    BY DEF IInv, Types
  <2>2. Consistent(Applied(proj, row))
    BY <1>2, <2>1, AppliedType
  <2> QED BY <1>1, <2>2 DEF Consistent
<1>15. LogOK'
  <2>1. Consistent(Folded(file)) /\ file \in Seq(StoredRow) /\ (~glued => proj = Folded(file))
    BY DEF IInv, LogOK, Types, LogTyped
  <2>2. CASE torn
    <3>1. file' = file /\ glued'
      BY <1>1, <2>2
    <3> QED BY <2>1, <3>1 DEF LogOK
  <2>3. CASE ~torn
    <3>1. file' = Append(file, Stored(row)) /\ glued' = glued
      BY <1>1, <2>3 DEF IInv, Types, LogTyped
    <3>2. Folded(Append(file, Stored(row))) = Applied(Folded(file), Stored(row))
      BY <1>2, <2>1, FoldedAppend
    <3>3. Applied(Folded(file), Stored(row)) = Applied(Folded(file), row)
      BY AppliedStored
    <3>4. Consistent(Applied(Folded(file), row))
      BY <1>2, <2>1, AppliedType
    <3>5. Folded(file)' = Applied(Folded(file), row)
      BY <3>1, <3>2, <3>3
    <3>6. ~glued => Applied(Folded(file), row) = proj'
      BY <1>1, <2>1
    <3>7. Consistent(Folded(file))'
      BY <3>4, <3>5
    <3> QED BY <3>1, <3>5, <3>6, <3>7 DEF LogOK
  <2> QED BY <2>2, <2>3
<1>16. SessionsTyped'
  BY <1>1 DEF IInv, Types, SessionsTyped
<1>17. LogTyped'
  BY <1>5 DEF LogTyped
<1> QED BY <1>4, <1>6, <1>11, <1>12, <1>13, <1>14, <1>15, <1>16, <1>17 DEF IInv, Types

-----------------------------------------------------------------------------
(* The server's end and its beginning. *)

\* A boot folds what the file has, and every call and every process is gone.
LEMMA CrashKeeps ==
  ASSUME IInv, Crash
  PROVE  IInv'
<1>1. /\ proj' = Folded(file') /\ calls' = [c \in Call |-> Idle] /\ chain' = <<>>
      /\ session' = [w \in Session |-> IF session[w] = "new" THEN "new" ELSE "dead"]
      /\ lifecycle' = [w \in Session |-> "none"]
      /\ gaps' = gaps \cup Live \cup {chain[i].w : i \in DOMAIN chain}
      /\ UNCHANGED <<conducted, glued, excused>>
  BY DEF Crash
<1>2. SessionsTyped'
  BY <1>1 DEF IInv, Types, SessionsTyped
<1>3. \A i \in 1..Len(chain) : chain[i] \in RowType
  BY ChainRows DEF IInv, Types, ChainTyped
<1>4. HistoryTyped'
  <2>1. {chain[i].w : i \in DOMAIN chain} \subseteq Session
    BY <1>3 DEF IInv, Types, ChainTyped, RowType
  <2> QED BY <1>1, <2>1 DEF IInv, Types, HistoryTyped, Live
<1>5. CallsTyped' /\ CallsOK'
  BY <1>1, IdleCall DEF CallsTyped, CallsOK
<1>6. ChainTyped' /\ LinkOK'
  <2>1. chain' \in Seq(RowType) /\ Len(chain') = 0
    BY <1>1
  <2>2. \A c \in Call : calls'[c].at # "recording"
    BY <1>1 DEF Idle
  <2>3. 1..Len(chain') = {}
    BY <2>1
  <2> QED BY <2>1, <2>2, <2>3 DEF ChainTyped, Staged, LinkOK
<1>7. LogTyped' /\ Consistent(Folded(file))'
  <2>1. LogTyped /\ Consistent(Folded(file))
    BY DEF IInv, Types, LogOK
  <2>2. CASE file' = file
    <3>1. torn' \in BOOLEAN
      BY <2>1 DEF Crash, LogTyped
    <3>2. Folded(file)' = Folded(file)
      BY <2>2
    <3>3. Consistent(Folded(file))'
      BY <2>1, <3>2 DEF Consistent
    <3> QED BY <1>1, <2>1, <2>2, <3>1, <3>3 DEF LogTyped, Staged
  <2>3. CASE file' # file
    <3> DEFINE row == Head(chain)
    <3>1. chain # <<>> /\ file' = Append(file, Stored(row)) /\ torn' = FALSE
      BY <2>3 DEF Crash
    <3>2. row \in RowType /\ Foldable(row) /\ Stored(row) \in StoredRow
      <4>1. row = Head(chain)
        OBVIOUS
      <4> HIDE DEF row
      <4> QED BY <3>1, <4>1, HeadRow
    <3> HIDE DEF row
    <3>3. Folded(file)' = Applied(Folded(file), row)
      BY <2>1, <3>1, <3>2, FoldedAppend, AppliedStored DEF LogTyped
    <3>4. Consistent(Applied(Folded(file), row))
      BY <2>1, <3>2, AppliedType
    <3>5. Consistent(Folded(file))'
      BY <3>3, <3>4
    <3>6. Stored(row).kind \in Moves => Stored(row).stage \in Stage
      BY <3>2 DEF Stored, Foldable
    <3>7. /\ file' \in Seq(StoredRow)
          /\ \A i \in 1..Len(file') : \/ i \in 1..Len(file) /\ file'[i] = file[i]
                                      \/ i = Len(file) + 1 /\ file'[i] = Stored(row)
      BY <2>1, <3>1, <3>2, Queued DEF LogTyped
    <3> QED BY <1>1, <2>1, <3>1, <3>5, <3>6, <3>7 DEF LogTyped, Staged
  <2> QED BY <2>2, <2>3
<1>8. Consistent(proj)' /\ LogOK'
  BY <1>1, <1>7 DEF LogOK, Consistent
<1>9. Live' = {} /\ \A c \in Call : calls'[c].kind = "none"
  BY <1>1 DEF Live, Idle, IInv, Types, SessionsTyped
<1>10. PlacedOK' /\ RoomKept' /\ OneCounted' /\ OneWorkerPerStage'
  <2>1. Counted' = {}
    BY <1>9 DEF Counted
  <2>2. PlacedOK' /\ RoomKept' /\ OneCounted'
    BY <1>9 DEF PlacedOK, Placed, RoomKept, OneCounted, Moving
  <2>3. OneWorkerPerStage'
    BY <2>1 DEF OneWorkerPerStage, Counted
  <2> QED BY <2>2, <2>3
<1> QED BY <1>2, <1>4, <1>5, <1>6, <1>7, <1>8, <1>10 DEF IInv, Types

\* It holds initially.
LEMMA InitHolds == Init => IInv
<1> SUFFICES ASSUME Init PROVE IInv
  OBVIOUS
<1> USE DEF Init
<1>1. SessionsTyped /\ HistoryTyped
  BY DEF SessionsTyped, HistoryTyped
<1>2. CallsTyped /\ CallsOK
  BY IdleCall DEF CallsTyped, CallsOK
<1>3. Len(chain) = 0 /\ chain \in Seq(RowType) /\ Len(file) = 0 /\ file \in Seq(StoredRow) /\ 1..0 = {}
  OBVIOUS
<1>4. \A c \in Call : calls[c].at = "idle" /\ calls[c].kind = "none"
  BY DEF Idle
<1>5. ChainTyped /\ LinkOK
  BY <1>3, <1>4 DEF ChainTyped, Staged, LinkOK
<1>6. LogTyped
  BY <1>3 DEF LogTyped, Staged
<1>7. Consistent(Empty) /\ Bound(Empty) = {}
  BY DEF Consistent, ProjType, Empty, Bound
<1>8. Consistent(proj) /\ LogOK
  BY <1>7, FoldedEmpty DEF LogOK
<1>9. Bound(proj) = {}
  BY <1>7
<1>10. PlacedOK /\ RoomKept /\ OneCounted /\ OneWorkerPerStage
  BY <1>4, <1>9 DEF PlacedOK, Placed, RoomKept, OneCounted, OneWorkerPerStage, Moving
<1> QED BY <1>1, <1>2, <1>5, <1>6, <1>8, <1>10 DEF IInv, Types

\* A step that leaves every variable alone.
LEMMA Stutters ==
  ASSUME IInv, UNCHANGED vars
  PROVE  IInv'
<1>1. UNCHANGED <<session, conducted, lifecycle, calls, chain, proj, file, torn, glued, excused, gaps>>
  BY DEF vars, outside, ledger
<1>2. Types'
  BY <1>1 DEF IInv, Types, SessionsTyped, ChainTyped, LogTyped, HistoryTyped, CallsTyped, Staged,
       Consistent
<1>3. CallsOK' /\ PlacedOK' /\ LinkOK' /\ LogOK'
  BY <1>1 DEF IInv, CallsOK, PlacedOK, Placed, Bound, LinkOK, LogOK
<1>4. RoomKept' /\ OneCounted' /\ OneWorkerPerStage'
  BY <1>1 DEF IInv, RoomKept, OneCounted, OneWorkerPerStage, Counted, Bound, Live, Moving, Fellow,
       SameRun
<1> QED BY <1>2, <1>3, <1>4 DEF IInv

\* Every step keeps it.
LEMMA NextKeeps == IInv /\ [Next]_vars => IInv'
<1> SUFFICES ASSUME IInv, [Next]_vars PROVE IInv'
  OBVIOUS
<1>1. CASE \E c \in Call : Calling(c)
  <2>1. PICK c \in Call : Calling(c)
    BY <1>1
  <2> QED BY <2>1, CheckKeeps, CreateFreshKeeps, CreateResumedKeeps, HandlerFailsKeeps, KillKeeps,
             HandlerReturnsKeeps DEF Calling
<1>2. CASE \E w \in Session : Happening(w)
  <2>1. PICK w \in Session : Happening(w)
    BY <1>2
  <2> QED BY <2>1, DiesKeeps, DeadAgainKeeps, ReviveKeeps, EarlyStatusKeeps, RelaunchedKeeps,
             LaunchRefusedKeeps DEF Happening
<1>3. CASE Skip \/ Write \/ WriteFails \/ Crash
  BY <1>3, SkipKeeps, WriteKeeps, WriteFailsKeeps, CrashKeeps
<1>4. CASE UNCHANGED vars
  BY <1>4, Stutters
<1> QED BY <1>1, <1>2, <1>3, <1>4 DEF Next

\* The inductive invariant holds of every behaviour of the gate (check, commitMove, onStatus,
\* append, load).
THEOREM Invariant == Spec => []IInv
BY InitHolds, NextKeeps, PTL DEF Spec

-----------------------------------------------------------------------------
(* What the run checks, for every value of the constants. *)

\* Every variable keeps its type, a worker's stage is the last of its history, and each recording call
\* has exactly one row under way (commitMove, append).
THEOREM TypeCorrect == Spec => []TypeOK
<1>1. ASSUME IInv PROVE TypeOK
  <2>1. /\ \A c \in Call : calls[c].at = "recording" <=> \E i \in DOMAIN chain : chain[i].by = c
        /\ \A i, j \in DOMAIN chain : chain[i].by = chain[j].by => i = j \/ chain[i].by = NoCall
    <3>1. DOMAIN chain = 1..Len(chain)
      BY <1>1 DEF IInv, Types, ChainTyped
    <3> QED BY <1>1, <3>1, GateAssumption DEF IInv, LinkOK
  <2>2. \A i \in DOMAIN file : file[i] \in StoredRow
    BY <1>1 DEF IInv, Types, LogTyped
  <2>3. \A w \in Session :
          proj.stage[w] = IF proj.history[w] = <<>> THEN NoStage ELSE proj.history[w][Len(proj.history[w])]
    BY <1>1 DEF IInv, Types, Consistent
  <2> QED BY <1>1, <2>1, <2>2, <2>3 DEF TypeOK, IInv, Types, SessionsTyped, HistoryTyped, LogTyped
<1> QED BY <1>1, Invariant, PTL

\* A run has one counted worker at most in a single-worker stage (decideSpawn, decideTargeted), however
\* many calls overlap, whatever joins two runs, and whoever dies, returns or is never recorded.
THEOREM OneWorker == Spec => []OneWorkerPerStage
<1>1. IInv => OneWorkerPerStage
  BY DEF IInv
<1> QED BY <1>1, Invariant, PTL

\* Every worker's history in q is its history in p, or longer.
Grown(p, q) ==
  \A w \in Session : /\ Len(q.history[w]) >= Len(p.history[w])
                     /\ SubSeq(q.history[w], 1, Len(p.history[w])) = p.history[w]

\* A projection has grown out of itself.
LEMMA Same ==
  ASSUME NEW p, Consistent(p)
  PROVE  Grown(p, p)
<1>1. ASSUME NEW w \in Session
      PROVE  Len(p.history[w]) >= Len(p.history[w]) /\ SubSeq(p.history[w], 1, Len(p.history[w])) = p.history[w]
  <2>1. p.history[w] \in Seq(Stage)
    BY DEF Consistent, ProjType
  <2> QED BY <2>1
<1> QED BY <1>1 DEF Grown

\* An append keeps the prefix.
LEMMA Extended ==
  ASSUME NEW h \in Seq(Stage), NEW s \in Stage
  PROVE  Len(Append(h, s)) >= Len(h) /\ SubSeq(Append(h, s), 1, Len(h)) = h
OBVIOUS

\* A spawn row is folded for a worker without a history only, a transition extends one.
LEMMA AppliedGrows ==
  ASSUME NEW row, Foldable(row), Wanted(row), Consistent(proj)
  PROVE  Grown(proj, Applied(proj, row))
<1>1. row.w \in Session /\ proj.history \in [Session -> Seq(Stage)]
  BY DEF Foldable, Consistent, ProjType
<1>2. CASE row.kind = "spawn"
  <2>1. row.w \notin Bound(proj) /\ row.stage \in Stage
    BY <1>2 DEF Wanted, Foldable, Moves
  <2>2. proj.history[row.w] = <<>>
    <3> SUFFICES ASSUME proj.history[row.w] # <<>> PROVE FALSE
      OBVIOUS
    <3>1. proj.history[row.w] \in Seq(Stage)
      BY <1>1
    <3>2. proj.history[row.w][Len(proj.history[row.w])] \in Stage
      BY <3>1
    <3>3. proj.stage[row.w] \in Stage
      BY <1>1, <3>2 DEF Consistent
    <3> QED BY <1>1, <2>1, <3>3, GateAssumption DEF Bound
  <2>3. Applied(proj, row).history = [proj.history EXCEPT ![row.w] = <<row.stage>>]
    BY <1>2, AppliedSpawn
  <2>4. ASSUME NEW w \in Session
        PROVE  /\ Len(Applied(proj, row).history[w]) >= Len(proj.history[w])
               /\ SubSeq(Applied(proj, row).history[w], 1, Len(proj.history[w])) = proj.history[w]
    <3>1. CASE w = row.w
      <4>1. Applied(proj, row).history[w] = Append(<<>>, row.stage) /\ proj.history[w] = <<>>
        BY <1>1, <2>2, <2>3, <3>1
      <4>2. <<>> \in Seq(Stage)
        OBVIOUS
      <4> QED BY <2>1, <4>1, <4>2, Extended
    <3>2. CASE w # row.w
      <4>1. Applied(proj, row).history[w] = proj.history[w]
        BY <1>1, <2>3, <3>2
      <4> QED BY <4>1, Same DEF Grown
    <3> QED BY <3>1, <3>2
  <2> QED BY <2>4 DEF Grown
<1>3. CASE row.kind = "transition" /\ proj.stage[row.w] # NoStage
  <2>1. Applied(proj, row).history = [proj.history EXCEPT ![row.w] = Append(@, row.stage)]
    BY <1>3, AppliedTransition
  <2>2. row.stage \in Stage
    BY <1>3 DEF Foldable, Moves
  <2>3. ASSUME NEW w \in Session
        PROVE  /\ Len(Applied(proj, row).history[w]) >= Len(proj.history[w])
               /\ SubSeq(Applied(proj, row).history[w], 1, Len(proj.history[w])) = proj.history[w]
    <3>1. CASE w = row.w
      <4>1. Applied(proj, row).history[w] = Append(proj.history[w], row.stage) /\ proj.history[w] \in Seq(Stage)
        BY <1>1, <2>1, <3>1
      <4> QED BY <2>2, <4>1, Extended
    <3>2. CASE w # row.w
      <4>1. Applied(proj, row).history[w] = proj.history[w]
        BY <1>1, <2>1, <3>2
      <4> QED BY <4>1, Same DEF Grown
    <3> QED BY <3>1, <3>2
  <2> QED BY <2>3 DEF Grown
<1>4. CASE row.kind # "spawn" /\ (row.kind = "transition" => proj.stage[row.w] = NoStage)
  <2>1. Applied(proj, row) = proj
    BY <1>4, AppliedOther
  <2> QED BY <2>1, Same
<1> QED BY <1>2, <1>3, <1>4

\* No step takes back what the projection has shown of a worker (commitMove's thunk, load),
\* unless a row was written behind a torn one.
THEOREM HistoryStays == Spec => HistoryKept
<1>1. ASSUME IInv, [Next]_vars, ~glued' PROVE Grown(proj, proj')
  <2> USE <1>1
  <2>1. Consistent(proj)
    BY DEF IInv, Types
  <2>2. CASE UNCHANGED proj
    BY <2>1, <2>2, Same DEF Grown
  <2>3. CASE Write
    <3> DEFINE row == Head(chain)
    <3>1. chain # <<>> /\ Wanted(row) /\ proj' = Applied(proj, row)
      BY <2>3 DEF Write
    <3>2. Foldable(row)
      <4>1. row = Head(chain)
        OBVIOUS
      <4> HIDE DEF row
      <4> QED BY <3>1, <4>1, HeadRow
    <3> HIDE DEF row
    <3> QED BY <2>1, <3>1, <3>2, AppliedGrows
  <2>4. CASE Crash
    <3>1. proj = Folded(file) /\ proj' = Folded(file') /\ file \in Seq(StoredRow)
      BY <2>4 DEF Crash, IInv, LogOK, Types, LogTyped
    <3>2. CASE file' = file
      BY <2>1, <3>1, <3>2, Same
    <3>3. CASE file' # file
      <4> DEFINE row == Head(chain)
      <4>1. chain # <<>> /\ Wanted(row) /\ file' = Append(file, Stored(row))
        BY <2>4, <3>3 DEF Crash
      <4>2. Foldable(row) /\ Stored(row) \in StoredRow
        <5>1. row = Head(chain)
          OBVIOUS
        <5> HIDE DEF row
        <5> QED BY <4>1, <5>1, HeadRow
      <4> HIDE DEF row
      <4>3. proj' = Applied(proj, row)
        BY <3>1, <4>1, <4>2, FoldedAppend, AppliedStored
      <4> QED BY <2>1, <4>1, <4>2, <4>3, AppliedGrows
    <3> QED BY <3>2, <3>3
  <2>5. UNCHANGED proj \/ Write \/ Crash
    BY DEF Next, Calling, Happening, Check, CreateFresh, CreateResumed, HandlerFails, Kill,
         HandlerReturns,
           Dies, DeadAgain, Revive, EarlyStatus, Relaunched, LaunchRefused, Skip, WriteFails, ledger, vars
  <2> QED BY <2>2, <2>3, <2>4, <2>5
<1>2. IInv /\ [Next]_vars => (~glued' => Grown(proj, proj'))
  BY <1>1
<1>3. [][~glued' => Grown(proj, proj')]_vars => HistoryKept
  BY PTL DEF HistoryKept, Grown
<1> QED BY <1>2, <1>3, Invariant, PTL DEF Spec

=============================================================================
