------------------------ MODULE PlaybookLivesProofs ------------------------
(***************************************************************************)
(* That the playbook ledger tells each session's lives in order, for any   *)
(* number of sessions, calls, faults and events.                           *)
(*                                                                         *)
(* The ledger and the appends on their way are read as one sequence: it    *)
(* alternates, and the last row of a session's life is never the one its   *)
(* next edge will bring.  What the chain's thunk drops is no life of a     *)
(* session that has one in the file, for a conducted or bound session      *)
(* stays one.                                                              *)
(***************************************************************************)
EXTENDS PlaybookGateProofs

\* The ledger's rows and, behind them, those on their way.
Total == Len(file) + Len(chain)
Told(i) == IF i <= Len(file) THEN file[i] ELSE chain[i - Len(file)]

\* The life row that a session's next change will bring.
Due(w) == IF lifecycle[w] = "alive" THEN "retire" ELSE "resume"

\* Between two rows of a kind is one of the other, behind the last of the kind that is due next too.
Alternating ==
  \A w \in Session \ gaps : \A i, j \in 1..Total :
    i < j /\ LifeOf(Told(i), w) /\ LifeOf(Told(j), w) /\ Told(i).kind = Told(j).kind
      => \E k \in 1..Total : i < k /\ k < j /\ LifeOf(Told(k), w) /\ Told(k).kind # Told(i).kind
DueNext ==
  \A w \in Session \ gaps : \A i \in 1..Total :
    LifeOf(Told(i), w) /\ Told(i).kind = Due(w)
      => \E k \in 1..Total : i < k /\ LifeOf(Told(k), w) /\ Told(k).kind # Due(w)

\* The life edge agrees with the process, up to a status before the relaunch.
EdgesOK ==
  /\ \A w \in Session : session[w] = "new" => \A i \in 1..Total : ~LifeOf(Told(i), w)
  /\ \A w \in Session : session[w] = "up" => lifecycle[w] = "alive"
  /\ \A w \in Session \ gaps : lifecycle[w] = "alive" => session[w] = "up"

\* A session whose lives are told stays one whose lives are told.
ConductedOK ==
  \A i \in 1..Len(chain) : chain[i].conducted =>
    /\ chain[i].w \in conducted
    /\ \A j \in 1..Len(chain) : i < j /\ chain[i].w = chain[j].w => chain[j].conducted
Followed(w) == w \in conducted /\ \A i \in 1..Len(chain) : chain[i].w = w => chain[i].conducted
FollowedOK ==
  \A w \in Session \ gaps :
    (\E i \in 1..Len(file) : LifeOf(file[i], w)) => w \in Bound(proj) \/ Followed(w)
ReloadOK == \A w \in Session \ gaps : w \in Bound(proj) => w \in Bound(Folded(file))

Lives == Alternating /\ DueNext /\ EdgesOK /\ ConductedOK /\ FollowedOK /\ ReloadOK

-----------------------------------------------------------------------------
\* Both sequences have a length.
LEMMA Lengths ==
  ASSUME IInv
  PROVE  Len(file) \in Nat /\ Len(chain) \in Nat /\ Total \in Nat
BY DEF IInv, Types, LogTyped, ChainTyped, Total

\* A row binds its worker if it is a spawn, and nobody else.
LEMMA BoundApplied ==
  ASSUME NEW p, Consistent(p), NEW row, Foldable(row)
  PROVE  Bound(Applied(p, row)) = IF row.kind = "spawn" THEN Bound(p) \cup {row.w} ELSE Bound(p)
<1>1. row.w \in Session /\ p.stage \in [Session -> Stage \cup {NoStage}]
  BY DEF Foldable, Consistent, ProjType
<1>2. CASE row.kind = "spawn"
  <2>1. Applied(p, row).stage = [p.stage EXCEPT ![row.w] = row.stage] /\ row.stage \in Stage
    BY <1>2, AppliedSpawn DEF Foldable, Moves
  <2> QED BY <1>1, <1>2, <2>1, GateAssumption DEF Bound
<1>3. CASE row.kind = "transition" /\ p.stage[row.w] # NoStage
  <2>1. Applied(p, row).stage = [p.stage EXCEPT ![row.w] = row.stage] /\ row.stage \in Stage
    BY <1>3, AppliedTransition DEF Foldable, Moves
  <2> QED BY <1>1, <1>3, <2>1, GateAssumption DEF Bound
<1>4. CASE row.kind # "spawn" /\ (row.kind = "transition" => p.stage[row.w] = NoStage)
  BY <1>4, AppliedOther
<1> QED BY <1>2, <1>3, <1>4

\* No row is written and none is queued.
LEMMA LivesStay ==
  ASSUME IInv, Lives, UNCHANGED <<file, chain, proj>>,
         conducted \subseteq conducted', gaps \subseteq gaps',
         \A w \in Session : session'[w] = "new" => session[w] = "new",
         \A w \in Session : session'[w] = "up" => lifecycle'[w] = "alive",
         \A w \in Session \ gaps' : lifecycle'[w] = "alive" => session'[w] = "up",
         \A w \in Session \ gaps' : session[w] = "new" \/ Due(w)' = Due(w)
  PROVE  Lives'
<1>1. Total' = Total /\ \A i \in 1..Total : Told(i)' = Told(i)
  BY DEF Total, Told
<1>2. Alternating'
  BY <1>1 DEF Lives, Alternating, LifeOf
<1>3. EdgesOK'
  BY <1>1 DEF Lives, EdgesOK, LifeOf
<1>4. DueNext'
  BY <1>1 DEF Lives, DueNext, EdgesOK, LifeOf
<1>5. ConductedOK' /\ FollowedOK' /\ ReloadOK'
  BY DEF Lives, ConductedOK, FollowedOK, Followed, ReloadOK, Bound, LifeOf
<1> QED BY <1>2, <1>3, <1>4, <1>5 DEF Lives

\* A row is queued: one that marks no life, or the one that is due.
LEMMA LivesQueued ==
  ASSUME IInv, Lives, NEW r \in RowType, chain' = Append(chain, r), UNCHANGED <<file, proj, conducted,
         gaps>>,
         r.conducted <=> r.w \in conducted,
         \A w \in Session : session'[w] = "new" => session[w] = "new" /\ ~LifeOf(r, w),
         \A w \in Session : session'[w] = "up" => lifecycle'[w] = "alive",
         \A w \in Session \ gaps : lifecycle'[w] = "alive" => session'[w] = "up",
         \A w \in Session \ gaps :
           IF LifeOf(r, w) THEN r.kind = Due(w) /\ Due(w)' # Due(w) ELSE Due(w)' = Due(w)
  PROVE  Lives'
<1>0. PICK n \in Nat : n = Total + 1
  BY Lengths
<1>1. /\ Len(file) \in Nat /\ Len(chain) \in Nat /\ Total \in Nat /\ Total' = n /\ Len(chain') = Len(chain) + 1
      /\ \A i \in 1..Total : Told(i)' = Told(i)
      /\ Told(n)' = r
      /\ n \in 1..Total' /\ \A i \in 1..Total' : i \in 1..Total \/ i = n
      /\ \A i \in 1..Total : i \in 1..Total' /\ i < n
  <2>1. chain \in Seq(RowType)
    BY DEF IInv, Types, ChainTyped
  <2>2. Len(chain') = Len(chain) + 1 /\ (\A i \in 1..Len(chain) : chain'[i] = chain[i]) /\ chain'[Len(chain) + 1] = r
    BY <2>1, Queued
  <2>3. Len(file) \in Nat /\ Len(chain) \in Nat /\ Total \in Nat
    BY Lengths
  <2> QED BY <1>0, <2>2, <2>3 DEF Total, Told
<1>2. r.w \in Session /\ r.kind \in RowKinds
  BY DEF RowType
<1>3. EdgesOK'
  BY <1>1 DEF Lives, EdgesOK, LifeOf
<1>4. ASSUME NEW w \in Session \ gaps', NEW i \in 1..Total', NEW j \in 1..Total', i < j,
             LifeOf(Told(i), w)', LifeOf(Told(j), w)', Told(i)'.kind = Told(j)'.kind
      PROVE  \E k \in 1..Total' : i < k /\ k < j /\ LifeOf(Told(k), w)' /\ Told(k)'.kind # Told(i)'.kind
  <2>1. i \in 1..Total /\ LifeOf(Told(i), w) /\ Told(i)' = Told(i)
    BY <1>1, <1>4 DEF LifeOf
  <2>2. CASE j \in 1..Total
    <3>1. PICK k \in 1..Total : i < k /\ k < j /\ LifeOf(Told(k), w) /\ Told(k).kind # Told(i).kind
      BY <1>1, <1>4, <2>1, <2>2 DEF Lives, Alternating, LifeOf
    <3> QED BY <1>1, <2>1, <3>1 DEF LifeOf
  <2>3. CASE j = n
    <3>1. LifeOf(r, w) /\ Told(i).kind = Due(w)
      BY <1>1, <1>4, <2>1, <2>3 DEF LifeOf
    <3>2. PICK k \in 1..Total : i < k /\ LifeOf(Told(k), w) /\ Told(k).kind # Due(w)
      BY <1>4, <2>1, <3>1 DEF Lives, DueNext
    <3> QED BY <1>1, <2>1, <2>3, <3>1, <3>2 DEF LifeOf
  <2> QED BY <1>1, <2>2, <2>3
<1>5. Alternating'
  BY <1>4 DEF Alternating
<1>6. ASSUME NEW w \in Session \ gaps', NEW i \in 1..Total', LifeOf(Told(i), w)', Told(i)'.kind = Due(w)'
      PROVE  \E k \in 1..Total' : i < k /\ LifeOf(Told(k), w)' /\ Told(k)'.kind # Due(w)'
  <2>1. CASE LifeOf(r, w)
    <3>1. r.kind = Due(w) /\ Due(w)' # Due(w)
      BY <1>6, <2>1
    <3>2. i # n
      BY <1>1, <1>6, <3>1
    <3> QED BY <1>1, <2>1, <3>1, <3>2 DEF LifeOf
  <2>2. CASE ~LifeOf(r, w)
    <3>1. Due(w)' = Due(w) /\ i # n
      BY <1>1, <1>6, <2>2 DEF LifeOf
    <3>2. i \in 1..Total /\ LifeOf(Told(i), w) /\ Told(i).kind = Due(w)
      BY <1>1, <1>6, <3>1 DEF LifeOf
    <3>3. PICK k \in 1..Total : i < k /\ LifeOf(Told(k), w) /\ Told(k).kind # Due(w)
      BY <1>6, <3>2 DEF Lives, DueNext
    <3> QED BY <1>1, <3>1, <3>3 DEF LifeOf
  <2> QED BY <2>1, <2>2
<1>7. DueNext'
  BY <1>6 DEF DueNext
<1>8. /\ \A i \in 1..Len(chain') : \/ i \in 1..Len(chain) /\ chain'[i] = chain[i]
                                   \/ i = Len(chain) + 1 /\ chain'[i] = r
  BY Queued DEF IInv, Types, ChainTyped
<1>9. ConductedOK'
  <2> SUFFICES ASSUME NEW i \in 1..Len(chain'), chain'[i].conducted
               PROVE  /\ chain'[i].w \in conducted
                      /\ \A j \in 1..Len(chain') : i < j /\ chain'[i].w = chain'[j].w => chain'[j].conducted
    BY DEF ConductedOK
  <2>1. chain'[i].w \in conducted
    BY <1>8 DEF Lives, ConductedOK
  <2>2. ASSUME NEW j \in 1..Len(chain'), i < j, chain'[i].w = chain'[j].w PROVE chain'[j].conducted
    <3>1. i \in 1..Len(chain) /\ chain'[i] = chain[i]
      BY <1>1, <1>8, <2>2
    <3> QED BY <1>8, <2>1, <2>2, <3>1 DEF Lives, ConductedOK
  <2> QED BY <2>1, <2>2
<1>10. FollowedOK'
  BY <1>8 DEF Lives, FollowedOK, Followed, Bound, LifeOf
<1>11. ReloadOK'
  BY DEF Lives, ReloadOK, Bound
<1> QED BY <1>3, <1>5, <1>7, <1>9, <1>10, <1>11 DEF Lives

\* The first row of the chain goes without a trace in the file, and with it no session's only witness.
LEMMA LivesDropped ==
  ASSUME IInv, Lives, chain # <<>>, chain' = Tail(chain), UNCHANGED <<file, session, lifecycle,
         conducted>>,
         gaps \subseteq gaps', Bound(proj) \subseteq Bound(proj)', ReloadOK',
         \A w \in Session \ gaps' :
           LifeOf(Head(chain), w) => \A i \in 1..Len(file) : ~LifeOf(file[i], w)
  PROVE  Lives'
<1>0. PICK h \in Nat : h = Len(file) + 1
  BY Lengths
<1>1. /\ Len(file) \in Nat /\ Len(chain) \in Nat /\ Total \in Nat /\ Total' = Total - 1 /\ h \in 1..Total
      /\ Told(h) = Head(chain)
      /\ \A i \in 1..Len(file) : Told(i) = file[i]
      /\ \A m \in 1..Total' : m < h => m \in 1..Total /\ Told(m)' = Told(m) /\ m \in 1..Len(file)
      /\ \A m \in 1..Total' : m >= h => m + 1 \in 1..Total /\ Told(m)' = Told(m + 1)
      /\ \A i \in 1..Total : i > h => i - 1 \in 1..Total' /\ Told(i - 1)' = Told(i)
      /\ \A i \in 1..Total : i < h => i \in 1..Total' /\ Told(i)' = Told(i)
  <2>1. chain \in Seq(RowType) /\ Len(chain) \in Nat /\ Len(file) \in Nat /\ Total \in Nat
    BY Lengths DEF IInv, Types, ChainTyped
  <2>2. /\ Head(chain) = chain[1] /\ Len(chain) > 0 /\ Len(chain') = Len(chain) - 1
        /\ \A i \in 1..Len(chain') : chain'[i] = chain[i + 1]
    BY <2>1, Taken, HeadTailProperties
  <2>3. ASSUME NEW m \in 1..(Total - 1), m >= h PROVE m + 1 \in 1..Total /\ Told(m)' = Told(m + 1)
    <3>1. m - Len(file) \in 1..Len(chain') /\ (m - Len(file)) + 1 = (m + 1) - Len(file)
      BY <1>0, <2>1, <2>2, <2>3 DEF Total
    <3>2. ~(m <= Len(file)) /\ ~(m + 1 <= Len(file)) /\ Len(file)' = Len(file)
      BY <1>0, <2>1, <2>3
    <3>3. Told(m)' = chain'[m - Len(file)] /\ Told(m + 1) = chain[(m + 1) - Len(file)]
      BY <3>2 DEF Told
    <3> QED BY <2>1, <2>2, <2>3, <3>1, <3>3
  <2>4. Total' = Total - 1 /\ h \in 1..Total /\ Told(h) = Head(chain)
    BY <1>0, <2>1, <2>2 DEF Total, Told
  <2>5. ASSUME NEW i \in 1..Total, i < h
        PROVE i \in 1..Total' /\ i \in 1..Len(file) /\ Told(i)' = Told(i) /\ Told(i) = file[i]
    BY <1>0, <2>1, <2>4, <2>5 DEF Told
  <2>6. ASSUME NEW i \in 1..Total, i > h PROVE i - 1 \in 1..Total' /\ Told(i - 1)' = Told(i)
    <3>1. i - 1 \in 1..(Total - 1) /\ i - 1 >= h /\ (i - 1) + 1 = i
      BY <2>1, <2>4, <2>6
    <3> QED BY <2>3, <2>4, <3>1
  <2>7. \A i \in 1..Len(file) : i \in 1..Total /\ i < h
    BY <1>0, <2>1 DEF Total
  <2>8. \A m \in 1..Total' : m \in 1..(Total - 1) /\ m \in 1..Total
    BY <2>1, <2>4
  <2> QED BY <2>1, <2>3, <2>4, <2>5, <2>6, <2>7, <2>8
\* Behind a session's row in the file the head is no row of its life.
<1>2. ASSUME NEW w \in Session \ gaps', NEW i \in 1..Total, i < h, LifeOf(Told(i), w),
             NEW k \in 1..Total, LifeOf(Told(k), w)
      PROVE  k # h
  BY <1>0, <1>1, <1>2
<1>3. ASSUME NEW w \in Session \ gaps', NEW m \in 1..Total', LifeOf(Told(m), w)'
      PROVE  \E i \in 1..Total : /\ Told(m)' = Told(i) /\ LifeOf(Told(i), w) /\ i # h
                                 /\ (m < h /\ i = m) \/ (m >= h /\ i = m + 1)
  <2>1. CASE m < h
    BY <1>1, <1>3, <2>1 DEF LifeOf
  <2>2. CASE m >= h
    <3>1. m + 1 \in 1..Total /\ Told(m)' = Told(m + 1) /\ m + 1 # h
      BY <1>1, <2>2
    <3> QED BY <1>3, <2>2, <3>1 DEF LifeOf
  <2> QED BY <1>1, <2>1, <2>2
<1>4. ASSUME NEW w \in Session \ gaps', NEW i \in 1..Total, i # h, LifeOf(Told(i), w)
      PROVE  \E m \in 1..Total' : /\ Told(m)' = Told(i) /\ LifeOf(Told(m), w)'
                                  /\ (i < h /\ m = i) \/ (i > h /\ m = i - 1)
  <2>1. CASE i < h
    BY <1>1, <1>4, <2>1 DEF LifeOf
  <2>2. CASE i > h
    <3>1. i - 1 \in 1..Total' /\ Told(i - 1)' = Told(i)
      BY <1>1, <2>2
    <3> QED BY <1>4, <2>2, <3>1 DEF LifeOf
  <2> QED BY <1>1, <1>4, <2>1, <2>2
<1>5. ASSUME NEW w \in Session \ gaps', NEW a \in 1..Total', NEW b \in 1..Total', a < b,
             LifeOf(Told(a), w)', LifeOf(Told(b), w)', Told(a)'.kind = Told(b)'.kind
      PROVE  \E c \in 1..Total' : a < c /\ c < b /\ LifeOf(Told(c), w)' /\ Told(c)'.kind # Told(a)'.kind
  <2>1. PICK i \in 1..Total : Told(a)' = Told(i) /\ LifeOf(Told(i), w) /\ i # h
                              /\ ((a < h /\ i = a) \/ (a >= h /\ i = a + 1))
    BY <1>3, <1>5
  <2>2. PICK j \in 1..Total : Told(b)' = Told(j) /\ LifeOf(Told(j), w) /\ j # h
                              /\ ((b < h /\ j = b) \/ (b >= h /\ j = b + 1))
    BY <1>3, <1>5
  <2>3. i < j /\ w \notin gaps
    BY <1>5, <2>1, <2>2
  <2>4. PICK k \in 1..Total : i < k /\ k < j /\ LifeOf(Told(k), w) /\ Told(k).kind # Told(i).kind
    BY <1>5, <2>1, <2>2, <2>3 DEF Lives, Alternating
  <2>5. k # h
    <3>1. CASE i < h
      BY <1>2, <2>1, <2>4, <3>1
    <3>2. CASE i > h
      BY <2>4, <3>2
    <3> QED BY <2>1, <3>1, <3>2
  <2>6. PICK c \in 1..Total' : Told(c)' = Told(k) /\ LifeOf(Told(c), w)'
                               /\ ((k < h /\ c = k) \/ (k > h /\ c = k - 1))
    BY <1>4, <2>4, <2>5
  <2>7. a < c /\ c < b
    BY <1>1, <2>1, <2>2, <2>4, <2>6
  <2> QED BY <2>1, <2>4, <2>6, <2>7
<1>6. ASSUME NEW w \in Session \ gaps', NEW a \in 1..Total', LifeOf(Told(a), w)', Told(a)'.kind = Due(w)'
      PROVE  \E c \in 1..Total' : a < c /\ LifeOf(Told(c), w)' /\ Told(c)'.kind # Due(w)'
  <2>1. PICK i \in 1..Total : Told(a)' = Told(i) /\ LifeOf(Told(i), w) /\ i # h
                              /\ ((a < h /\ i = a) \/ (a >= h /\ i = a + 1))
    BY <1>3, <1>6
  <2>2. Due(w)' = Due(w) /\ w \notin gaps
    BY <1>6 DEF Due
  <2>3. PICK k \in 1..Total : i < k /\ LifeOf(Told(k), w) /\ Told(k).kind # Due(w)
    BY <1>6, <2>1, <2>2 DEF Lives, DueNext
  <2>4. k # h
    <3>1. CASE i < h
      BY <1>2, <2>1, <2>3, <3>1
    <3>2. CASE i > h
      BY <2>3, <3>2
    <3> QED BY <2>1, <3>1, <3>2
  <2>5. PICK c \in 1..Total' : Told(c)' = Told(k) /\ LifeOf(Told(c), w)'
                               /\ ((k < h /\ c = k) \/ (k > h /\ c = k - 1))
    BY <1>4, <2>3, <2>4
  <2>6. a < c
    BY <1>1, <2>1, <2>3, <2>5
  <2> QED BY <2>2, <2>3, <2>5, <2>6
<1>7. EdgesOK'
  <2>1. ASSUME NEW w \in Session, session[w] = "new", NEW m \in 1..Total' PROVE ~LifeOf(Told(m), w)'
    <3>1. \A i \in 1..Total : ~LifeOf(Told(i), w)
      BY <2>1 DEF Lives, EdgesOK
    <3> QED BY <1>1, <3>1 DEF LifeOf
  <2> QED BY <2>1 DEF Lives, EdgesOK
<1>8. \A i \in 1..Len(chain') : i + 1 \in 1..Len(chain) /\ chain'[i] = chain[i + 1]
  BY Taken DEF IInv, Types, ChainTyped
<1>9. ConductedOK'
  <2> SUFFICES ASSUME NEW i \in 1..Len(chain'), chain'[i].conducted
               PROVE  /\ chain'[i].w \in conducted
                      /\ \A j \in 1..Len(chain') : i < j /\ chain'[i].w = chain'[j].w => chain'[j].conducted
    BY DEF ConductedOK
  <2>1. chain'[i].w \in conducted
    BY <1>8 DEF Lives, ConductedOK
  <2>2. ASSUME NEW j \in 1..Len(chain'), i < j, chain'[i].w = chain'[j].w PROVE chain'[j].conducted
    <3>1. i + 1 < j + 1
      BY <2>2
    <3> QED BY <1>8, <2>2, <3>1 DEF Lives, ConductedOK
  <2> QED BY <2>1, <2>2
<1>10. FollowedOK'
  <2> SUFFICES ASSUME NEW w \in Session \ gaps', NEW i \in 1..Len(file), LifeOf(file[i], w)
               PROVE  w \in Bound(proj)' \/ Followed(w)'
    BY DEF FollowedOK, LifeOf
  <2>1. w \in Bound(proj) \/ Followed(w)
    BY DEF Lives, FollowedOK
  <2> QED BY <1>8, <2>1 DEF Followed
<1>11. Alternating'
  BY <1>5 DEF Alternating
<1>12. DueNext'
  BY <1>6 DEF DueNext
<1> QED BY <1>7, <1>9, <1>10, <1>11, <1>12 DEF Lives

\* The first row of the chain goes to the end of the file.
LEMMA LivesWritten ==
  ASSUME IInv, Lives, Write, ~torn
  PROVE  Lives'
<1> DEFINE row == Head(chain)
<1>1. /\ chain # <<>> /\ Wanted(row) /\ chain' = Tail(chain) /\ file' = Append(file, Stored(row))
      /\ proj' = Applied(proj, row) /\ gaps' = gaps /\ UNCHANGED <<session, lifecycle, conducted>>
  BY DEF Write, outside
<1>2. row \in RowType /\ Foldable(row) /\ Stored(row) \in StoredRow
  <2>1. row = Head(chain)
    OBVIOUS
  <2> HIDE DEF row
  <2> QED BY <1>1, <2>1, HeadRow
<1>3. /\ chain \in Seq(RowType) /\ file \in Seq(StoredRow) /\ Consistent(proj) /\ Consistent(Folded(file))
      /\ Len(file) \in Nat /\ Len(chain) \in Nat /\ Total \in Nat
  BY Lengths DEF IInv, Types, ChainTyped, LogTyped, LogOK
<1>4. /\ row = chain[1] /\ 1 \in 1..Len(chain) /\ Len(chain') = Len(chain) - 1
      /\ \A i \in 1..Len(chain') : i + 1 \in 1..Len(chain) /\ chain'[i] = chain[i + 1] /\ i + 1 # 1
  BY <1>1, <1>3, Taken, HeadTailProperties
<1> HIDE DEF row
<1>5. /\ Len(file') = Len(file) + 1 /\ file'[Len(file) + 1] = Stored(row)
      /\ \A i \in 1..Len(file) : file'[i] = file[i]
      /\ \A i \in 1..Len(file') : (i \in 1..Len(file) /\ file'[i] = file[i]) \/ file'[i] = Stored(row)
  BY <1>1, <1>2, <1>3, Queued
<1>6. Stored(row).kind = row.kind /\ Stored(row).w = row.w
  BY DEF Stored
<1>7. Total' = Total
  BY <1>3, <1>4, <1>5 DEF Total
<1>8. ASSUME NEW i \in 1..Total PROVE Told(i)'.kind = Told(i).kind /\ Told(i)'.w = Told(i).w
  <2>1. CASE i <= Len(file)
    <3>1. Told(i)' = file'[i] /\ Told(i) = file[i] /\ i \in 1..Len(file)
      BY <1>3, <1>5, <2>1 DEF Told
    <3> QED BY <1>5, <3>1
  <2>2. CASE i = Len(file) + 1
    <3>1. Told(i)' = Stored(row) /\ Told(i) = row
      BY <1>3, <1>4, <1>5, <2>2 DEF Told
    <3> QED BY <1>6, <3>1
  <2>3. CASE i > Len(file) + 1
    <3>1. Told(i)' = chain'[i - (Len(file) + 1)] /\ Told(i) = chain[i - Len(file)]
      <4>1. ~(i <= Len(file)) /\ ~(i <= Len(file'))
        BY <1>3, <1>5, <2>3
      <4> QED BY <1>5, <4>1 DEF Told
    <3>2. i - (Len(file) + 1) \in 1..Len(chain') /\ (i - (Len(file) + 1)) + 1 = i - Len(file)
      BY <1>3, <1>4, <2>3 DEF Total
    <3> QED BY <1>4, <3>1, <3>2
  <2> QED BY <1>3, <2>1, <2>2, <2>3
<1>9. Alternating' /\ DueNext'
  <2>1. \A w, i : i \in 1..Total => (LifeOf(Told(i), w)' <=> LifeOf(Told(i), w))
    BY <1>8 DEF LifeOf
  <2>2. \A w : Due(w)' = Due(w)
    BY <1>1 DEF Due
  <2>3. Alternating'
    BY <1>1, <1>7, <1>8, <2>1 DEF Lives, Alternating
  <2>4. DueNext'
    BY <1>1, <1>7, <1>8, <2>1, <2>2 DEF Lives, DueNext
  <2> QED BY <2>3, <2>4
<1>10. EdgesOK'
  BY <1>1, <1>7, <1>8 DEF Lives, EdgesOK, LifeOf
<1>11. ConductedOK'
  <2> SUFFICES ASSUME NEW i \in 1..Len(chain'), chain'[i].conducted
               PROVE  /\ chain'[i].w \in conducted
                      /\ \A j \in 1..Len(chain') : i < j /\ chain'[i].w = chain'[j].w => chain'[j].conducted
    BY <1>1 DEF ConductedOK
  <2>1. chain'[i].w \in conducted
    BY <1>4 DEF Lives, ConductedOK
  <2>2. ASSUME NEW j \in 1..Len(chain'), i < j, chain'[i].w = chain'[j].w PROVE chain'[j].conducted
    <3>1. i + 1 < j + 1
      BY <2>2
    <3> QED BY <1>4, <2>2, <3>1 DEF Lives, ConductedOK
  <2> QED BY <2>1, <2>2
<1>12. Bound(proj) \subseteq Bound(proj)'
  BY <1>1, <1>2, <1>3, BoundApplied
<1>13. FollowedOK'
  <2> SUFFICES ASSUME NEW w \in Session \ gaps, NEW i \in 1..Len(file'), LifeOf(file'[i], w)
               PROVE  w \in Bound(proj)' \/ Followed(w)'
    BY <1>1 DEF FollowedOK, LifeOf
  <2>1. w \in Bound(proj) \/ (w \in conducted /\ \A j \in 2..Len(chain) : chain[j].w = w => chain[j].conducted)
    <3>1. CASE i \in 1..Len(file) /\ file'[i] = file[i]
      BY <3>1 DEF Lives, FollowedOK, Followed
    <3>2. CASE file'[i] = Stored(row)
      <4>1. row.w = w /\ row.kind \in {"retire", "resume"}
        BY <1>6, <3>2 DEF LifeOf
      <4>2. row.conducted \/ w \in Bound(proj)
        BY <1>1, <4>1 DEF Wanted
      <4> QED BY <1>4, <4>1, <4>2 DEF Lives, ConductedOK
    <3> QED BY <1>5, <3>1, <3>2
  <2>2. \A j \in 1..Len(chain') : j + 1 \in 2..Len(chain) /\ chain'[j] = chain[j + 1]
    BY <1>3, <1>4
  <2> QED BY <1>1, <1>12, <2>1, <2>2 DEF Followed
<1>14. ReloadOK'
  <2>1. Folded(file)' = Applied(Folded(file), row)
    BY <1>1, <1>2, <1>3, FoldedAppend, AppliedStored
  <2>2. Bound(Applied(Folded(file), row)) =
          IF row.kind = "spawn" THEN Bound(Folded(file)) \cup {row.w} ELSE Bound(Folded(file))
    BY <1>2, <1>3, BoundApplied
  <2>3. Bound(proj)' = IF row.kind = "spawn" THEN Bound(proj) \cup {row.w} ELSE Bound(proj)
    BY <1>1, <1>2, <1>3, BoundApplied
  <2>4. Bound(Folded(file))' = Bound(Applied(Folded(file), row))
    BY <2>1 DEF Bound
  <2> QED BY <1>1, <2>2, <2>3, <2>4 DEF Lives, ReloadOK
<1> QED BY <1>9, <1>10, <1>11, <1>13, <1>14 DEF Lives

\* A server that is killed loses rows only of sessions that were alive or had rows on their way.
LEMMA LivesCrashed ==
  ASSUME IInv, Lives, Crash
  PROVE  Lives'
<1> DEFINE row == Head(chain)
<1>1. /\ proj' = Folded(file') /\ chain' = <<>> /\ conducted' = conducted
      /\ session' = [w \in Session |-> IF session[w] = "new" THEN "new" ELSE "dead"]
      /\ lifecycle' = [w \in Session |-> "none"]
      /\ gaps' = gaps \cup Live \cup {chain[i].w : i \in DOMAIN chain}
  BY DEF Crash
<1>2. /\ chain \in Seq(RowType) /\ file \in Seq(StoredRow) /\ Consistent(Folded(file))
      /\ Len(file) \in Nat /\ Len(chain) \in Nat /\ Total \in Nat
      /\ session \in [Session -> {"new", "dead", "launching", "up"}]
  BY Lengths DEF IInv, Types, SessionsTyped, ChainTyped, LogTyped, LogOK
<1>3. file' = file \/ (chain # <<>> /\ file' = Append(file, Stored(row)))
  BY DEF Crash
<1>4. chain # <<>> => /\ row = chain[1] /\ 1 \in 1..Len(chain) /\ Foldable(row) /\ Stored(row) \in StoredRow
  <2>1. row = Head(chain)
    OBVIOUS
  <2> HIDE DEF row
  <2> QED BY <1>2, <2>1, HeadRow, Taken
<1> HIDE DEF row
<1>5. Stored(row).w = row.w /\ Stored(row).kind = row.kind
  BY DEF Stored
<1>6. /\ Len(file') \in Nat /\ Len(file) <= Len(file') /\ \A i \in 1..Len(file) : file'[i] = file[i]
      /\ \A i \in 1..Len(file') : \/ i \in 1..Len(file) /\ file'[i] = file[i]
                                  \/ i = Len(file) + 1 /\ file'[i] = Stored(row) /\ chain # <<>>
  <2>1. CASE file' = file
    BY <1>2, <2>1
  <2>2. CASE chain # <<>> /\ file' = Append(file, Stored(row))
    BY <1>2, <1>4, <2>2, Queued
  <2> QED BY <1>3, <2>1, <2>2
<1>7. Total' = Len(file') /\ \A i \in 1..Len(file') : Told(i)' = file'[i]
  <2>1. Len(chain') = 0
    BY <1>1
  <2> QED BY <1>6, <2>1 DEF Total, Told
<1>8. \A i \in 1..Len(file) : Told(i) = file[i] /\ i \in 1..Total
  BY <1>2 DEF Told, Total
<1>9. ASSUME NEW w \in Session \ gaps'
      PROVE  /\ w \notin gaps /\ session[w] \in {"new", "dead"} /\ \A i \in 1..Len(chain) : chain[i].w # w
             /\ chain # <<>> => row.w # w
  <2>1. w \notin gaps /\ w \notin Live /\ w \notin {chain[i].w : i \in DOMAIN chain}
    BY <1>1, <1>9
  <2>2. DOMAIN chain = 1..Len(chain)
    BY <1>2
  <2>3. \A i \in 1..Len(chain) : chain[i].w # w
    BY <2>1, <2>2
  <2> QED BY <1>2, <1>4, <2>1, <2>3 DEF Live
<1>10. ASSUME NEW w \in Session \ gaps', NEW i \in 1..Total', LifeOf(Told(i), w)'
       PROVE  i \in 1..Len(file) /\ Told(i)' = Told(i) /\ LifeOf(Told(i), w) /\ i \in 1..Total
  <2>1. file'[i].w = w /\ i \in 1..Len(file')
    BY <1>7, <1>10 DEF LifeOf
  <2>2. i \in 1..Len(file) /\ file'[i] = file[i]
    BY <1>5, <1>6, <1>9, <2>1
  <2> QED BY <1>7, <1>8, <1>10, <2>1, <2>2 DEF LifeOf
<1>11. ASSUME NEW w \in Session \ gaps', NEW i \in 1..Total, LifeOf(Told(i), w)
       PROVE  i \in 1..Total' /\ Told(i)' = Told(i) /\ LifeOf(Told(i), w)'
  <2>1. i <= Len(file)
    <3> SUFFICES ASSUME ~(i <= Len(file)) PROVE FALSE
      BY <1>2
    <3>1. i - Len(file) \in 1..Len(chain)
      BY <1>2 DEF Total
    <3>2. Told(i) = chain[i - Len(file)]
      BY DEF Told
    <3> QED BY <1>9, <1>11, <3>1, <3>2 DEF LifeOf
  <2>2. i \in 1..Len(file) /\ i \in 1..Len(file')
    BY <1>2, <1>6, <2>1
  <2> QED BY <1>6, <1>7, <1>8, <1>11, <2>2 DEF LifeOf
<1>12. Alternating'
  <2> SUFFICES ASSUME NEW w \in Session \ gaps', NEW i \in 1..Total', NEW j \in 1..Total', i < j,
                      LifeOf(Told(i), w)', LifeOf(Told(j), w)', Told(i)'.kind = Told(j)'.kind
               PROVE  \E k \in 1..Total' : i < k /\ k < j /\ LifeOf(Told(k), w)' /\ Told(k)'.kind # Told(i)'.kind
    BY DEF Alternating
  <2>1. /\ w \in Session \ gaps
        /\ i \in 1..Total /\ LifeOf(Told(i), w) /\ Told(i)' = Told(i)
        /\ j \in 1..Total /\ LifeOf(Told(j), w) /\ Told(j)' = Told(j)
    BY <1>9, <1>10
  <2>2. PICK k \in 1..Total : i < k /\ k < j /\ LifeOf(Told(k), w) /\ Told(k).kind # Told(i).kind
    BY <2>1 DEF Lives, Alternating
  <2> QED BY <1>11, <2>1, <2>2
<1>13. DueNext'
  <2> SUFFICES ASSUME NEW w \in Session \ gaps', NEW i \in 1..Total', LifeOf(Told(i), w)', Told(i)'.kind = Due(w)'
               PROVE  \E k \in 1..Total' : i < k /\ LifeOf(Told(k), w)' /\ Told(k)'.kind # Due(w)'
    BY DEF DueNext
  <2>1. Due(w)' = Due(w) /\ w \in Session \ gaps
    BY <1>1, <1>9 DEF Due, Lives, EdgesOK
  <2>2. PICK k \in 1..Total : i < k /\ LifeOf(Told(k), w) /\ Told(k).kind # Due(w)
    BY <1>10, <2>1 DEF Lives, DueNext
  <2> QED BY <1>11, <2>1, <2>2
<1>14. EdgesOK'
  <2>1. ASSUME NEW w \in Session, session'[w] = "new", NEW i \in 1..Total' PROVE ~LifeOf(Told(i), w)'
    <3> SUFFICES ASSUME LifeOf(file'[i], w) PROVE FALSE
      BY <1>7 DEF LifeOf
    <3>1. session[w] = "new"
      BY <1>1, <2>1
    <3>2. \A k \in 1..Total : ~LifeOf(Told(k), w)
      BY <3>1 DEF Lives, EdgesOK
    <3>3. CASE i \in 1..Len(file) /\ file'[i] = file[i]
      BY <1>8, <3>2, <3>3
    <3>4. CASE i = Len(file) + 1 /\ file'[i] = Stored(row) /\ chain # <<>>
      <4>1. Len(file) + 1 \in 1..Total /\ Told(Len(file) + 1) = row
        BY <1>2, <1>4, <3>4 DEF Total, Told
      <4> QED BY <1>5, <3>2, <3>4, <4>1 DEF LifeOf
    <3> QED BY <1>6, <1>7, <3>3, <3>4
  <2> QED BY <1>1, <2>1 DEF EdgesOK
<1>15. Len(chain') = 0
  BY <1>1
<1>16. ConductedOK'
  BY <1>15 DEF ConductedOK
<1>17. FollowedOK'
  <2> SUFFICES ASSUME NEW w \in Session \ gaps', NEW i \in 1..Len(file'), LifeOf(file'[i], w)
               PROVE  w \in Bound(proj)' \/ Followed(w)'
    BY DEF FollowedOK, LifeOf
  <2>1. i \in 1..Len(file) /\ file'[i] = file[i] /\ w \notin gaps
    BY <1>5, <1>6, <1>9 DEF LifeOf
  <2>2. w \in Bound(Folded(file)) \/ w \in conducted
    BY <2>1 DEF Lives, FollowedOK, Followed, ReloadOK
  <2>3. Bound(Folded(file)) \subseteq Bound(proj)'
    <3>1. CASE file' = file
      BY <1>1, <3>1 DEF Bound
    <3>2. CASE chain # <<>> /\ file' = Append(file, Stored(row))
      <4>1. proj' = Applied(Folded(file), row)
        BY <1>1, <1>2, <1>4, <3>2, FoldedAppend, AppliedStored
      <4>2. Bound(Folded(file)) \subseteq Bound(Applied(Folded(file), row))
        BY <1>2, <1>4, <3>2, BoundApplied
      <4> QED BY <4>1, <4>2 DEF Bound
    <3> QED BY <1>3, <3>1, <3>2
  <2> QED BY <1>1, <1>15, <2>2, <2>3 DEF Followed
<1>18. ReloadOK'
  BY <1>1 DEF ReloadOK, Bound
<1> QED BY <1>12, <1>13, <1>14, <1>16, <1>17, <1>18 DEF Lives

-----------------------------------------------------------------------------
(* The actions. *)

\* A row nobody wants is dropped.
LEMMA SkipTells ==
  ASSUME IInv, Lives, Skip
  PROVE  Lives'
<1>1. /\ chain # <<>> /\ ~Wanted(Head(chain)) /\ chain' = Tail(chain)
      /\ UNCHANGED <<file, session, lifecycle, conducted, gaps, proj>>
  BY DEF Skip, outside, ledger
<1>2. Head(chain) = chain[1] /\ 1 \in 1..Len(chain)
  BY <1>1, Taken DEF IInv, Types, ChainTyped
<1>3. ASSUME NEW w \in Session \ gaps, LifeOf(Head(chain), w), NEW i \in 1..Len(file), LifeOf(file[i], w)
      PROVE  FALSE
  <2>1. ~Head(chain).conducted /\ w \notin Bound(proj) /\ Head(chain).w = w
    BY <1>1, <1>3 DEF Wanted, LifeOf
  <2>2. w \in Bound(proj) \/ Followed(w)
    BY <1>3 DEF Lives, FollowedOK
  <2> QED BY <1>2, <2>1, <2>2 DEF Followed
<1>4. ReloadOK'
  BY <1>1 DEF Lives, ReloadOK, Bound
<1>5. Bound(proj) \subseteq Bound(proj)'
  BY <1>1 DEF Bound
<1> QED BY <1>1, <1>3, <1>4, <1>5, LivesDropped

\* A row is lost to a failed write, and its session excused.
LEMMA WriteFailsTells ==
  ASSUME IInv, Lives, WriteFails
  PROVE  Lives'
<1>1. /\ chain # <<>> /\ chain' = Tail(chain) /\ gaps' = gaps \cup {Head(chain).w}
      /\ UNCHANGED <<file, session, lifecycle, conducted, proj>>
  BY DEF WriteFails, outside
<1>2. \A w \in Session \ gaps' : ~LifeOf(Head(chain), w)
  BY <1>1 DEF LifeOf
<1>3. ReloadOK' /\ Bound(proj) \subseteq Bound(proj)' /\ gaps \subseteq gaps'
  BY <1>1 DEF Lives, ReloadOK, Bound
<1> QED BY <1>1, <1>2, <1>3, LivesDropped

\* Behind a fragment the row is as good as lost.
LEMMA GluedTells ==
  ASSUME IInv, Lives, Write, torn
  PROVE  Lives'
<1> DEFINE row == Head(chain)
<1>1. /\ chain # <<>> /\ chain' = Tail(chain) /\ gaps' = gaps \cup {row.w} /\ proj' = Applied(proj, row)
      /\ UNCHANGED <<file, session, lifecycle, conducted>>
  BY DEF Write, outside
<1>2. Foldable(row) /\ Consistent(proj)
  <2>1. row = Head(chain)
    OBVIOUS
  <2> HIDE DEF row
  <2> QED BY <1>1, <2>1, HeadRow DEF IInv, Types
<1>3. Bound(proj)' = IF row.kind = "spawn" THEN Bound(proj) \cup {row.w} ELSE Bound(proj)
  <2> HIDE DEF row
  <2> QED BY <1>1, <1>2, BoundApplied DEF Bound
<1>4. \A w \in Session \ gaps' : ~LifeOf(row, w)
  BY <1>1 DEF LifeOf
<1>5. ReloadOK'
  BY <1>1, <1>3 DEF Lives, ReloadOK, Bound
<1>6. Bound(proj) \subseteq Bound(proj)' /\ gaps \subseteq gaps'
  BY <1>1, <1>3
<1> QED BY <1>1, <1>4, <1>5, <1>6, LivesDropped

\* A dead status: the row is queued unless the edge has been taken.
LEMMA DeadTells ==
  ASSUME IInv, Lives, NEW w \in Session, DeadStatus(w), session[w] \in {"up", "dead"},
         session' = [session EXCEPT ![w] = "dead"], UNCHANGED <<file, proj, conducted, gaps>>,
         lifecycle[w] # "none"
  PROVE  Lives'
<1>1. /\ session \in [Session -> {"new", "dead", "launching", "up"}]
      /\ lifecycle \in [Session -> {"none", "alive", "dead"}] /\ lifecycle' = [lifecycle EXCEPT ![w] = "dead"]
  BY DEF IInv, Types, SessionsTyped, DeadStatus
<1>2. /\ \A x \in Session : session'[x] = "new" => session[x] = "new" /\ x # w
      /\ \A x \in Session : session'[x] = "up" => lifecycle'[x] = "alive"
      /\ \A x \in Session \ gaps : lifecycle'[x] = "alive" => session'[x] = "up"
  BY <1>1 DEF Lives, EdgesOK
<1>3. CASE lifecycle[w] = "dead"
  <2>1. chain' = chain
    BY <1>3 DEF DeadStatus
  <2>2. \A x \in Session : Due(x)' = Due(x)
    BY <1>1, <1>3 DEF Due
  <2> QED BY <1>2, <2>1, <2>2, LivesStay
<1>4. CASE lifecycle[w] = "alive"
  <2> DEFINE r == LifeRow("retire", w)
  <2>1. chain' = Append(chain, r)
    BY <1>4 DEF DeadStatus
  <2>2. r.kind = "retire" /\ r.w = w /\ (r.conducted <=> w \in conducted)
    BY DEF LifeRow, Row
  <2>3. r \in RowType
    BY LifeRowType DEF IInv
  <2> HIDE DEF r
  <2>4. \A x \in Session : IF LifeOf(r, x) THEN r.kind = Due(x) /\ Due(x)' # Due(x) ELSE Due(x)' = Due(x)
    BY <1>1, <1>4, <2>2 DEF Due, LifeOf
  <2>5. \A x \in Session : session'[x] = "new" => session[x] = "new" /\ ~LifeOf(r, x)
    BY <1>2, <2>2 DEF LifeOf
  <2> QED BY <1>2, <2>1, <2>2, <2>3, <2>4, <2>5, LivesQueued
<1> QED BY <1>1, <1>3, <1>4

\* A relaunch: the row is queued unless an early status has taken the edge.
LEMMA RelaunchTells ==
  ASSUME IInv, Lives, NEW w \in Session, Relaunched(w)
  PROVE  Lives'
<1>1. /\ session \in [Session -> {"new", "dead", "launching", "up"}]
      /\ lifecycle \in [Session -> {"none", "alive", "dead"}] /\ lifecycle' = [lifecycle EXCEPT ![w] = "alive"]
      /\ session[w] = "launching" /\ session' = [session EXCEPT ![w] = "up"]
      /\ UNCHANGED <<file, proj, conducted, gaps>>
  BY DEF IInv, Types, SessionsTyped, Relaunched, ledger
<1>2. /\ \A x \in Session : session'[x] = "new" => session[x] = "new" /\ x # w
      /\ \A x \in Session : session'[x] = "up" => lifecycle'[x] = "alive"
      /\ \A x \in Session \ gaps : lifecycle'[x] = "alive" => session'[x] = "up"
  BY <1>1 DEF Lives, EdgesOK
<1>3. CASE lifecycle[w] = "alive"
  <2>1. chain' = chain
    BY <1>3 DEF Relaunched
  <2>2. \A x \in Session : Due(x)' = Due(x)
    BY <1>1, <1>3 DEF Due
  <2> QED BY <1>1, <1>2, <2>1, <2>2, LivesStay
<1>4. CASE lifecycle[w] # "alive"
  <2> DEFINE r == LifeRow("resume", w)
  <2>1. chain' = Append(chain, r)
    BY <1>4 DEF Relaunched
  <2>2. r.kind = "resume" /\ r.w = w /\ (r.conducted <=> w \in conducted)
    BY DEF LifeRow, Row
  <2>3. r \in RowType
    BY LifeRowType DEF IInv
  <2> HIDE DEF r
  <2>4. \A x \in Session : IF LifeOf(r, x) THEN r.kind = Due(x) /\ Due(x)' # Due(x) ELSE Due(x)' = Due(x)
    BY <1>1, <1>4, <2>2 DEF Due, LifeOf
  <2>5. \A x \in Session : session'[x] = "new" => session[x] = "new" /\ ~LifeOf(r, x)
    BY <1>2, <2>2 DEF LifeOf
  <2> QED BY <1>1, <1>2, <2>1, <2>2, <2>3, <2>4, <2>5, LivesQueued
<1> QED BY <1>3, <1>4

\* Steps that queue and write no row, and a commit's.
LEMMA CallTells ==
  ASSUME IInv, Lives, NEW c \in Call, Calling(c)
  PROVE  Lives'
<1>1. /\ session \in [Session -> {"new", "dead", "launching", "up"}]
      /\ lifecycle \in [Session -> {"none", "alive", "dead"}]
      /\ calls[c] \in CallType /\ CallOK(calls[c])
  BY DEF IInv, Types, SessionsTyped, CallsTyped, CallsOK
<1>2. CASE \E ask \in Asks : Check(c, ask)
  BY <1>2, LivesStay DEF Check, outside, ledger, Lives, EdgesOK, Due
<1>3. CASE \E w \in Session : CreateFresh(c, w)
  <2>1. PICK w \in Session : CreateFresh(c, w)
    BY <1>3
  <2>2. /\ session[w] = "new" /\ session' = [session EXCEPT ![w] = "up"]
        /\ lifecycle' = [lifecycle EXCEPT ![w] = "alive"] /\ conducted' = conducted \cup {w}
        /\ UNCHANGED <<file, chain, proj, gaps>>
    BY <2>1 DEF CreateFresh, ledger
  <2>3. /\ \A x \in Session : session'[x] = "new" => session[x] = "new"
        /\ \A x \in Session : session'[x] = "up" => lifecycle'[x] = "alive"
        /\ \A x \in Session \ gaps : lifecycle'[x] = "alive" => session'[x] = "up"
    BY <1>1, <2>2 DEF Lives, EdgesOK
  <2>4. \A x \in Session : session[x] = "new" \/ Due(x)' = Due(x)
    BY <1>1, <2>2 DEF Due
  <2> QED BY <2>2, <2>3, <2>4, LivesStay
<1>4. CASE CreateResumed(c)
  <2>1. UNCHANGED <<lifecycle, file, chain, proj, gaps>> /\ conducted \subseteq conducted'
    BY <1>4 DEF CreateResumed
  <2>2. \A x \in Session : \/ session'[x] = session[x]
                         \/ (session[x] # "up" /\ session'[x] = "launching")
    <3>1. session' = session \/ (session[calls[c].w] # "up" /\ session' = [session EXCEPT ![calls[c].w] = "launching"])
      BY <1>4 DEF CreateResumed
    <3> QED BY <1>1, <3>1
  <2> QED BY <2>1, <2>2, LivesStay DEF Lives, EdgesOK, Due
<1>5. CASE HandlerFails(c)
  BY <1>5, LivesStay DEF HandlerFails, outside, ledger, Lives, EdgesOK, Due
<1>6. CASE Kill(c)
  <2>1. calls[c].w \in Session
    BY <1>1, <1>6, GateAssumption DEF Kill, CallType, CallOK
  <2>2. lifecycle[calls[c].w] = "alive"
    BY <1>6, <2>1 DEF Kill, Lives, EdgesOK
  <2> QED BY <1>6, <2>1, <2>2, DeadTells DEF Kill, ledger
<1>7. CASE HandlerReturns(c)
  <2>1. UNCHANGED <<session, lifecycle, conducted, file, proj, gaps>>
    BY <1>7 DEF HandlerReturns, outside, ledger
  <2>2. CASE chain' = chain
    BY <2>1, <2>2, LivesStay DEF Lives, EdgesOK, Due
  <2>3. CASE chain' # chain
    <3> DEFINE r == Row(CHOOSE k \in RowKind(c) : TRUE, calls[c].w, calls[c].stage, calls[c].prov, c)
    <3>1. chain' = Append(chain, r) /\ RowKind(c) # {}
      BY <1>7, <2>3 DEF HandlerReturns
    <3>2. RowKind(c) \subseteq {"spawn", "transition"}
      BY DEF RowKind
    <3>3. /\ r.kind \in {"spawn", "transition"} /\ r.w = calls[c].w
          /\ r = Row(r.kind, calls[c].w, calls[c].stage, calls[c].prov, c)
      BY <3>1, <3>2 DEF Row
    <3>4. calls[c].w \in Session
      BY <1>1, <1>7 DEF HandlerReturns, Returned, CallType, CallOK
    <3> HIDE DEF r
    <3>5. r \in RowType /\ (r.conducted <=> r.w \in conducted)
      <4>1. calls[c].stage \in Stage \cup {NoStage} /\ calls[c].prov \in SUBSET Session
        BY <1>1 DEF CallType
      <4>2. Row(r.kind, calls[c].w, calls[c].stage, calls[c].prov, c) \in RowType
        BY <3>3, <3>4, <4>1 DEF Row, RowType, RowKinds
      <4>3. Row(r.kind, calls[c].w, calls[c].stage, calls[c].prov, c).conducted <=> calls[c].w \in conducted
        BY DEF Row
      <4> QED BY <3>3, <4>2, <4>3
    <3>6. \A x \in Session : ~LifeOf(r, x) /\ Due(x)' = Due(x)
      BY <2>1, <3>3 DEF LifeOf, Due
    <3> QED BY <2>1, <3>1, <3>3, <3>5, <3>6, LivesQueued DEF Lives, EdgesOK
  <2> QED BY <2>2, <2>3
<1> QED BY <1>2, <1>3, <1>4, <1>5, <1>6, <1>7 DEF Calling

\* What happens to a session by itself.
LEMMA HappeningTells ==
  ASSUME IInv, Lives, NEW w \in Session, Happening(w)
  PROVE  Lives'
<1>1. /\ session \in [Session -> {"new", "dead", "launching", "up"}]
      /\ lifecycle \in [Session -> {"none", "alive", "dead"}]
  BY DEF IInv, Types, SessionsTyped
<1>2. CASE Dies(w)
  <2>1. lifecycle[w] # "none"
    BY <1>2 DEF Dies, Lives, EdgesOK
  <2> QED BY <1>2, <2>1, DeadTells DEF Dies, ledger
<1>3. CASE DeadAgain(w)
  <2>1. session' = [session EXCEPT ![w] = "dead"]
    BY <1>1, <1>3 DEF DeadAgain
  <2> QED BY <1>3, <2>1, DeadTells DEF DeadAgain, ledger
<1>4. CASE Revive(w)
  BY <1>1, <1>4, LivesStay DEF Revive, Lives, EdgesOK, Due
<1>5. CASE EarlyStatus(w)
  <2>1. /\ lifecycle' = [lifecycle EXCEPT ![w] = "alive"] /\ gaps' = gaps \cup {w}
        /\ UNCHANGED <<session, conducted, chain, file, proj>>
    BY <1>5 DEF EarlyStatus, ledger
  <2>2. /\ \A x \in Session : session'[x] = "up" => lifecycle'[x] = "alive"
        /\ \A x \in Session \ gaps' : lifecycle'[x] = lifecycle[x]
    BY <1>1, <2>1 DEF Lives, EdgesOK
  <2> QED BY <2>1, <2>2, LivesStay DEF Lives, EdgesOK, Due
<1>6. CASE Relaunched(w)
  BY <1>6, RelaunchTells
<1>7. CASE LaunchRefused(w)
  BY <1>1, <1>7, LivesStay DEF LaunchRefused, ledger, Lives, EdgesOK, Due
<1> QED BY <1>2, <1>3, <1>4, <1>5, <1>6, <1>7 DEF Happening

\* It holds initially.
LEMMA InitLives == Init => Lives
<1> SUFFICES ASSUME Init PROVE Lives
  OBVIOUS
<1>1. Len(file) = 0 /\ Len(chain) = 0 /\ Total = 0
  BY DEF Init, Total
<1>2. \A w \in Session : session[w] # "up" /\ lifecycle[w] = "none" /\ w \notin Bound(proj)
  BY DEF Init, Bound, Empty
<1> QED BY <1>1, <1>2 DEF Lives, Alternating, DueNext, EdgesOK, ConductedOK, FollowedOK, ReloadOK

\* Every step keeps it.
LEMMA NextLives == IInv /\ Lives /\ [Next]_vars => Lives'
<1> SUFFICES ASSUME IInv, Lives, [Next]_vars PROVE Lives'
  OBVIOUS
<1>1. CASE UNCHANGED vars
  BY <1>1, LivesStay DEF vars, outside, ledger, Lives, EdgesOK, Due
<1>2. CASE Write
  BY <1>2, LivesWritten, GluedTells
<1> QED BY <1>1, <1>2, CallTells, HappeningTells, SkipTells, WriteFailsTells, LivesCrashed DEF Next

-----------------------------------------------------------------------------
\* Between two deaths of a session the ledger has its return, and between two
\* returns its death: onStatus, the chain and the appends in playbookLedger.ts.
THEOREM LivesInOrder == Spec => []LivesAlternate
<1>1. IInv /\ Lives => LivesAlternate
  <2> SUFFICES ASSUME IInv, Lives, NEW w \in Session \ gaps, NEW i \in DOMAIN file, NEW j \in DOMAIN file,
                      i < j, LifeOf(file[i], w), LifeOf(file[j], w), file[i].kind = file[j].kind
               PROVE  \E k \in (i + 1)..(j - 1) : LifeOf(file[k], w) /\ file[k].kind # file[i].kind
    BY DEF LivesAlternate
  <2>1. DOMAIN file = 1..Len(file) /\ Len(file) \in Nat /\ Len(chain) \in Nat
    BY Lengths DEF IInv, Types, LogTyped
  <2>2. \A k \in 1..Len(file) : k \in 1..Total /\ Told(k) = file[k]
    BY <2>1 DEF Total, Told
  <2>3. PICK k \in 1..Total : i < k /\ k < j /\ LifeOf(Told(k), w) /\ Told(k).kind # Told(i).kind
    BY <2>1, <2>2 DEF Lives, Alternating
  <2>4. k \in 1..Len(file) /\ k \in (i + 1)..(j - 1)
    BY <2>1, <2>3
  <2> QED BY <2>1, <2>2, <2>3, <2>4
<1> QED BY <1>1, Invariant, InitLives, NextLives, PTL DEF Spec
=============================================================================
