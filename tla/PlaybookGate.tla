---------------------------- MODULE PlaybookGate ----------------------------
(***************************************************************************)
(* The playbook gate (src/mcp/playbookGate.ts), its ledger                 *)
(* (src/playbookLedger.ts) and the decision (decide, src/playbooks.ts).  A *)
(* conductor's tool calls are checked against the projection, run, and     *)
(* only then recorded; calls overlap, sessions die and come back on their  *)
(* own, a row may fail to be written, and the server may crash.            *)
(*                                                                         *)
(* One playbook.  A call names at most one worker as provenance.  Rows     *)
(* that fold to nothing and mark no life (refusals, interactions, wakes,   *)
(* enforcement) are left out, argument pins and the forward source too.    *)
(***************************************************************************)
EXTENDS Naturals, Sequences

CONSTANTS
  Session, NoSession,
  Loose,       \* sessions a person started: not conducted, unknown to the ledger
  Call, NoCall,
  Stage, NoStage,
  Edges,       \* [from, to, on]: the transitions and the tool that drives each
  Spawnable,   \* stages that declare spawn_instance
  Many,        \* stages with workers: "many"
  Denied,      \* <<stage, tool>>
  Needs,       \* stage -> set of [stage, liveness, position]
  MaxCalls,    \* bound of a run: calls allowed
  MaxEvents,   \* bound of a run: deaths, revivals, early statuses
  MaxFaults    \* bound of a run: failed writes and crashes

Tools == {"spawn_instance", "send_prompt", "approve_plan", "kill_instance"}

ASSUME GateAssumption ==
  /\ Loose \subseteq Session /\ NoSession \notin Session
  /\ NoCall \notin Call /\ NoStage \notin Stage
  /\ Edges \subseteq [from : Stage, to : Stage, on : Tools]
  /\ Spawnable \subseteq Stage /\ Many \subseteq Stage
  /\ Denied \subseteq Stage \X Tools
  /\ DOMAIN Needs = Stage
  /\ {MaxCalls, MaxEvents, MaxFaults} \subseteq Nat

VARIABLES
  session,    \* "new", "dead" (no process), "launching", "up"
  conducted,
  lifecycle,  \* per session: "none", "alive", "dead"
  calls,      \* per slot: the call in it
  proj,       \* the projection
  chain,      \* appends not yet written
  file,       \* the ledger's readable rows
  torn,       \* the file ends in an unterminated fragment
  made, events, faults,
  glued,      \* history: a row was written behind a fragment and cannot be read back
  excused,    \* history: workers that came to where they are behind the capacity check
  gaps        \* history: sessions one of whose deaths or returns left no row

outside == <<session, conducted, lifecycle>>
ledger == <<proj, file, torn, faults, glued, excused>>
vars == <<outside, calls, chain, ledger, made, events, gaps>>

Provenance == {{}} \cup {{<<s, w>>} : s \in Stage, w \in Session}
Idle == [at |-> "idle", tool |-> "none", kind |-> "none", w |-> NoSession,
         stage |-> NoStage, prov |-> {}, blind |-> FALSE]

-----------------------------------------------------------------------------
(* The projection *)

Bound(p) == {w \in Session : p.stage[w] # NoStage}
SameRun(p, a, b) == p.run[a] = p.run[b]

\* Every named worker's run and w's become one (union).
Joined(run, w, prov) ==
  IF prov = {} THEN run
  ELSE LET root == run[CHOOSE x \in prov : TRUE]
           merged == {run[w]} \cup {run[x] : x \in prov}
       IN [x \in Session |-> IF run[x] \in merged THEN root ELSE run[x]]

\* Mutant of Applied: a transition moves the stage and leaves the history.
AppliedStageOnly(p, row) ==
  CASE row.kind = "spawn" ->
         [stage |-> [p.stage EXCEPT ![row.w] = row.stage],
          history |-> [p.history EXCEPT ![row.w] = <<row.stage>>],
          run |-> Joined(p.run, row.w, row.prov)]
    [] row.kind = "transition" /\ p.stage[row.w] # NoStage ->
         [p EXCEPT !.stage[row.w] = row.stage]
    [] OTHER -> p

\* applyEvent.  A spawn replaces the worker's state.
Applied(p, row) ==
  CASE row.kind = "spawn" ->
         [stage |-> [p.stage EXCEPT ![row.w] = row.stage],
          history |-> [p.history EXCEPT ![row.w] = <<row.stage>>],
          run |-> Joined(p.run, row.w, row.prov)]
    [] row.kind = "transition" /\ p.stage[row.w] # NoStage ->
         [stage |-> [p.stage EXCEPT ![row.w] = row.stage],
          history |-> [p.history EXCEPT ![row.w] = Append(@, row.stage)],
          run |-> Joined(p.run, row.w, row.prov)]
    [] OTHER -> p

Empty == [stage |-> [w \in Session |-> NoStage],
          history |-> [w \in Session |-> <<>>],
          run |-> [w \in Session |-> w]]

\* load: foldProjection over the rows that can be read.
Folded(rows) ==
  LET fold[i \in 0..Len(rows)] == IF i = 0 THEN Empty ELSE Applied(fold[i - 1], rows[i])
  IN fold[Len(rows)]

-----------------------------------------------------------------------------
(* decide *)

\* isSessionLive: attached, or a launch is under way.
Live == {w \in Session : session[w] \in {"launching", "up"}}
Known == {w \in Session : session[w] # "new"}

LiveIn(stage, anchor) ==
  {w \in Bound(proj) \cap Live : proj.stage[w] = stage /\ SameRun(proj, anchor, w)}

HasEverBeen(w, stage) == \E i \in DOMAIN proj.history[w] : proj.history[w][i] = stage

Satisfies(w, need, anchor) ==
  /\ w \in Bound(proj)
  /\ HasEverBeen(w, need.stage)
  /\ need.liveness = "live" => w \in Live
  /\ need.liveness = "retired" => w \notin Live
  /\ proj.stage[w] \in need.position
  /\ SameRun(proj, anchor, w)

\* checkNeeds; on a spawn the named worker is its own anchor.
NeedsMet(stage, prov, subject) ==
  \A need \in Needs[stage] : \E n \in prov :
    n[1] = need.stage /\ Satisfies(n[2], need, IF subject = NoSession THEN n[2] ELSE subject)

HasRoom(stage, anchor) == stage \in Many \/ LiveIn(stage, anchor) = {}

\* Mutant of SpawnKind: a new worker's room is counted in the run it has so far, its own.
SpawnKindOwnRun(ask) ==
  IF ask.w \in Bound(proj)
  THEN IF ask.prov = {} /\ ask.stage \in {NoStage, proj.stage[ask.w]} THEN "resume" ELSE "refused"
  ELSE IF /\ \A n \in ask.prov : n[2] \in Bound(proj)
          /\ ask.stage \in Spawnable
          /\ NeedsMet(ask.stage, ask.prov, NoSession)
          /\ ask.w = NoSession \/ HasRoom(ask.stage, ask.w)
       THEN "spawn" ELSE "refused"

\* decideSpawn.  A tracked session's resume inherits its binding (decideResume);
\* only a spawn that names a worker joins a run, so only it is counted.
SpawnKind(ask) ==
  IF ask.w \in Bound(proj)
  THEN IF ask.prov = {} /\ ask.stage \in {NoStage, proj.stage[ask.w]} THEN "resume" ELSE "refused"
  ELSE IF /\ \A n \in ask.prov : n[2] \in Bound(proj)
          /\ ask.stage \in Spawnable
          /\ NeedsMet(ask.stage, ask.prov, NoSession)
          /\ \A n \in ask.prov : HasRoom(ask.stage, n[2])
       THEN "spawn" ELSE "refused"

\* resolveMove: the stages the call may lead to from s; s itself moves nothing.
Targets(s, ask) ==
  LET driven == {e.to : e \in {f \in Edges : f.from = s /\ f.on = ask.tool}}
  IN IF ask.tool = "send_prompt" THEN {ask.stage} \cap (driven \cup {s})
     ELSE IF driven = {} THEN {s} ELSE driven

\* A prompt that names the stage its worker is in is no entry; a declared loop is recorded.
Stays(s, ask, to) ==
  to = s /\ (ask.tool = "send_prompt" \/ ~\E e \in Edges : e.from = s /\ e.on = ask.tool)

SelfKind(s, ask) ==
  IF ask.tool = "send_prompt" /\ \E e \in Edges : e.from = s /\ e.to = s THEN "self" ELSE "none"

\* decideTargeted.
TargetedKind(ask) ==
  LET s == proj.stage[ask.w] IN
  IF ask.w \notin Bound(proj) THEN "none"
  ELSE IF <<s, ask.tool>> \in Denied \/ Targets(s, ask) = {} THEN "refused"
  ELSE LET to == CHOOSE t \in Targets(s, ask) : TRUE IN
       IF Stays(s, ask, to) THEN SelfKind(s, ask)
       ELSE IF NeedsMet(to, ask.prov, ask.w) /\ HasRoom(to, ask.w) THEN "transition" ELSE "refused"

Decision(ask) == IF ask.tool = "spawn_instance" THEN SpawnKind(ask) ELSE TargetedKind(ask)

\* The stage a call that moves its worker leads to.
Entered(ask, kind) ==
  IF kind \notin {"spawn", "transition", "self"} THEN NoStage
  ELSE IF ask.tool \in {"spawn_instance", "send_prompt"} THEN ask.stage
  ELSE CHOOSE t \in Targets(proj.stage[ask.w], ask) : TRUE

-----------------------------------------------------------------------------
Init ==
  /\ session = [w \in Session |-> IF w \in Loose THEN "dead" ELSE "new"]
  /\ conducted = {}
  /\ lifecycle = [w \in Session |-> "none"]
  /\ calls = [c \in Call |-> Idle]
  /\ proj = Empty /\ chain = <<>> /\ file = <<>> /\ torn = FALSE
  /\ made = 0 /\ events = 0 /\ faults = 0
  /\ glued = FALSE /\ excused = {} /\ gaps = {}

Event == events < MaxEvents /\ events' = events + 1

(* The event stream *)

Row(kind, w, stage, prov, by) ==
  [kind |-> kind, w |-> w, stage |-> stage, prov |-> prov, by |-> by,
   conducted |-> w \in conducted]

LifeRow(kind, w) == Row(kind, w, NoStage, {}, NoCall)

\* Mutant of DeadStatus: every dead status is a death.
DeadStatusEach(w) ==
  /\ lifecycle' = [lifecycle EXCEPT ![w] = "dead"]
  /\ chain' = Append(chain, LifeRow("retire", w))

\* onStatus on a dead status: the edge is taken at once, the row goes through the chain.
DeadStatus(w) ==
  /\ lifecycle' = [lifecycle EXCEPT ![w] = "dead"]
  /\ chain' = IF lifecycle[w] = "dead" THEN chain ELSE Append(chain, LifeRow("retire", w))

Dies(w) ==
  /\ session[w] = "up" /\ Event
  /\ session' = [session EXCEPT ![w] = "dead"]
  /\ DeadStatus(w)
  /\ UNCHANGED <<conducted, calls, ledger, made, gaps>>

\* A dead session's status is emitted again: exited then crashed, or a new title.
DeadAgain(w) ==
  /\ session[w] = "dead" /\ lifecycle[w] # "none" /\ Event
  /\ DeadStatus(w)
  /\ UNCHANGED <<session, conducted, calls, ledger, made, gaps>>

\* Somebody resumes the session from the user interface.
Revive(w) ==
  /\ session[w] = "dead" /\ Event
  /\ session' = [session EXCEPT ![w] = "launching"]
  /\ excused' = excused \cup ({w} \cap Bound(proj))
  /\ UNCHANGED <<conducted, lifecycle, calls, chain, proj, file, torn, faults, glued, made, gaps>>

\* A title or a toggle is set while the launch awaits: the instance is registered
\* with status idle, so the gate takes it for alive before the relaunch is told.
EarlyStatus(w) ==
  /\ session[w] = "launching" /\ lifecycle[w] # "alive" /\ Event
  /\ lifecycle' = [lifecycle EXCEPT ![w] = "alive"]
  /\ gaps' = gaps \cup {w}
  /\ UNCHANGED <<session, conducted, calls, chain, ledger, made>>

\* session_relaunched, then the spawn's status.
Relaunched(w) ==
  /\ session[w] = "launching"
  /\ session' = [session EXCEPT ![w] = "up"]
  /\ lifecycle' = [lifecycle EXCEPT ![w] = "alive"]
  /\ chain' = IF lifecycle[w] = "alive" THEN chain ELSE Append(chain, LifeRow("resume", w))
  /\ calls' = [c \in Call |-> IF calls[c].at = "waiting" /\ calls[c].w = w
                             THEN [calls[c] EXCEPT !.at = "done"] ELSE calls[c]]
  /\ UNCHANGED <<conducted, ledger, made, events, gaps>>

\* A launch refused before its process: the calls that wait for it fail.
LaunchRefused(w) ==
  /\ session[w] = "launching"
  /\ session' = [session EXCEPT ![w] = "dead"]
  /\ calls' = [c \in Call |-> IF calls[c].at = "waiting" /\ calls[c].w = w THEN Idle ELSE calls[c]]
  /\ UNCHANGED <<conducted, lifecycle, chain, ledger, made, events, gaps>>

-----------------------------------------------------------------------------
(* Calls *)

Asks ==
  [tool : {"spawn_instance"}, w : Known \cup {NoSession}, stage : Stage \cup {NoStage}, prov : Provenance]
  \cup [tool : {"send_prompt"}, w : Known, stage : Stage, prov : Provenance]
  \cup [tool : {"approve_plan", "kill_instance"}, w : Known, stage : {NoStage}, prov : {{}}]

\* The move is between its check and its row.
Moving(c) == calls[c].kind \in {"spawn", "transition"}

\* check: a refused call ends here, or goes on unrecorded (the conductor's
\* playbookEnforcement is "warn", which may be toggled at any time).  Nothing is
\* reserved for an allowed one.
Check(c, ask) ==
  LET kind == Decision(ask)
      goes == IF kind = "refused" THEN "none" ELSE kind
  IN
  /\ calls[c].at = "idle" /\ made < MaxCalls
  /\ made' = made + 1
  /\ calls' = [calls EXCEPT ![c] =
       [at |-> "allowed", tool |-> ask.tool, kind |-> goes, w |-> ask.w,
        stage |-> Entered(ask, goes),
        prov |-> IF goes \in {"spawn", "transition"} THEN {n[2] : n \in ask.prov} ELSE {},
        blind |-> goes \in {"spawn", "transition"} /\ \E d \in Call : Moving(d)]]
  /\ UNCHANGED <<outside, chain, ledger, events, gaps>>

Creates(c) == calls[c].at = "allowed" /\ calls[c].tool = "spawn_instance"

\* spawn_instance without resume: a new session, with an id that no row names, up before the call returns.
CreateFresh(c, w) ==
  /\ Creates(c) /\ calls[c].w = NoSession /\ session[w] = "new" /\ w \notin Bound(proj)
  /\ session' = [session EXCEPT ![w] = "up"]
  /\ conducted' = conducted \cup {w}
  /\ lifecycle' = [lifecycle EXCEPT ![w] = "alive"]
  /\ calls' = [calls EXCEPT ![c].at = "done", ![c].w = w]
  /\ UNCHANGED <<chain, ledger, made, events, gaps>>

\* spawn_instance with resume: it claims the session, or joins the resume that has.
CreateResumed(c) ==
  LET w == calls[c].w IN
  /\ Creates(c) /\ w # NoSession /\ session[w] # "up"
  /\ IF session[w] = "launching" THEN UNCHANGED <<session, conducted, excused>>
     ELSE /\ session' = [session EXCEPT ![w] = "launching"]
          /\ conducted' = conducted \cup {w}
          /\ excused' = excused \cup ({w} \cap Bound(proj))
  /\ calls' = [calls EXCEPT ![c].at = "waiting"]
  /\ UNCHANGED <<lifecycle, chain, proj, file, torn, faults, glued, made, events, gaps>>

\* A handler that throws or answers ok:false; a dead target always ends here.
HandlerFails(c) ==
  /\ calls[c].at = "allowed"
  /\ calls' = [calls EXCEPT ![c] = Idle]
  /\ UNCHANGED <<outside, chain, ledger, made, events, gaps>>

\* kill_instance: the exit's status comes before the call's return.
Kill(c) ==
  LET w == calls[c].w IN
  /\ calls[c].at = "allowed" /\ calls[c].tool = "kill_instance" /\ session[w] = "up"
  /\ session' = [session EXCEPT ![w] = "dead"]
  /\ DeadStatus(w)
  /\ calls' = [calls EXCEPT ![c].at = "done"]
  /\ UNCHANGED <<conducted, ledger, made, events, gaps>>

Returned(c) ==
  \/ calls[c].at = "done"
  \/ /\ calls[c].at = "allowed" /\ calls[c].tool \in {"send_prompt", "approve_plan"}
     /\ session[calls[c].w] = "up"

RowKind(c) ==
  CASE calls[c].kind = "spawn" -> {"spawn"}
    [] calls[c].kind \in {"transition", "self"} -> {"transition"}
    [] OTHER -> {}

\* The handler returns and commitMove runs: a row joins the chain and the reply
\* waits for it; a resume, and a call that moved nothing, is done.
HandlerReturns(c) ==
  /\ Returned(c)
  /\ IF RowKind(c) = {} THEN calls' = [calls EXCEPT ![c] = Idle] /\ UNCHANGED chain
     ELSE /\ calls' = [calls EXCEPT ![c].at = "recording"]
          /\ chain' = Append(chain, Row(CHOOSE k \in RowKind(c) : TRUE, calls[c].w,
                                        calls[c].stage, calls[c].prov, c))
  /\ UNCHANGED <<outside, ledger, made, events, gaps>>

-----------------------------------------------------------------------------
(* The chain *)

\* Mutant of Wanted: a spawn row is written for a session that has one.
WantedAgain(row) == row.kind \in {"spawn", "transition"} \/ row.conducted \/ row.w \in Bound(proj)

\* The thunk, resolved when the row's turn comes: no second declaration, and a
\* lifecycle row for conducted or tracked sessions only.
Wanted(row) ==
  CASE row.kind = "spawn" -> row.w \notin Bound(proj)
    [] row.kind = "transition" -> TRUE
    [] OTHER -> row.conducted \/ row.w \in Bound(proj)

\* Workers that come to share a run without the gate having counted them there.
Smuggled(row) ==
  LET fellows(w) == {x \in Bound(proj) : SameRun(proj, x, w)} IN
  CASE row.kind = "spawn" /\ fellows(row.w) # {} -> fellows(row.w) \cup {row.w}
    [] row.kind = "transition" ->
         UNION {fellows(n) : n \in {m \in row.prov : ~SameRun(proj, m, row.w)}}
    [] OTHER -> {}

\* Whom the check does not count, once the row is written.
Excused(row) ==
  IF row.kind \notin {"spawn", "transition"} THEN excused
  ELSE IF calls[row.by].kind = "self" /\ proj.stage[row.w] = row.stage THEN excused
  ELSE IF calls[row.by].kind = "self" \/ calls[row.by].blind THEN excused \cup {row.w}
  ELSE excused \ {row.w}

Replied(row) == IF row.by = NoCall THEN calls ELSE [calls EXCEPT ![row.by] = Idle]

\* Moves that were checked before two runs became one.
Outrun(row) ==
  LET replied == Replied(row)
  IN [c \in Call |-> [replied[c] EXCEPT !.blind = @ \/ (Moving(c) /\ c # row.by /\ Smuggled(row) # {})]]

Stored(row) == [kind |-> row.kind, w |-> row.w, stage |-> row.stage, prov |-> row.prov]

Skip ==
  /\ chain # <<>> /\ ~Wanted(Head(chain))
  /\ chain' = Tail(chain)
  /\ calls' = Replied(Head(chain))
  /\ UNCHANGED <<outside, ledger, made, events, gaps>>

\* ledger.append: the row is written whole, behind whatever the file ends with,
\* and folded.
Write ==
  LET row == Head(chain) IN
  /\ chain # <<>> /\ Wanted(row)
  /\ file' = IF torn THEN file ELSE Append(file, Stored(row))
  /\ torn' = FALSE
  /\ glued' = (glued \/ torn)
  /\ proj' = Applied(proj, row)
  /\ excused' = Smuggled(row) \cup Excused(row)
  /\ gaps' = IF torn THEN gaps \cup {row.w} ELSE gaps
  /\ chain' = Tail(chain)
  /\ calls' = Outrun(row)
  /\ UNCHANGED <<outside, faults, made, events>>

\* appendFile fails, with nothing or with part of the line written.  The failure
\* is swallowed: the call has succeeded and the projection stays.
WriteFails ==
  LET row == Head(chain) IN
  /\ chain # <<>> /\ Wanted(row) /\ faults < MaxFaults
  /\ faults' = faults + 1
  /\ torn' \in {torn, TRUE}
  /\ gaps' = gaps \cup {row.w}
  /\ chain' = Tail(chain)
  /\ calls' = Replied(row)
  /\ UNCHANGED <<outside, proj, file, glued, excused, made, events>>

\* The server is killed and boots again: memory and processes are gone, the row
\* being written may be there, or part of it, and the rest is read back.
Crash ==
  /\ faults < MaxFaults
  /\ faults' = faults + 1
  /\ \/ UNCHANGED <<file, torn>>
     \/ chain # <<>> /\ Wanted(Head(chain)) /\ torn' = TRUE /\ UNCHANGED file
     \/ /\ chain # <<>> /\ Wanted(Head(chain))
        /\ file' = IF torn THEN file ELSE Append(file, Stored(Head(chain)))
        /\ torn' = FALSE
  /\ proj' = Folded(file')
  /\ session' = [w \in Session |-> IF session[w] = "new" THEN "new" ELSE "dead"]
  /\ lifecycle' = [w \in Session |-> "none"]
  /\ calls' = [c \in Call |-> Idle]
  /\ chain' = <<>>
  /\ gaps' = gaps \cup Live \cup {chain[i].w : i \in DOMAIN chain}
  /\ UNCHANGED <<conducted, glued, excused, made, events>>

-----------------------------------------------------------------------------
Calling(c) ==
  \/ \E ask \in Asks : Check(c, ask)
  \/ \E w \in Session : CreateFresh(c, w)
  \/ CreateResumed(c) \/ HandlerFails(c) \/ Kill(c) \/ HandlerReturns(c)

Happening(w) ==
  \/ Dies(w) \/ DeadAgain(w) \/ Revive(w) \/ EarlyStatus(w) \/ Relaunched(w) \/ LaunchRefused(w)

Next ==
  \/ \E c \in Call : Calling(c)
  \/ \E w \in Session : Happening(w)
  \/ Skip \/ Write \/ WriteFails \/ Crash

Spec == Init /\ [][Next]_vars

-----------------------------------------------------------------------------
(* Properties *)

RowKinds == {"spawn", "transition", "retire", "resume"}
StoredRow == [kind : RowKinds, w : Session, stage : Stage \cup {NoStage}, prov : SUBSET Session]

\* Every variable has its type, a worker's stage is the last of its history, and
\* each recording call has exactly one row under way.
TypeOK ==
  /\ session \in [Session -> {"new", "dead", "launching", "up"}]
  /\ conducted \subseteq Session
  /\ lifecycle \in [Session -> {"none", "alive", "dead"}]
  /\ \A c \in Call : calls[c].at = "recording" <=> \E i \in DOMAIN chain : chain[i].by = c
  /\ \A i, j \in DOMAIN chain : chain[i].by = chain[j].by => i = j \/ chain[i].by = NoCall
  /\ \A i \in DOMAIN file : file[i] \in StoredRow
  /\ \A w \in Session :
       proj.stage[w] = IF proj.history[w] = <<>> THEN NoStage
                       ELSE proj.history[w][Len(proj.history[w])]
  /\ {excused, gaps} \subseteq SUBSET Session /\ {torn, glued} \subseteq BOOLEAN

\* A worker's history, which every later `needs` is answered from, only grows:
\* no second spawn resets it, whoever resumes whom at the same time, and no
\* failed write or crash takes back what the projection has shown.  Up to a row
\* written behind a torn one, which a reload loses.
HistoryKept ==
  [][ ~glued' => \A w \in Session :
        /\ Len(proj'.history[w]) >= Len(proj.history[w])
        /\ SubSeq(proj'.history[w], 1, Len(proj.history[w])) = proj.history[w] ]_vars

\* workers: "one": a run has at most one live worker in such a stage, except for
\* those the check does not count: one that came back, one whose move was checked
\* while another was unrecorded or before two runs became one, one that came by a
\* declared loop recorded late, one whose run was joined by provenance no `needs`
\* asked for.
OneWorkerPerStage ==
  \A a, b \in (Bound(proj) \cap Live) \ excused :
    a # b /\ SameRun(proj, a, b) /\ proj.stage[a] = proj.stage[b] => proj.stage[a] \in Many

\* A row that tells of a session's death or return.
LifeOf(row, w) == row.w = w /\ row.kind \in {"retire", "resume"}

\* The ledger tells a session's lives: between two deaths is a return, between two
\* returns a death, whatever order statuses, relaunches and commits come in.  Up to
\* rows lost to a failed write or a crash, and to a status before the relaunch.
LivesAlternate ==
  \A w \in Session \ gaps : \A i, j \in DOMAIN file :
    i < j /\ LifeOf(file[i], w) /\ LifeOf(file[j], w) /\ file[i].kind = file[j].kind
      => \E k \in (i + 1)..(j - 1) : LifeOf(file[k], w) /\ file[k].kind # file[i].kind
=============================================================================
