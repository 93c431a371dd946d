--------------------------- MODULE RootLockProofs ---------------------------
(***************************************************************************)
(* Theorems about RootLock, for any number of servers and boots, either    *)
(* create mode, and crashes anywhere.                                      *)
(***************************************************************************)
EXTENDS RootLock, WellFoundedInduction, TLAPS

\* Where a server has published its record and stands by it; where `mine` is a
\* generation; where it has published nothing; where its own offer may be out.
Held == {"write", "confirm", "collect", "drop", "sweep", "hold", "offer", "spawn"}
Placed == Held \cup {"publish", "backoff", "await", "checkOwn", "unlinkOwn"}
Before == {"list", "read", "probe", "stage", "publish"}
Handed == {"await", "checkOwn", "unlinkOwn", "close", "down", "stranded"}

PlacedOK ==
  \A s \in Server : /\ pc[s] \in Placed => mine(s) \in Gen
                    /\ pc[s] = "read" => top[s] \in Gen

Typed == TypeOK /\ PlacedOK

\* Every token in use was minted by a boot.
Minted(t) == t[2] <= boots[t[1]]
MintedOK ==
  /\ \A t \in sockets : Minted(t)
  /\ \A g \in Gen : dir[g] # NoRecord => Minted(dir[g].token)
  /\ \A s \in Server : seen[s] # NoToken => Minted(seen[s])
  /\ \A s \in Server : ticket[s] # NoToken => Minted(ticket[s])

\* A server that acquires, serves or leaves answers on its own socket.
Listening == \A s \in Server : pc[s] \notin {"down", "stranded"} => token(s) \in sockets

\* A server whose offer a child carries does not serve any more.
TicketOK == \A s, p \in Server : ticket[s] = token(p) => pc[p] \in Handed

\* A contender past its verdict judged a record dead, or one offered to it.
JudgedOK ==
  \A s \in Server : pc[s] \in {"stage", "publish"} /\ seen[s] # NoToken
                     => seen[s] \notin sockets \/ seen[s] = ticket[s]

\* Where records are published whole there is no other kind.
WholeOK ==
  createMode = "link" =>
    /\ \A g \in Gen : dir[g] # NoRecord => dir[g].whole
    /\ \A s \in Server : pc[s] # "write"

\* While no publication raced: a server that has published stands by the highest
\* record, its own and its only one; a collector has only dead records below it; a
\* newcomer has none yet; a release unlinks its own; a child's offer is an offer.
Highest(g) == \A h \in Gen : dir[h] # NoRecord => h <= g
HolderOK(s) ==
  pc[s] \in Held =>
    /\ Carries(mine(s), token(s))
    /\ Highest(mine(s))
    /\ pc[s] # "write" => dir[mine(s)].whole
    /\ pc[s] = "spawn" => dir[mine(s)].offered
    /\ \A g \in Gen : Carries(g, token(s)) => g = mine(s)
CollectorOK(s) ==
  /\ Serving(s) => \A g \in below[s] : g < mine(s)
  /\ pc[s] = "drop" => \A g \in below[s] :
       (\A h \in below[s] : g <= h) => dir[g] = NoRecord \/ Droppable(dir[g])
NewcomerOK(s) == pc[s] \in Before => \A g \in Gen : ~Carries(g, token(s))
LeaverOK(s) == pc[s] # "backoff" /\ (pc[s] = "unlinkOwn" => Ours(s))
ChildOK(s) == \A g \in Gen : ticket[s] # NoToken /\ Carries(g, ticket[s]) => dir[g].offered
Calm(s) == HolderOK(s) /\ CollectorOK(s) /\ NewcomerOK(s) /\ LeaverOK(s) /\ ChildOK(s)
CalmOK == ~raced => \A s \in Server : Calm(s)

Known == Typed /\ MintedOK /\ Listening /\ TicketOK /\ JudgedOK /\ WholeOK
IInv == Known /\ CalmOK

-----------------------------------------------------------------------------
(* The top generation. *)

LEMMA LeastNatural ==
  ASSUME NEW T, T \subseteq Nat, T # {}
  PROVE  \E x \in T : \A y \in T : x <= y
<1>1. \E x \in T : \A y \in T : <<y, x>> \notin OpToRel(<, Nat)
  BY NatLessThanWellFounded, WFMin, Zenon
<1>2. PICK x \in T : \A y \in T : <<y, x>> \notin OpToRel(<, Nat)
  BY <1>1, Zenon
<1>3. ASSUME NEW y \in T PROVE x <= y
  <2>1. <<y, x>> \notin {ss \in Nat \X Nat : ss[1] < ss[2]}
    BY <1>2, Zenon DEF OpToRel
  <2> QED BY <2>1
<1> QED BY <1>3

LEMMA TopExists ==
  ASSUME NEW S, S \subseteq Gen, S # {}
  PROVE  \E g \in S : \A h \in S : h <= g
<1> DEFINE T == {MaxGen - g : g \in S}
<1>1. T \subseteq Nat
  <2>1. ASSUME NEW g \in S PROVE MaxGen - g \in Nat
    <3>1. g \in 1..MaxGen
      BY DEF Gen
    <3> QED BY <3>1, RootLockAssumption
  <2> QED BY <2>1
<1>2. T # {}
  <2>1. PICK g \in S : TRUE
    OBVIOUS
  <2>2. MaxGen - g \in T
    OBVIOUS
  <2> QED BY <2>2
<1>3. PICK x \in T : \A y \in T : x <= y
  <2> HIDE DEF T
  <2> QED BY <1>1, <1>2, LeastNatural
<1>4. PICK g \in S : x = MaxGen - g
  BY <1>3
<1>5. ASSUME NEW h \in S PROVE h <= g
  <2>1. MaxGen - g <= MaxGen - h
    BY <1>3, <1>4
  <2>2. h \in 1..MaxGen /\ g \in 1..MaxGen
    BY DEF Gen
  <2> QED BY <2>1, <2>2, RootLockAssumption
<1> QED BY <1>5

LEMMA TopFacts ==
  /\ TopGen \in 0..MaxGen
  /\ Present = {} => TopGen = 0
  /\ Present # {} => TopGen \in Present /\ \A h \in Present : h <= TopGen
<1>1. CASE Present = {}
  BY <1>1, RootLockAssumption DEF TopGen
<1>2. CASE Present # {}
  <2>1. \E g \in Present : \A h \in Present : h <= g
    BY <1>2, TopExists DEF Present
  <2>2. TopGen \in Present /\ \A h \in Present : h <= TopGen
    BY <1>2, <2>1 DEF TopGen
  <2>3. Present \subseteq 1..MaxGen
    BY DEF Present, Gen
  <2> QED BY <1>2, <2>2, <2>3, RootLockAssumption
<1> QED BY <1>1, <1>2

LEMMA TopFactsNext ==
  /\ TopGen' \in 0..MaxGen
  /\ Present' = {} => TopGen' = 0
  /\ Present' # {} => TopGen' \in Present' /\ \A h \in Present' : h <= TopGen'
<1>1. CASE Present' = {}
  BY <1>1, RootLockAssumption DEF TopGen
<1>2. CASE Present' # {}
  <2>1. \E g \in Present' : \A h \in Present' : h <= g
    BY <1>2, TopExists DEF Present
  <2>2. TopGen' \in Present' /\ \A h \in Present' : h <= TopGen'
    BY <1>2, <2>1 DEF TopGen
  <2>3. Present' \subseteq 1..MaxGen
    BY DEF Present, Gen
  <2> QED BY <1>2, <2>2, <2>3, RootLockAssumption
<1> QED BY <1>1, <1>2

-----------------------------------------------------------------------------
(* Every step keeps the types and the generations its locals name. *)

LEMMA TypedInit == Init => Typed
<1> SUFFICES ASSUME Init PROVE Typed
  OBVIOUS
<1>1. 0 \in 0..MaxBoots /\ 0 \in 0..MaxAttempts /\ 0 \in 0..MaxGen
  BY RootLockAssumption
<1>2. TypeOK
  BY <1>1 DEF Init, TypeOK, PC
<1>3. PlacedOK
  BY DEF Init, PlacedOK, Placed, Held
<1> QED BY <1>2, <1>3 DEF Typed

LEMMA TokenType ==
  ASSUME TypeOK, NEW s \in Server
  PROVE  token(s) \in Token /\ token(s)[1] = s /\ token(s)[2] = boots[s] /\ boots[s] \in Nat
BY RootLockAssumption DEF TypeOK, Token, token

\* The pass that ends goes to the next one or gives up; nothing else moves.
LEMMA LookAgainTyped ==
  ASSUME TypeOK, NEW s \in Server, LookAgain(s)
  PROVE  /\ attempt' \in [Server -> 0..MaxAttempts]
         /\ \E where \in {"list", "close"} : pc' = [pc EXCEPT ![s] = where]
<1>1. CASE attempt[s] < MaxAttempts
  <2>1. attempt[s] + 1 \in 0..MaxAttempts
    BY <1>1, RootLockAssumption DEF TypeOK
  <2> QED BY <1>1, <2>1 DEF LookAgain, Goto, TypeOK
<1>2. CASE ~(attempt[s] < MaxAttempts)
  BY <1>2 DEF LookAgain, Goto, TypeOK
<1> QED BY <1>1, <1>2

\* A boot: the types of what Boot and SpawnChild change.
LEMMA BootTyped ==
  ASSUME TypeOK, NEW s \in Server, boots[s] < MaxBoots
  PROVE  /\ [boots EXCEPT ![s] = @ + 1] \in [Server -> 0..MaxBoots]
         /\ sockets \cup {<<s, boots[s] + 1>>} \subseteq Token
         /\ [attempt EXCEPT ![s] = 1] \in [Server -> 0..MaxAttempts]
<1>1. boots[s] + 1 \in 0..MaxBoots /\ 1 \in 0..MaxAttempts
  BY RootLockAssumption DEF TypeOK
<1>2. <<s, boots[s] + 1>> \in Token
  BY <1>1 DEF Token
<1> QED BY <1>1, <1>2 DEF TypeOK

LEMMA GoneTyped ==
  ASSUME Typed, NEW s \in Server, Gone(s), UNCHANGED dir
  PROVE  Typed'
<1>1. 0 \in 0..MaxAttempts /\ 0 \in 0..MaxGen
  BY RootLockAssumption
<1>2. TypeOK'
  BY <1>1 DEF Typed, Gone, Goto, TypeOK, PC
<1>3. PlacedOK'
  BY DEF Typed, Gone, Goto, TypeOK, PlacedOK, Placed, Held, mine
<1> QED BY <1>2, <1>3 DEF Typed

LEMMA TypedAcquiring ==
  ASSUME Typed, NEW s \in Server, Acquiring(s)
  PROVE  Typed'
<1> USE DEF Typed, At, Goto, locals
<1>1. CASE ListGens(s)
  <2>1. TypeOK'
    BY <1>1, TopFacts DEF ListGens, TypeOK, PC
  <2>2. TopGen # 0 => TopGen \in Gen
    BY TopFacts DEF Gen
  <2>3. PlacedOK'
    BY <1>1, <2>2 DEF ListGens, TypeOK, PlacedOK, Placed, Held, mine
  <2> QED BY <2>1, <2>3
<1>2. CASE ReadTop(s)
  <2>1. top[s] \in Gen
    BY <1>2 DEF ReadTop, PlacedOK
  <2>2. CASE dir[top[s]] = NoRecord
    <3>1. LookAgain(s) /\ seen' = seen
      BY <1>2, <2>2 DEF ReadTop
    <3>2. TypeOK'
      BY <1>2, <3>1, LookAgainTyped DEF ReadTop, TypeOK, PC
    <3>3. PlacedOK'
      BY <1>2, <3>1, LookAgainTyped DEF ReadTop, TypeOK, PlacedOK, Placed, Held, mine
    <3> QED BY <3>2, <3>3
  <2>3. CASE dir[top[s]] # NoRecord
    <3>1. dir[top[s]].token \in Token
      BY <2>1, <2>3 DEF TypeOK, Record
    <3>2. TypeOK'
      BY <1>2, <2>3, <3>1 DEF ReadTop, TypeOK, PC
    <3>3. PlacedOK'
      BY <1>2, <2>3, <3>1 DEF ReadTop, TypeOK, PlacedOK, Placed, Held, mine
    <3> QED BY <3>2, <3>3
  <2> QED BY <2>2, <2>3
<1>3. CASE ProbeTop(s) \/ Stage(s)
  <2>1. TypeOK'
    BY <1>3 DEF ProbeTop, Stage, TypeOK, PC, CreateModes
  <2>2. PlacedOK'
    BY <1>3 DEF ProbeTop, Stage, TypeOK, PlacedOK, Placed, Held, mine
  <2> QED BY <2>1, <2>2
<1>4. CASE Publish(s)
  <2>1. CASE (createMode = "link" => staged[s]) /\ dir[mine(s)] = NoRecord
    <3>1. [token |-> token(s), whole |-> createMode = "link", offered |-> FALSE] \in Record
      BY TokenType DEF Record
    <3>2. dir' \in [Gen -> Record \cup {NoRecord}]
      <4>1. dir' = [dir EXCEPT ![mine(s)] =
                      [token |-> token(s), whole |-> createMode = "link", offered |-> FALSE]]
        BY <1>4, <2>1 DEF Publish
      <4>2. dir \in [Gen -> Record \cup {NoRecord}]
        BY DEF TypeOK
      <4> HIDE DEF Typed
      <4> QED BY <3>1, <4>1, <4>2
    <3>3. TypeOK'
      BY <1>4, <2>1, <3>2 DEF Publish, TypeOK, PC
    <3>4. PlacedOK'
      BY <1>4, <2>1 DEF Publish, TypeOK, PlacedOK, Placed, Held, mine
    <3> QED BY <3>3, <3>4
  <2>2. CASE ~((createMode = "link" => staged[s]) /\ dir[mine(s)] = NoRecord)
    <3>1. LookAgain(s) /\ dir' = dir /\ raced' = raced
      BY <1>4, <2>2 DEF Publish
    <3>2. TypeOK'
      BY <1>4, <3>1, LookAgainTyped DEF Publish, TypeOK, PC
    <3>3. PlacedOK'
      BY <1>4, <3>1, LookAgainTyped DEF Publish, TypeOK, PlacedOK, Placed, Held, mine
    <3> QED BY <3>2, <3>3
  <2> QED BY <2>1, <2>2
<1>5. CASE WriteRecord(s)
  <2>1. mine(s) \in Gen
    BY <1>5 DEF WriteRecord, PlacedOK, Placed, Held
  <2>2. Carries(mine(s), token(s)) => [dir[mine(s)] EXCEPT !.whole = TRUE] \in Record
    <3>1. Carries(mine(s), token(s)) => dir[mine(s)] \in Record
      BY <2>1 DEF TypeOK, Carries
    <3> QED BY <3>1 DEF Record
  <2>3. dir' \in [Gen -> Record \cup {NoRecord}]
    BY <1>5, <2>1, <2>2 DEF WriteRecord, TypeOK
  <2>4. TypeOK'
    BY <1>5, <2>3 DEF WriteRecord, TypeOK, PC
  <2>5. PlacedOK'
    BY <1>5 DEF WriteRecord, TypeOK, PlacedOK, Placed, Held, mine
  <2> QED BY <2>4, <2>5
<1>6. CASE Confirm(s)
  <2>1. TypeOK'
    BY <1>6 DEF Confirm, TypeOK, PC, Present
  <2>2. PlacedOK'
    BY <1>6 DEF Confirm, TypeOK, PlacedOK, Placed, Held, mine
  <2> QED BY <2>1, <2>2
<1>7. CASE BackOff(s)
  <2>1. TypeOK'
    BY <1>7, LookAgainTyped DEF BackOff, TypeOK, PC
  <2>2. PlacedOK'
    BY <1>7, LookAgainTyped DEF BackOff, TypeOK, PlacedOK, Placed, Held, mine
  <2> QED BY <2>1, <2>2
<1>8. CASE CollectJudge(s) \/ CollectDrop(s) \/ Collected(s) \/ SweepStaging(s)
  <2>1. TypeOK'
    <3>1. CASE CollectJudge(s)
      BY <3>1 DEF CollectJudge, TypeOK, PC
    <3>2. CASE CollectDrop(s)
      BY <3>2 DEF CollectDrop, TypeOK, PC
    <3>3. CASE Collected(s) \/ SweepStaging(s)
      BY <3>3 DEF Collected, SweepStaging, TypeOK, PC
    <3> QED BY <1>8, <3>1, <3>2, <3>3
  <2>2. PlacedOK'
    BY <1>8 DEF CollectJudge, CollectDrop, Collected, SweepStaging, TypeOK, PlacedOK,
                Placed, Held, mine
  <2> QED BY <2>1, <2>2
<1> QED BY <1>1, <1>2, <1>3, <1>4, <1>5, <1>6, <1>7, <1>8 DEF Acquiring

LEMMA TypedLeaving ==
  ASSUME Typed, NEW s \in Server, Leaving(s)
  PROVE  Typed'
<1> USE DEF Typed, At, Goto, locals
<1>1. CASE CheckOffer(s) \/ BeginExit(s) \/ CheckOwn(s)
  <2>1. TypeOK'
    BY <1>1 DEF CheckOffer, BeginExit, CheckOwn, TypeOK, PC
  <2>2. PlacedOK'
    BY <1>1 DEF CheckOffer, BeginExit, CheckOwn, TypeOK, PlacedOK, Placed, Held, mine
  <2> QED BY <2>1, <2>2
<1>2. CASE WriteOffer(s)
  <2>1. [token |-> token(s), whole |-> TRUE, offered |-> TRUE] \in Record
    BY TokenType DEF Record
  <2>2. TypeOK'
    <3>1. dir' \in [Gen -> Record \cup {NoRecord}]
      BY <1>2, <2>1 DEF WriteOffer, TypeOK
    <3>2. pc' \in [Server -> PC]
      BY <1>2 DEF WriteOffer, TypeOK, PC
    <3> QED BY <1>2, <3>1, <3>2 DEF WriteOffer, TypeOK
  <2>3. PlacedOK'
    BY <1>2 DEF WriteOffer, TypeOK, PlacedOK, Placed, Held, mine
  <2> QED BY <2>2, <2>3
<1>3. CASE SpawnFails(s) \/ UnlinkOwn(s)
  <2>1. TypeOK'
    BY <1>3 DEF SpawnFails, UnlinkOwn, TypeOK, PC
  <2>2. PlacedOK'
    BY <1>3 DEF SpawnFails, UnlinkOwn, TypeOK, PlacedOK, Placed, Held, mine
  <2> QED BY <2>1, <2>2
<1>4. CASE Close(s)
  BY <1>4, GoneTyped DEF Close
<1> QED BY <1>1, <1>2, <1>3, <1>4 DEF Leaving

LEMMA TypedNext == Typed /\ [Next]_vars => Typed'
<1> SUFFICES ASSUME Typed, [Next]_vars PROVE Typed'
  OBVIOUS
<1> USE DEF Typed, At, Goto
<1>1. ASSUME NEW s \in Server, Start(s) PROVE Typed'
  <2>1. TypeOK'
    BY <1>1, BootTyped DEF Start, Boot, TypeOK, PC
  <2>2. PlacedOK'
    BY <1>1 DEF Start, Boot, TypeOK, PlacedOK, Placed, Held, mine
  <2> QED BY <2>1, <2>2
<1>2. ASSUME NEW s \in Server, NEW c \in Server, SpawnChild(s, c) PROVE Typed'
  <2>1. token(s) \in Token
    BY TokenType
  <2>2. TypeOK'
    BY <1>2, <2>1, BootTyped DEF SpawnChild, TypeOK, PC
  <2>3. PlacedOK'
    BY <1>2 DEF SpawnChild, TypeOK, PlacedOK, Placed, Held, mine
  <2> QED BY <2>2, <2>3
<1>3. ASSUME NEW s \in Server, Acquiring(s) PROVE Typed'
  BY <1>3, TypedAcquiring
<1>4. ASSUME NEW s \in Server, Leaving(s) PROVE Typed'
  BY <1>4, TypedLeaving
<1>5. ASSUME NEW s \in Server, Crash(s) PROVE Typed'
  BY <1>5, GoneTyped DEF Crash
<1>6. CASE UNCHANGED vars
  BY <1>6 DEF vars, TypeOK, PlacedOK, mine
<1> QED BY <1>1, <1>2, <1>3, <1>4, <1>5, <1>6 DEF Next

-----------------------------------------------------------------------------
(* Tokens, sockets, offers and verdicts. *)

LEMMA KnownInit == Init => Known
<1> SUFFICES ASSUME Init PROVE Known
  OBVIOUS
<1>1. Typed
  BY TypedInit
<1>2. MintedOK /\ Listening /\ JudgedOK /\ WholeOK
  BY DEF Init, MintedOK, Listening, JudgedOK, WholeOK
<1>3. TicketOK
  BY DEF Init, TicketOK, Handed
<1> QED BY <1>1, <1>2, <1>3 DEF Known

LEMMA MintedStays ==
  ASSUME Typed, [Next]_vars, NEW t \in Token, Minted(t)
  PROVE  Minted(t)'
<1>1. t[1] \in Server /\ t[2] \in Nat
  BY DEF Token
<1>2. \A s \in Server : boots[s] \in Nat
  BY RootLockAssumption DEF Typed, TypeOK
<1> DEFINE Grew == \A s \in Server : boots'[s] = boots[s] \/ boots'[s] = boots[s] + 1
<1>3. Grew
  <2>1. ASSUME NEW s \in Server, Start(s) PROVE Grew
    BY <2>1, <1>2 DEF Start, Boot, Typed, TypeOK
  <2>2. ASSUME NEW s \in Server, NEW c \in Server, SpawnChild(s, c) PROVE Grew
    BY <2>2, <1>2 DEF SpawnChild, Typed, TypeOK
  <2>3. ASSUME NEW s \in Server, Acquiring(s) \/ Leaving(s) \/ Crash(s) PROVE boots' = boots
    BY <2>3 DEF Acquiring, Leaving, Crash, Close, Gone, ListGens, ReadTop, ProbeTop, Stage,
       Publish, WriteRecord, Confirm, BackOff, CollectJudge, CollectDrop, Collected,
       SweepStaging, CheckOffer, WriteOffer, SpawnFails, BeginExit, CheckOwn, UnlinkOwn, locals
  <2>4. CASE UNCHANGED vars
    BY <2>4 DEF vars
  <2> QED BY <2>1, <2>2, <2>3, <2>4 DEF Next
<1> QED BY <1>1, <1>2, <1>3 DEF Minted

LEMMA MintedNext ==
  ASSUME Typed, MintedOK, [Next]_vars
  PROVE  MintedOK'
<1> USE DEF At, Goto, locals
<1> DEFINE NoNews == /\ sockets' \subseteq sockets
                    /\ \A s \in Server : ticket'[s] \in {ticket[s], NoToken}
<1> DEFINE DirOK == \A g \in Gen : dir'[g] # NoRecord =>
                      \/ dir[g] # NoRecord /\ dir'[g].token = dir[g].token
                      \/ dir'[g].token \in Token /\ Minted(dir'[g].token)
<1> DEFINE SeenOK == \A s \in Server : seen'[s] # NoToken =>
                      \/ seen'[s] = seen[s]
                      \/ seen'[s] \in Token /\ Minted(seen'[s])
<1>1. \A s \in Server : token(s) \in Token /\ Minted(token(s))
  BY TokenType DEF Typed, Minted
<1>2. \A g \in Gen : dir[g] # NoRecord => dir[g].token \in Token /\ Minted(dir[g].token)
  BY DEF Typed, TypeOK, Record, MintedOK
<1>3. \A s \in Server : seen[s] # NoToken => seen[s] \in Token /\ Minted(seen[s])
  BY DEF Typed, TypeOK, MintedOK
<1>4. \A s \in Server : ticket[s] # NoToken => ticket[s] \in Token /\ Minted(ticket[s])
  BY DEF Typed, TypeOK, MintedOK
<1>5. \A t \in sockets : t \in Token /\ Minted(t)
  BY DEF Typed, TypeOK, MintedOK
<1>6. ASSUME NEW s \in Server, Acquiring(s) \/ Leaving(s) \/ Crash(s) PROVE NoNews
  BY <1>6 DEF Acquiring, Leaving, Crash, Close, Gone, ListGens, ReadTop, ProbeTop, Stage,
     Publish, WriteRecord, Confirm, BackOff, CollectJudge, CollectDrop, Collected,
     SweepStaging, CheckOffer, WriteOffer, SpawnFails, BeginExit, CheckOwn, UnlinkOwn,
     Typed, TypeOK
<1>7. ASSUME NEW s \in Server, Acquiring(s) PROVE DirOK /\ SeenOK
  <2>1. CASE ListGens(s) \/ ProbeTop(s) \/ Stage(s) \/ Confirm(s) \/ CollectJudge(s)
             \/ Collected(s) \/ SweepStaging(s)
    BY <2>1 DEF ListGens, ProbeTop, Stage, Confirm, CollectJudge, Collected, SweepStaging,
       Typed, TypeOK
  <2>2. CASE ReadTop(s)
    <3>1. top[s] \in Gen
      BY <2>2 DEF ReadTop, Typed, PlacedOK
    <3> QED BY <2>2, <3>1, <1>2 DEF ReadTop, Typed, TypeOK
  <2>3. CASE Publish(s)
    <3>1. mine(s) \in Gen
      BY <2>3 DEF Publish, Typed, PlacedOK, Placed
    <3>2. dir' = dir \/ dir' = [dir EXCEPT ![mine(s)] =
                       [token |-> token(s), whole |-> createMode = "link", offered |-> FALSE]]
      BY <2>3 DEF Publish
    <3>3. DirOK
      BY <3>1, <3>2, <1>1 DEF Typed, TypeOK
    <3> QED BY <2>3, <3>3 DEF Publish
  <2>4. CASE WriteRecord(s)
    <3>1. mine(s) \in Gen
      BY <2>4 DEF WriteRecord, Typed, PlacedOK, Placed, Held
    <3>2. Carries(mine(s), token(s)) => dir[mine(s)] \in Record /\ dir[mine(s)] # NoRecord
      BY <3>1 DEF Typed, TypeOK, Carries
    <3>3. DirOK
      BY <2>4, <3>1, <3>2 DEF WriteRecord, Record, Typed, TypeOK
    <3> QED BY <2>4, <3>3 DEF WriteRecord
  <2>5. CASE BackOff(s) \/ CollectDrop(s)
    BY <2>5 DEF BackOff, CollectDrop, Typed, TypeOK
  <2> QED BY <1>7, <2>1, <2>2, <2>3, <2>4, <2>5 DEF Acquiring
<1>8. ASSUME NEW s \in Server, Leaving(s) \/ Crash(s) PROVE DirOK /\ SeenOK
  <2>1. CASE Crash(s) \/ Close(s)
    BY <2>1 DEF Crash, Close, Gone, Typed, TypeOK
  <2>2. CASE CheckOffer(s) \/ BeginExit(s) \/ CheckOwn(s) \/ SpawnFails(s) \/ UnlinkOwn(s)
    BY <2>2 DEF CheckOffer, BeginExit, CheckOwn, SpawnFails, UnlinkOwn, Typed, TypeOK
  <2>3. CASE WriteOffer(s)
    <3>1. mine(s) \in Gen
      BY <2>3 DEF WriteOffer, Typed, PlacedOK, Placed, Held
    <3> QED BY <2>3, <3>1, <1>1 DEF WriteOffer, Typed, TypeOK
  <2> QED BY <1>8, <2>1, <2>2, <2>3 DEF Leaving
<1>9. ASSUME NEW s \in Server, Start(s) \/ \E c \in Server : SpawnChild(c, s)
      PROVE  /\ dir' = dir /\ seen' = seen
             /\ \A t \in sockets' : t \in sockets \/ (t \in Token /\ Minted(t)')
             /\ \A u \in Server : ticket'[u] # NoToken =>
                  ticket'[u] = ticket[u] \/ (ticket'[u] \in Token /\ Minted(ticket'[u]))
  <2>0. PICK new : new = <<s, boots[s] + 1>>
    OBVIOUS
  <2>1. /\ boots[s] + 1 \in Nat
        /\ boots' = [boots EXCEPT ![s] = @ + 1]
        /\ sockets' = sockets \cup {new} /\ dir' = dir /\ seen' = seen
    BY <1>9, <2>0, TokenType DEF Start, Boot, SpawnChild, Typed
  <2>2. new \in Token /\ Minted(new)'
    <3>1. boots'[s] = boots[s] + 1
      BY <2>1 DEF Typed, TypeOK
    <3> QED BY <2>0, <2>1, <3>1 DEF Minted, Token
  <2>3. \A u \in Server : ticket'[u] # NoToken =>
                  ticket'[u] = ticket[u] \/ (ticket'[u] \in Token /\ Minted(ticket'[u]))
    BY <1>9, <1>1 DEF Start, Boot, SpawnChild, Typed, TypeOK
  <2> QED BY <1>5, <2>1, <2>2, <2>3
<1>10. \A t \in Token : Minted(t) => Minted(t)'
  BY MintedStays
<1>11. ASSUME NEW s \in Server, Acquiring(s) \/ Leaving(s) \/ Crash(s) PROVE MintedOK'
  <2>1. NoNews /\ DirOK /\ SeenOK
    BY <1>6, <1>7, <1>8, <1>11
  <2>2. (\A t \in sockets : Minted(t))'
    BY <2>1, <1>5, <1>10
  <2>3. (\A g \in Gen : dir[g] # NoRecord => Minted(dir[g].token))'
    BY <2>1, <1>2, <1>10
  <2>4. (\A u \in Server : seen[u] # NoToken => Minted(seen[u]))'
    BY <2>1, <1>3, <1>10
  <2>5. (\A u \in Server : ticket[u] # NoToken => Minted(ticket[u]))'
    BY <2>1, <1>4, <1>10
  <2> QED BY <2>2, <2>3, <2>4, <2>5 DEF MintedOK
<1>12. ASSUME NEW s \in Server, Start(s) \/ \E c \in Server : SpawnChild(c, s) PROVE MintedOK'
  <2>2. (\A t \in sockets : Minted(t))'
    BY <1>12, <1>9, <1>5, <1>10
  <2>3. (\A g \in Gen : dir[g] # NoRecord => Minted(dir[g].token))'
    BY <1>12, <1>9, <1>2, <1>10
  <2>4. (\A u \in Server : seen[u] # NoToken => Minted(seen[u]))'
    BY <1>12, <1>9, <1>3, <1>10
  <2>5. (\A u \in Server : ticket[u] # NoToken => Minted(ticket[u]))'
    BY <1>12, <1>9, <1>4, <1>10
  <2> QED BY <2>2, <2>3, <2>4, <2>5 DEF MintedOK
<1>13. CASE UNCHANGED vars
  BY <1>13 DEF vars, MintedOK, Minted
<1> QED BY <1>11, <1>12, <1>13 DEF Next

\* What a boot changes: a fresh token, its socket, a ticket, the first listing.
LEMMA BootFacts ==
  ASSUME Typed, MintedOK, NEW p \in Server, Start(p) \/ \E c \in Server : SpawnChild(c, p)
  PROVE  /\ pc[p] = "down" /\ pc'[p] = "list"
         /\ \A s \in Server : s # p => token(s)' = token(s) /\ ticket'[s] = ticket[s]
         /\ token(p)' \notin sockets
         /\ \A g \in Gen : ~Carries(g, token(p)')
         /\ \A s \in Server : seen[s] # token(p)' /\ ticket[s] # token(p)'
         /\ sockets' = sockets \cup {token(p)'}
         /\ UNCHANGED <<createMode, dir, top, seen, staged, below, raced>>
         /\ \/ ticket'[p] = NoToken /\ \A s \in Server : s # p => pc'[s] = pc[s]
            \/ \E c \in Server : /\ c # p /\ pc[c] = "spawn" /\ pc'[c] = "await"
                                 /\ ticket'[p] = token(c)
                                 /\ \A s \in Server \ {c, p} : pc'[s] = pc[s]
<1> USE DEF Typed, At, Goto
<1>1. PICK new : new = <<p, boots[p] + 1>>
  OBVIOUS
<1>2. /\ pc[p] = "down" /\ boots' = [boots EXCEPT ![p] = @ + 1]
      /\ sockets' = sockets \cup {new}
      /\ UNCHANGED <<createMode, dir, top, seen, staged, below, raced>>
  BY <1>1 DEF Start, Boot, SpawnChild
<1>3. token(p)' = new
  BY <1>1, <1>2 DEF token, TypeOK
<1>4. new \in Token /\ ~Minted(new) /\ new # NoToken
  BY <1>1, TokenType, RootLockAssumption DEF Minted, Token
<1>5. new \notin sockets /\ \A g \in Gen : ~Carries(g, new)
  BY <1>4 DEF MintedOK, Carries
<1>6. \A s \in Server : seen[s] # new /\ ticket[s] # new
  BY <1>4 DEF MintedOK
<1>7. \A s \in Server : s # p => token(s)' = token(s) /\ ticket'[s] = ticket[s]
  BY <1>2 DEF token, Start, Boot, SpawnChild, TypeOK
<1>8. /\ pc'[p] = "list"
      /\ \/ ticket'[p] = NoToken /\ \A s \in Server : s # p => pc'[s] = pc[s]
         \/ \E c \in Server : /\ c # p /\ pc[c] = "spawn" /\ pc'[c] = "await"
                              /\ ticket'[p] = token(c)
                              /\ \A s \in Server \ {c, p} : pc'[s] = pc[s]
  BY DEF Start, Boot, SpawnChild, TypeOK
<1> QED BY <1>2, <1>3, <1>5, <1>6, <1>7, <1>8

\* What a process's end changes for the others: nothing but its socket.
LEMMA GoneFacts ==
  ASSUME Typed, NEW p \in Server, Close(p) \/ Crash(p)
  PROVE  /\ pc'[p] = "down" /\ ticket'[p] = NoToken
         /\ \A s \in Server : token(s)' = token(s)
         /\ \A s \in Server \ {p} : pc'[s] = pc[s]
         /\ \A s \in Server \ {p} : ticket'[s] = ticket[s]
         /\ \A s \in Server \ {p} : seen'[s] = seen[s]
         /\ \A s \in Server \ {p} : top'[s] = top[s]
         /\ \A s \in Server \ {p} : below'[s] = below[s]
         /\ sockets' = sockets \ {token(p)}
         /\ UNCHANGED <<createMode, dir, raced>>
BY DEF Typed, TypeOK, Close, Crash, Gone, Goto, token

\* What every other step leaves alone.
LEMMA StepFacts ==
  ASSUME Typed, NEW p \in Server, Acquiring(p) \/ (Leaving(p) /\ ~Close(p))
  PROVE  /\ \A s \in Server : token(s)' = token(s)
         /\ ticket' = ticket
         /\ \A s \in Server \ {p} : pc'[s] = pc[s]
         /\ \A s \in Server \ {p} : seen'[s] = seen[s]
         /\ \A s \in Server \ {p} : top'[s] = top[s]
         /\ \A s \in Server \ {p} : below'[s] = below[s]
         /\ pc[p] \notin {"down", "stranded"} /\ pc'[p] # "down"
         /\ \/ sockets' = sockets /\ pc'[p] # "stranded"
            \/ sockets' = sockets \ {token(p)} /\ pc'[p] = "stranded"
         /\ pc'[p] \in Handed \/ pc[p] \notin Handed
         /\ createMode' = createMode
<1> USE DEF Typed, At, Goto, locals, token, Handed
<1>1. CASE ListGens(p) \/ ProbeTop(p) \/ Stage(p) \/ Confirm(p)
           \/ CollectJudge(p) \/ CollectDrop(p) \/ Collected(p) \/ SweepStaging(p)
  BY <1>1 DEF ListGens, ProbeTop, Stage, Confirm, CollectJudge, CollectDrop, Collected,
     SweepStaging, TypeOK
<1>2. CASE ReadTop(p) \/ Publish(p) \/ BackOff(p)
  BY <1>2, LookAgainTyped DEF ReadTop, Publish, BackOff, TypeOK
<1>3. CASE WriteRecord(p)
  BY <1>3 DEF WriteRecord, TypeOK
<1>4. CASE CheckOffer(p) \/ WriteOffer(p) \/ SpawnFails(p) \/ BeginExit(p)
           \/ CheckOwn(p) \/ UnlinkOwn(p)
  BY <1>4 DEF CheckOffer, WriteOffer, SpawnFails, BeginExit, CheckOwn, UnlinkOwn, TypeOK
<1> QED BY <1>1, <1>2, <1>3, <1>4 DEF Acquiring, Leaving

\* The kinds of step.
LEMMA Kinds ==
  ASSUME [Next]_vars
  PROVE  \/ \E p \in Server : Start(p) \/ \E c \in Server : SpawnChild(c, p)
         \/ \E p \in Server : Close(p) \/ Crash(p)
         \/ \E p \in Server : Acquiring(p) \/ (Leaving(p) /\ ~Close(p))
         \/ UNCHANGED vars
BY DEF Next

LEMMA ListeningNext ==
  ASSUME Typed, MintedOK, Listening, [Next]_vars
  PROVE  Listening'
<1>1. ASSUME NEW p \in Server, Start(p) \/ \E c \in Server : SpawnChild(c, p) PROVE Listening'
  BY <1>1, BootFacts DEF Listening
<1>2. ASSUME NEW p \in Server, Close(p) \/ Crash(p) PROVE Listening'
  BY <1>2, GoneFacts, TokenType DEF Listening, Typed
<1>3. ASSUME NEW p \in Server, Acquiring(p) \/ (Leaving(p) /\ ~Close(p)) PROVE Listening'
  BY <1>3, StepFacts, TokenType DEF Listening, Typed
<1>4. CASE UNCHANGED vars
  BY <1>4 DEF vars, Listening, token
<1> QED BY <1>1, <1>2, <1>3, <1>4, Kinds

LEMMA TicketNext ==
  ASSUME Typed, MintedOK, TicketOK, [Next]_vars
  PROVE  TicketOK'
<1> USE DEF Typed
<1>0. \A s \in Server : token(s) # NoToken /\ token(s)[1] = s
  BY TokenType, RootLockAssumption
<1>1. ASSUME NEW p \in Server, Start(p) \/ \E c \in Server : SpawnChild(c, p) PROVE TicketOK'
  <2>1. ASSUME NEW s \in Server, NEW q \in Server, ticket'[s] = token(q)' PROVE pc'[q] \in Handed
    <3>1. CASE q = p
      <4>1. s # p => ticket'[s] = ticket[s] /\ ticket[s] # token(p)'
        BY <1>1, BootFacts
      <4>2. s = p
        BY <2>1, <3>1, <4>1
      <4>3. Typed'
        BY <1>1, TypedNext DEF Next
      <4>4. token(p)' # NoToken /\ token(p)'[1] = p
        <5>1. TypeOK' /\ boots'[p] \in Nat
          BY <4>3, RootLockAssumption DEF TypeOK
        <5> QED BY <5>1, RootLockAssumption DEF token, Token
      <4>5. ticket'[p] # token(p)'
        BY <1>1, <1>0, <4>4, BootFacts
      <4> QED BY <2>1, <3>1, <4>2, <4>5
    <3>2. CASE q # p
      BY <1>0, <1>1, <2>1, <3>2, BootFacts DEF TicketOK, Handed
    <3> QED BY <3>1, <3>2
  <2> QED BY <2>1 DEF TicketOK
<1>2. ASSUME NEW p \in Server, Close(p) \/ Crash(p) PROVE TicketOK'
  BY <1>0, <1>2, GoneFacts DEF TicketOK, Handed
<1>3. ASSUME NEW p \in Server, Acquiring(p) \/ (Leaving(p) /\ ~Close(p)) PROVE TicketOK'
  BY <1>3, StepFacts DEF TicketOK
<1>4. CASE UNCHANGED vars
  BY <1>4 DEF vars, TicketOK, token
<1> QED BY <1>1, <1>2, <1>3, <1>4, Kinds

LEMMA JudgedNext ==
  ASSUME Typed, MintedOK, JudgedOK, [Next]_vars
  PROVE  JudgedOK'
<1> USE DEF Typed
<1>1. ASSUME NEW p \in Server, Start(p) \/ \E c \in Server : SpawnChild(c, p) PROVE JudgedOK'
  BY <1>1, BootFacts DEF JudgedOK
<1>2. ASSUME NEW p \in Server, Close(p) \/ Crash(p) PROVE JudgedOK'
  BY <1>2, GoneFacts DEF JudgedOK
<1>3. ASSUME NEW p \in Server, Acquiring(p) \/ (Leaving(p) /\ ~Close(p)) PROVE JudgedOK'
  <2>1. pc'[p] \in {"stage", "publish"} /\ seen'[p] # NoToken
          => seen'[p] \notin sockets' \/ seen'[p] = ticket'[p]
    <3> USE DEF JudgedOK, At, Goto, locals
    <3>1. CASE ListGens(p)
      BY <3>1 DEF ListGens, TypeOK
    <3>2. CASE ReadTop(p)
      <4>1. LookAgain(p) => pc'[p] \notin {"stage", "publish"}
        BY LookAgainTyped DEF TypeOK
      <4> QED BY <3>2, <4>1 DEF ReadTop, TypeOK
    <3>3. CASE ProbeTop(p) \/ Stage(p)
      BY <3>3 DEF ProbeTop, Stage, TypeOK
    <3>4. CASE Publish(p) \/ BackOff(p)
      BY <3>4, LookAgainTyped DEF Publish, BackOff, TypeOK
    <3>5. CASE WriteRecord(p) \/ Confirm(p) \/ CollectJudge(p) \/ CollectDrop(p)
               \/ Collected(p) \/ SweepStaging(p) \/ (Leaving(p) /\ ~Close(p))
      BY <3>5 DEF WriteRecord, Confirm, CollectJudge, CollectDrop, Collected, SweepStaging,
         Leaving, CheckOffer, WriteOffer, SpawnFails, BeginExit, CheckOwn, UnlinkOwn, TypeOK
    <3> QED BY <1>3, <3>1, <3>2, <3>3, <3>4, <3>5 DEF Acquiring
  <2>2. sockets' \subseteq sockets
    BY <1>3, StepFacts
  <2> QED BY <1>3, <2>1, <2>2, StepFacts DEF JudgedOK
<1>4. CASE UNCHANGED vars
  BY <1>4 DEF vars, JudgedOK
<1> QED BY <1>1, <1>2, <1>3, <1>4, Kinds

LEMMA WholeNext ==
  ASSUME Typed, MintedOK, WholeOK, [Next]_vars
  PROVE  WholeOK'
<1> USE DEF Typed
<1>1. ASSUME NEW p \in Server, Start(p) \/ \E c \in Server : SpawnChild(c, p) PROVE WholeOK'
  BY <1>1, BootFacts DEF WholeOK
<1>2. ASSUME NEW p \in Server, Close(p) \/ Crash(p) PROVE WholeOK'
  BY <1>2, GoneFacts DEF WholeOK
<1>3. ASSUME NEW p \in Server, Acquiring(p) \/ (Leaving(p) /\ ~Close(p)) PROVE WholeOK'
  <2> SUFFICES ASSUME createMode = "link" PROVE WholeOK'
    BY <1>3, StepFacts DEF WholeOK
  <2> USE DEF WholeOK, At, Goto, locals
  <2>1. CASE ListGens(p) \/ ProbeTop(p) \/ Stage(p) \/ WriteRecord(p) \/ Confirm(p)
             \/ CollectJudge(p) \/ CollectDrop(p) \/ Collected(p) \/ SweepStaging(p)
    BY <2>1 DEF ListGens, ProbeTop, Stage, WriteRecord, Confirm, CollectJudge, CollectDrop,
       Collected, SweepStaging, TypeOK
  <2>2. CASE ReadTop(p) \/ BackOff(p)
    BY <2>2, LookAgainTyped DEF ReadTop, BackOff, TypeOK
  <2>3. CASE Publish(p)
    BY <2>3, LookAgainTyped DEF Publish, TypeOK
  <2>4. CASE Leaving(p) /\ ~Close(p)
    BY <2>4 DEF Leaving, CheckOffer, WriteOffer, SpawnFails, BeginExit, CheckOwn, UnlinkOwn, TypeOK
  <2> QED BY <1>3, <2>1, <2>2, <2>3, <2>4 DEF Acquiring
<1>4. CASE UNCHANGED vars
  BY <1>4 DEF vars, WholeOK
<1> QED BY <1>1, <1>2, <1>3, <1>4, Kinds

LEMMA KnownNext == Known /\ [Next]_vars => Known'
BY TypedNext, MintedNext, ListeningNext, TicketNext, JudgedNext, WholeNext DEF Known

-----------------------------------------------------------------------------
(* One calm holder. *)

LEMMA CalmInit == Init => CalmOK
BY DEF Init, CalmOK, Calm, HolderOK, CollectorOK, NewcomerOK, LeaverOK, ChildOK, Held, Before,
       Serving

\* Two servers cannot both stand by the highest record.
LEMMA OneHeld ==
  ASSUME Typed, NEW s \in Server, NEW p \in Server, HolderOK(s), HolderOK(p),
         pc[s] \in Held, pc[p] \in Held
  PROVE  s = p
<1>1. mine(s) \in Gen /\ mine(p) \in Gen /\ mine(s) \in Nat /\ mine(p) \in Nat
  BY DEF Typed, PlacedOK, Placed, Gen
<1>2. mine(s) <= mine(p) /\ mine(p) <= mine(s)
  BY <1>1 DEF HolderOK, Highest, Carries
<1>3. mine(s) = mine(p)
  BY <1>1, <1>2
<1>4. token(s) = token(p)
  BY <1>3 DEF HolderOK, Carries
<1> QED BY <1>4, TokenType DEF Typed

\* A server stays calm through a step of another that at most removes records,
\* and not the one it stands by or is about to unlink.
LEMMA OthersKeep ==
  ASSUME Typed, NEW s \in Server, Calm(s),
         pc'[s] = pc[s], token(s)' = token(s), top'[s] = top[s], below'[s] = below[s],
         ticket'[s] = ticket[s],
         \A g \in Gen : dir'[g] = dir[g] \/ dir'[g] = NoRecord,
         pc[s] \in Held \cup {"unlinkOwn"} => dir'[mine(s)] = dir[mine(s)],
         \A g \in Gen : dir[g] # NoRecord /\ dir[g].token \notin sockets
                          => dir[g].token \notin sockets'
  PROVE  Calm(s)'
<1>1. mine(s)' = mine(s)
  BY DEF mine
<1>2. HolderOK(s)'
  BY <1>1 DEF Calm, HolderOK, Carries, Highest, Held
<1>3. \A g \in below[s] : g \in Gen
  BY DEF Typed, TypeOK
<1>4. CollectorOK(s)'
  <2>1. (Serving(s) => \A g \in below[s] : g < mine(s))'
    BY <1>1 DEF Calm, CollectorOK, Serving
  <2>2. (pc[s] = "drop" => \A g \in below[s] :
          (\A h \in below[s] : g <= h) => dir[g] = NoRecord \/ Droppable(dir[g]))'
    BY <1>3 DEF Calm, CollectorOK, Droppable
  <2> QED BY <2>1, <2>2 DEF CollectorOK
<1>5. NewcomerOK(s)'
  BY DEF Calm, NewcomerOK, Carries
<1>6. LeaverOK(s)'
  BY <1>1 DEF Calm, LeaverOK, Ours, Carries
<1>7. ChildOK(s)'
  BY DEF Calm, ChildOK, Carries
<1> QED BY <1>2, <1>4, <1>5, <1>6, <1>7 DEF Calm

LEMMA CalmBoot ==
  ASSUME Known, NEW p \in Server, Start(p) \/ \E c \in Server : SpawnChild(c, p),
         \A s \in Server : Calm(s)
  PROVE  \A s \in Server : Calm(s)'
<1> USE DEF Known
<1>1. ASSUME NEW s \in Server, s # p, pc'[s] = pc[s] PROVE Calm(s)'
  <2>1. \A g \in Gen : dir[g] # NoRecord /\ dir[g].token \notin sockets
                          => dir[g].token \notin sockets'
    BY BootFacts DEF Carries
  <2> QED BY <1>1, <2>1, BootFacts, OthersKeep
<1>2. Calm(p)'
  <2>1. ASSUME NEW c \in Server, pc[c] = "spawn", ticket'[p] = token(c) PROVE ChildOK(p)'
    BY <2>1, BootFacts DEF Calm, HolderOK, Held, ChildOK, Carries
  <2>2. ChildOK(p)'
    BY <2>1, BootFacts DEF ChildOK
  <2>3. pc'[p] = "list" /\ NewcomerOK(p)'
    BY BootFacts DEF NewcomerOK, Carries
  <2> QED BY <2>2, <2>3 DEF Calm, HolderOK, Held, CollectorOK, Serving, LeaverOK
<1>3. ASSUME NEW c \in Server, c # p, pc'[c] = "await" PROVE Calm(c)'
  <2>1. ChildOK(c)'
    BY <1>3, BootFacts DEF Calm, ChildOK, Carries
  <2> QED BY <1>3, <2>1 DEF Calm, HolderOK, Held, CollectorOK, Serving, LeaverOK,
             NewcomerOK, Before
<1> QED BY <1>1, <1>2, <1>3, BootFacts

LEMMA CalmGone ==
  ASSUME Known, NEW p \in Server, Close(p) \/ Crash(p), \A s \in Server : Calm(s)
  PROVE  \A s \in Server : Calm(s)'
<1> USE DEF Known
<1>1. ASSUME NEW s \in Server, s # p PROVE Calm(s)'
  BY <1>1, GoneFacts, OthersKeep
<1>2. Calm(p)'
  BY GoneFacts DEF Calm, HolderOK, Held, CollectorOK, Serving, LeaverOK, NewcomerOK, Before,
                   ChildOK
<1> QED BY <1>1, <1>2

\* Steps that leave the directory alone.
LEMMA CalmSilent ==
  ASSUME Known, NEW p \in Server, \A s \in Server : Calm(s), dir' = dir,
         Acquiring(p) \/ (Leaving(p) /\ ~Close(p)), ~Publish(p), Calm(p)'
  PROVE  \A s \in Server : Calm(s)'
<1>1. ASSUME NEW s \in Server, s # p PROVE Calm(s)'
  <2>1. sockets' \subseteq sockets
    BY StepFacts DEF Known
  <2> QED BY <1>1, <2>1, StepFacts, OthersKeep DEF Known
<1> QED BY <1>1

\* A step before the record is published, or after it is given up, needs only a
\* place that is not the holder's.
LEMMA SelfElsewhere ==
  ASSUME Known, NEW p \in Server, Calm(p), Acquiring(p) \/ (Leaving(p) /\ ~Close(p)),
         \A g \in Gen : dir'[g] = dir[g] \/ dir'[g] = NoRecord,
         pc'[p] \notin Held \cup {"backoff", "unlinkOwn"},
         pc'[p] \in Before => pc[p] \in Before
  PROVE  Calm(p)'
<1>1. token(p)' = token(p) /\ ticket'[p] = ticket[p]
  BY StepFacts DEF Known
<1>2. NewcomerOK(p)' /\ ChildOK(p)'
  BY <1>1 DEF Calm, NewcomerOK, ChildOK, Carries
<1> QED BY <1>2 DEF Calm, HolderOK, Held, CollectorOK, Serving, LeaverOK

LEMMA CalmAcquiringSilent ==
  ASSUME Known, NEW p \in Server, \A s \in Server : Calm(s),
         ListGens(p) \/ ReadTop(p) \/ ProbeTop(p) \/ Stage(p)
  PROVE  \A s \in Server : Calm(s)'
<1> USE DEF Known, Typed
<1>1. dir' = dir
  BY DEF ListGens, ReadTop, ProbeTop, Stage
<1>2. pc[p] \in Before /\ pc'[p] \in Before \cup {"close"}
  <2>1. CASE ReadTop(p)
    BY <2>1, LookAgainTyped DEF ReadTop, At, Goto, TypeOK, Before
  <2> QED BY <2>1 DEF ListGens, ProbeTop, Stage, At, Goto, TypeOK, Before
<1>3. Calm(p)'
  BY <1>1, <1>2, SelfElsewhere DEF Acquiring, Before, Held
<1>4. ~Publish(p)
  BY <1>1, <1>2 DEF Publish, ListGens, ReadTop, ProbeTop, Stage, At
<1> QED BY <1>1, <1>3, <1>4, CalmSilent DEF Acquiring

\* A holder's step that leaves its record and its generation alone.
LEMMA SelfHolder ==
  ASSUME Known, NEW p \in Server, Calm(p), pc[p] \in Held \ {"write"},
         top'[p] = top[p], token(p)' = token(p), ticket'[p] = ticket[p], dir' = dir,
         pc'[p] \in Held \ {"write", "spawn"}, CollectorOK(p)'
  PROVE  Calm(p)'
<1>1. mine(p)' = mine(p)
  BY DEF mine
<1>2. HolderOK(p)'
  BY <1>1 DEF Calm, HolderOK, Carries, Highest, Held
<1>3. ChildOK(p)'
  BY DEF Calm, ChildOK, Carries
<1> QED BY <1>2, <1>3 DEF Calm, NewcomerOK, LeaverOK, Held, Before

LEMMA CalmCollecting ==
  ASSUME Known, NEW p \in Server, \A s \in Server : Calm(s),
         Confirm(p) \/ CollectJudge(p) \/ Collected(p) \/ SweepStaging(p) 
  PROVE  \A s \in Server : Calm(s)'
<1> USE DEF Known, Typed, At, Goto, locals
<1>1. /\ dir' = dir /\ top'[p] = top[p] /\ token(p)' = token(p) /\ ticket'[p] = ticket[p]
      /\ sockets' = sockets
      /\ pc[p] \in Held \ {"write"} /\ ~Publish(p)
  BY DEF Confirm, CollectJudge, Collected, SweepStaging, token, Held, Publish
<1>2. mine(p)' = mine(p)
  BY <1>1 DEF mine
<1>3. TopGen = mine(p)
  <2>1. mine(p) \in Present /\ mine(p) \in Nat /\ \A h \in Present : h <= mine(p)
    BY <1>1 DEF Calm, HolderOK, Carries, Highest, Present, PlacedOK, Placed, Gen
  <2>2. TopGen \in Nat /\ TopGen \in Present /\ \A h \in Present : h <= TopGen
    BY <2>1, TopFacts
  <2> QED BY <2>1, <2>2
<1>4. pc'[p] \in Held \ {"write", "spawn"} /\ CollectorOK(p)'
  <2>1. CASE Confirm(p)
    BY <1>2, <1>3, <2>1 DEF Confirm, TypeOK, Held, CollectorOK, Serving
  <2>2. CASE CollectJudge(p)
    <3>1. PICK g \in below[p] :
            /\ \A h \in below[p] : g <= h
            /\ \/ dir[g] # NoRecord /\ Droppable(dir[g]) /\ pc' = [pc EXCEPT ![p] = "drop"]
                  /\ UNCHANGED below
               \/ below' = [below EXCEPT ![p] = @ \ {g}] /\ UNCHANGED pc
      BY <2>2 DEF CollectJudge
    <3>2. \A h \in below[p] : h \in Gen /\ h \in Nat
      BY DEF TypeOK, Gen
    <3>3. pc[p] = "collect" /\ \A h \in below[p] : h < mine(p)
      BY <2>2 DEF CollectJudge, Calm, CollectorOK, Serving
    <3>4. pc'[p] \in {"collect", "drop"} /\ \A h \in below'[p] : h \in below[p]
      BY <3>1, <3>3 DEF TypeOK
    <3>5. (Serving(p) => \A h \in below[p] : h < mine(p))'
      BY <1>2, <3>3, <3>4
    <3>6. ASSUME pc'[p] = "drop", NEW k \in below'[p], \A h \in below'[p] : k <= h
          PROVE  (dir[k] = NoRecord \/ Droppable(dir[k]))'
      <4>1. below' = below /\ Droppable(dir[g])
        BY <3>1, <3>3, <3>6
      <4>2. k = g
        <5>1. k <= g /\ g <= k
          BY <3>1, <3>6, <4>1
        <5> QED BY <3>2, <3>6, <4>1, <5>1
      <4>3. Droppable(dir[k])'
        BY <1>1, <4>1, <4>2 DEF Droppable
      <4> QED BY <4>3
    <3> QED BY <3>4, <3>5, <3>6 DEF CollectorOK, Held
  <2>3. CASE Collected(p) \/ SweepStaging(p)
    BY <1>2, <2>3 DEF Collected, SweepStaging, TypeOK, Held, Calm, CollectorOK, Serving
  <2> QED BY <2>1, <2>2, <2>3
<1>5. Calm(p)'
  BY <1>1, <1>4, SelfHolder
<1> QED BY <1>1, <1>5, CalmSilent DEF Acquiring

LEMMA CalmDrop ==
  ASSUME Known, NEW p \in Server, \A s \in Server : Calm(s), CollectDrop(p)
  PROVE  \A s \in Server : Calm(s)'
<1> USE DEF Known, Typed, At, Goto, locals
<1>1. PICK g \in below[p] :
        /\ \A h \in below[p] : g <= h
        /\ dir' = [dir EXCEPT ![g] = NoRecord]
        /\ below' = [below EXCEPT ![p] = @ \ {g}]
  BY DEF CollectDrop
<1>2. /\ pc[p] = "drop" /\ pc'[p] = "collect" /\ sockets' = sockets /\ createMode' = createMode
      /\ top'[p] = top[p] /\ token(p)' = token(p) /\ ticket'[p] = ticket[p]
  BY DEF CollectDrop, TypeOK, token
<1>3. mine(p)' = mine(p)
  BY <1>2 DEF mine
<1>4. g \in Gen /\ g \in Nat /\ mine(p) \in Nat /\ g < mine(p)
  BY <1>2 DEF TypeOK, Gen, PlacedOK, Placed, Held, Calm, CollectorOK, Serving
<1>5. dir[g] = NoRecord \/ Droppable(dir[g])
  BY <1>1, <1>2 DEF Calm, CollectorOK
<1>6. Calm(p)'
  <2>1. HolderOK(p)'
    BY <1>1, <1>2, <1>3, <1>4 DEF TypeOK, Calm, HolderOK, Carries, Highest, Held
  <2>2. CollectorOK(p)'
    <3>1. \A h \in below'[p] : h \in below[p]
      BY <1>1 DEF TypeOK
    <3>2. \A h \in below[p] : h < mine(p)
      BY <1>2 DEF Calm, CollectorOK, Serving
    <3> QED BY <1>2, <1>3, <3>1, <3>2 DEF CollectorOK, Serving
  <2>3. ChildOK(p)'
    BY <1>1, <1>2 DEF TypeOK, Calm, ChildOK, Carries
  <2> QED BY <1>2, <2>1, <2>2, <2>3 DEF Calm, NewcomerOK, LeaverOK, Before
<1>7. ASSUME NEW s \in Server, s # p PROVE Calm(s)'
  <2>1. pc[s] \notin Held
    BY <1>2, <1>7, OneHeld DEF Calm, Held
  <2>2. pc[s] = "unlinkOwn" => mine(s) # g
    <3>1. ASSUME pc[s] = "unlinkOwn", mine(s) = g PROVE FALSE
      <4>1. dir[g] # NoRecord /\ dir[g].token = token(s) /\ dir[g].whole
        BY <3>1 DEF Calm, LeaverOK, Ours, Carries
      <4>2. token(s) \notin sockets
        BY <1>5, <4>1 DEF Droppable
      <4> QED BY <3>1, <4>2 DEF Listening
    <3> QED BY <3>1
  <2>3. pc[s] \in Held \cup {"unlinkOwn"} => dir'[mine(s)] = dir[mine(s)]
    BY <1>1, <2>1, <2>2 DEF TypeOK, PlacedOK, Placed
  <2>4. \A h \in Gen : dir'[h] = dir[h] \/ dir'[h] = NoRecord
    BY <1>1 DEF TypeOK
  <2> QED BY <1>2, <1>7, <2>3, <2>4, StepFacts, OthersKeep DEF Acquiring
<1> QED BY <1>6, <1>7

LEMMA CalmLeavingSilent ==
  ASSUME Known, NEW p \in Server, \A s \in Server : Calm(s),
         CheckOffer(p) \/ BeginExit(p) \/ CheckOwn(p)
  PROVE  \A s \in Server : Calm(s)'
<1> USE DEF Known, Typed, At, Goto, locals
<1>1. /\ dir' = dir /\ top'[p] = top[p] /\ token(p)' = token(p) /\ ticket'[p] = ticket[p]
      /\ Leaving(p) /\ ~Close(p) /\ ~Publish(p)
  BY DEF CheckOffer, BeginExit, CheckOwn, token, Leaving, Close, Publish
<1>2. Calm(p)'
  <2>1. CASE pc'[p] = "offer"
    <3>1. pc[p] = "hold"
      BY <2>1 DEF CheckOffer, BeginExit, CheckOwn, TypeOK
    <3>2. CollectorOK(p)'
      BY <2>1 DEF CollectorOK, Serving
    <3> QED BY <1>1, <2>1, <3>1, <3>2, SelfHolder DEF Held
  <2>2. CASE pc'[p] = "unlinkOwn"
    <3>1. Ours(p)
      BY <2>2 DEF CheckOffer, BeginExit, CheckOwn, TypeOK
    <3>2. LeaverOK(p)'
      BY <1>1, <2>2, <3>1 DEF LeaverOK, Ours, Carries, mine
    <3>3. ChildOK(p)'
      BY <1>1 DEF Calm, ChildOK, Carries
    <3> QED BY <2>2, <3>2, <3>3 DEF Calm, HolderOK, Held, CollectorOK, Serving, NewcomerOK, Before
  <2>3. CASE pc'[p] \notin {"offer", "unlinkOwn"}
    <3>1. pc'[p] \in {"checkOwn", "close"}
      BY <2>3 DEF CheckOffer, BeginExit, CheckOwn, TypeOK
    <3> QED BY <1>1, <3>1, SelfElsewhere DEF Held, Before
  <2> QED BY <2>1, <2>2, <2>3
<1> QED BY <1>1, <1>2, CalmSilent

\* A server that rewrites its own top record, as the offer or as the whole record.
LEMMA CalmRewrite ==
  ASSUME Known, NEW p \in Server, \A s \in Server : Calm(s),
         NEW rec \in Record, rec.token = token(p), rec.whole, pc[p] \in {"offer", "write"},
         dir[mine(p)].offered => rec.offered,
         dir' = [dir EXCEPT ![mine(p)] = rec],
         Acquiring(p) \/ (Leaving(p) /\ ~Close(p)),
         top'[p] = top[p],
         pc'[p] = "confirm" \/ (pc'[p] = "spawn" /\ rec.offered)
  PROVE  \A s \in Server : Calm(s)'
<1> USE DEF Known, Typed
<1>1. /\ \A s \in Server : token(s)' = token(s)
      /\ \A s \in Server : ticket'[s] = ticket[s]
      /\ sockets' \subseteq sockets
  BY StepFacts
<1>2. mine(p)' = mine(p) /\ mine(p) \in Gen
  BY DEF mine, PlacedOK, Placed, Held
<1>3. Carries(mine(p), token(p)) /\ rec # NoRecord
  BY RootLockAssumption DEF Calm, HolderOK, Held
<1>4. \A g \in Gen, t \in Token : Carries(g, t)' <=> Carries(g, t)
  BY <1>2, <1>3 DEF Carries, TypeOK
<1>5. ASSUME NEW s \in Server PROVE ChildOK(s)'
  <2>1. ticket[s] # NoToken => ticket[s] \in Token
    BY DEF TypeOK
  <2>2. \A g \in Gen : dir[g].offered => dir'[g].offered
    BY DEF TypeOK
  <2>3. \A g \in Gen : ticket[s] # NoToken /\ Carries(g, ticket[s])' => dir[g].offered
    <3>1. \A g \in Gen : ticket[s] # NoToken /\ Carries(g, ticket[s])' => Carries(g, ticket[s])
      BY <1>1, <1>4, <2>1 DEF Carries
    <3> QED BY <3>1 DEF Calm, ChildOK
  <2> QED BY <1>1, <2>2, <2>3 DEF ChildOK, Carries
<1>6. Calm(p)'
  <2>1. token(p) \in Token
    BY TokenType
  <2>2. \A g \in Gen : dir'[g] # NoRecord <=> dir[g] # NoRecord
    BY <1>2, <1>3 DEF TypeOK, Carries
  <2>3. dir'[mine(p)] = rec
    BY <1>2 DEF TypeOK
  <2>4. /\ Carries(mine(p), token(p))'
        /\ Highest(mine(p))'
        /\ (\A g \in Gen : Carries(g, token(p)) => g = mine(p))'
    <3>1. Highest(mine(p)) /\ \A g \in Gen : Carries(g, token(p)) => g = mine(p)
      BY DEF Calm, HolderOK, Held
    <3>2. Carries(mine(p), token(p))'
      BY <1>1, <1>2, <1>3, <2>3 DEF Carries
    <3>3. Highest(mine(p))'
      BY <1>2, <2>2, <3>1 DEF Highest
    <3>4. (\A g \in Gen : Carries(g, token(p)) => g = mine(p))'
      BY <1>1, <1>2, <2>1, <3>1, <1>3 DEF Carries, TypeOK
    <3> QED BY <3>2, <3>3, <3>4
  <2>5. HolderOK(p)'
    BY <1>2, <2>3, <2>4 DEF HolderOK
  <2> QED BY <1>5, <2>5 DEF Calm, CollectorOK, Serving, NewcomerOK, Before, LeaverOK
<1>7. ASSUME NEW s \in Server, s # p PROVE Calm(s)'
  <2>1. pc'[s] = pc[s] /\ top'[s] = top[s] /\ mine(s)' = mine(s)
    BY <1>7, StepFacts DEF mine
  <2>2. pc[s] \notin Held
    BY <1>7, OneHeld DEF Calm, Held
  <2>3. NewcomerOK(s)'
    BY <1>1, <1>4, <2>1, TokenType, <1>2, <1>3 DEF Calm, NewcomerOK, Carries, TypeOK
  <2>4. LeaverOK(s)'
    <3>1. pc[s] = "unlinkOwn" => mine(s) # mine(p)
      BY <1>3, <1>7, TokenType DEF Calm, LeaverOK, Ours, Carries
    <3> QED BY <1>1, <2>1, <3>1 DEF Calm, LeaverOK, Ours, Carries, TypeOK
  <2> QED BY <1>5, <2>1, <2>2, <2>3, <2>4 DEF Calm, HolderOK, CollectorOK, Serving, Held
<1> QED BY <1>6, <1>7

LEMMA CalmOffer ==
  ASSUME Known, NEW p \in Server, \A s \in Server : Calm(s), WriteOffer(p)
  PROVE  \A s \in Server : Calm(s)'
<1> USE DEF Known, Typed, At, Goto, locals
<1>1. top' = top /\ Leaving(p) /\ ~Close(p) /\ ~Publish(p) /\ pc[p] = "offer"
  BY DEF WriteOffer, Leaving, Close, Publish
<1>2. CASE pc' = [pc EXCEPT ![p] = "spawn"]
  <2>1. PICK rec : rec = [token |-> token(p), whole |-> TRUE, offered |-> TRUE]
    OBVIOUS
  <2>2. rec \in Record /\ rec.token = token(p) /\ rec.whole /\ rec.offered
    BY <2>1, TokenType DEF Record
  <2>3. dir' = [dir EXCEPT ![mine(p)] = rec] /\ pc'[p] = "spawn"
    BY <1>2, <2>1 DEF WriteOffer, TypeOK
  <2> QED BY <1>1, <2>2, <2>3, CalmRewrite
<1>3. CASE pc' # [pc EXCEPT ![p] = "spawn"]
  <2>1. dir' = dir /\ pc'[p] = "checkOwn"
    BY <1>3 DEF WriteOffer, TypeOK
  <2>2. Calm(p)'
    BY <1>1, <2>1, SelfElsewhere DEF Held, Before
  <2> QED BY <1>1, <2>1, <2>2, CalmSilent
<1> QED BY <1>2, <1>3

\* A server that removes its own record, or none.
LEMMA CalmRemove ==
  ASSUME Known, NEW p \in Server, \A s \in Server : Calm(s),
         \/ dir' = dir
         \/ dir' = [dir EXCEPT ![mine(p)] = NoRecord] /\ Carries(mine(p), token(p)),
         Acquiring(p) \/ (Leaving(p) /\ ~Close(p)), ~Publish(p),
         pc'[p] \in {"close", "stranded"}
  PROVE  \A s \in Server : Calm(s)'
<1> USE DEF Known, Typed
<1>1. \A g \in Gen : dir'[g] = dir[g] \/ dir'[g] = NoRecord
  BY DEF TypeOK
<1>2. Calm(p)'
  BY <1>1, SelfElsewhere DEF Held, Before
<1>3. ASSUME NEW s \in Server, s # p PROVE Calm(s)'
  <2>1. pc[s] \in Held \cup {"unlinkOwn"} => mine(s) \in Gen /\ Carries(mine(s), token(s))
    BY DEF Calm, HolderOK, LeaverOK, Ours, PlacedOK, Placed
  <2>2. pc[s] \in Held \cup {"unlinkOwn"} => dir'[mine(s)] = dir[mine(s)]
    BY <1>3, <2>1, TokenType DEF Carries, TypeOK
  <2>3. sockets' \subseteq sockets
    BY StepFacts
  <2> QED BY <1>1, <1>3, <2>2, <2>3, StepFacts, OthersKeep
<1> QED BY <1>2, <1>3

LEMMA CalmWrite ==
  ASSUME Known, NEW p \in Server, \A s \in Server : Calm(s), WriteRecord(p)
  PROVE  \A s \in Server : Calm(s)'
<1> USE DEF Known, Typed, At, Goto, locals
<1>1. top' = top /\ Acquiring(p) /\ ~Publish(p) /\ pc[p] = "write"
  BY DEF WriteRecord, Acquiring, Publish
<1>2. Carries(mine(p), token(p)) /\ mine(p) \in Gen
  BY <1>1 DEF Calm, HolderOK, Held, PlacedOK, Placed
<1>3. CASE pc' = [pc EXCEPT ![p] = "confirm"]
  <2>1. PICK rec : rec = [dir[mine(p)] EXCEPT !.whole = TRUE]
    OBVIOUS
  <2>2. dir[mine(p)] \in Record
    BY <1>2 DEF TypeOK, Carries
  <2>3. rec \in Record /\ rec.token = token(p) /\ rec.whole /\ rec.offered = dir[mine(p)].offered
    BY <1>2, <2>1, <2>2 DEF Record, Carries
  <2>4. dir' = [dir EXCEPT ![mine(p)] = rec] /\ pc'[p] = "confirm"
    BY <1>2, <1>3, <2>1 DEF WriteRecord, TypeOK
  <2> QED BY <1>1, <2>3, <2>4, CalmRewrite
<1>4. CASE pc' # [pc EXCEPT ![p] = "confirm"]
  <2>1. dir' = [dir EXCEPT ![mine(p)] = NoRecord] /\ pc'[p] = "close"
    BY <1>4 DEF WriteRecord, TypeOK
  <2> QED BY <1>1, <1>2, <2>1, CalmRemove
<1> QED BY <1>3, <1>4

LEMMA CalmUnlink ==
  ASSUME Known, NEW p \in Server, \A s \in Server : Calm(s), UnlinkOwn(p) \/ SpawnFails(p)
  PROVE  \A s \in Server : Calm(s)'
<1> USE DEF Known, Typed, At, Goto, locals
<1>1. Leaving(p) /\ ~Close(p) /\ ~Publish(p) /\ pc'[p] \in {"close", "stranded"}
  BY DEF UnlinkOwn, SpawnFails, Leaving, Close, Publish, TypeOK
<1>2. \/ dir' = dir
      \/ dir' = [dir EXCEPT ![mine(p)] = NoRecord] /\ Carries(mine(p), token(p))
  BY DEF UnlinkOwn, SpawnFails, Ours, Calm, LeaverOK
<1> QED BY <1>1, <1>2, CalmRemove

-----------------------------------------------------------------------------
(* The exclusive step. *)

\* A publication over the record its publisher judged finds no other holder: that
\* record would be the holder's, alive, so only its own child may pass it.
LEMMA NoOtherHolder ==
  ASSUME Known, NEW p \in Server, NEW s \in Server, HolderOK(s),
         pc[p] = "publish", TopToken = seen[p]
  PROVE  pc[s] \notin Held
<1> USE DEF Known, Typed
<1> SUFFICES ASSUME pc[s] \in Held PROVE FALSE
  OBVIOUS
<1>1. Carries(mine(s), token(s)) /\ Highest(mine(s)) /\ mine(s) \in Nat
  BY DEF HolderOK, PlacedOK, Placed, Gen
<1>2. TopGen = mine(s) /\ Present # {}
  <2>1. mine(s) \in Present /\ \A h \in Present : h <= mine(s)
    BY <1>1 DEF Carries, Highest, Present
  <2>2. TopGen \in Nat /\ TopGen \in Present /\ \A h \in Present : h <= TopGen
    BY <2>1, TopFacts
  <2> QED BY <1>1, <2>1, <2>2
<1>3. seen[p] = token(s)
  BY <1>1, <1>2 DEF TopToken, Carries
<1>4. token(s) \in sockets /\ token(s) # NoToken
  BY TokenType, RootLockAssumption DEF Listening, Held
<1>5. ticket[p] = token(s)
  BY <1>3, <1>4 DEF JudgedOK
<1>6. pc[s] \in Handed
  BY <1>5 DEF TicketOK
<1> QED BY <1>6 DEF Held, Handed

LEMMA CalmPublish ==
  ASSUME Known, NEW p \in Server, \A s \in Server : Calm(s), Publish(p), ~raced'
  PROVE  \A s \in Server : Calm(s)'
<1> USE DEF Known, Typed, At, Goto
<1>1. Acquiring(p) /\ pc[p] = "publish" /\ mine(p) \in Gen /\ mine(p) \in Nat
  BY DEF Publish, Acquiring, PlacedOK, Placed, Gen
<1>2. /\ \A s \in Server : token(s)' = token(s)
      /\ \A s \in Server : ticket'[s] = ticket[s]
      /\ sockets' = sockets /\ top' = top
  BY <1>1, StepFacts DEF Publish
<1>3. mine(p)' = mine(p)
  BY <1>2 DEF mine
<1>4. CASE (createMode = "link" => staged[p]) /\ dir[mine(p)] = NoRecord
  <2>1. PICK rec : rec = [token |-> token(p), whole |-> createMode = "link", offered |-> FALSE]
    OBVIOUS
  <2>2. /\ rec \in Record /\ rec # NoRecord /\ rec.token = token(p)
        /\ createMode = "link" => rec.whole
    <3>1. rec.token = token(p) /\ (createMode = "link" => rec.whole)
      BY <2>1
    <3>2. rec \in Record
      BY <2>1, TokenType DEF Record
    <3> QED BY <3>1, <3>2, RootLockAssumption
  <2>3. /\ dir' = [dir EXCEPT ![mine(p)] = rec]
        /\ pc'[p] = IF createMode = "link" THEN "confirm" ELSE "write"
        /\ TopGen = top[p] /\ TopToken = seen[p]
    BY <1>4, <2>1 DEF Publish, TypeOK
  <2>4. dir'[mine(p)] = rec /\ \A g \in Gen \ {mine(p)} : dir'[g] = dir[g]
    BY <1>1, <2>3 DEF TypeOK
  <2>5. \A s \in Server : pc[s] \notin Held
    BY <1>1, <2>3, NoOtherHolder DEF Calm
  <2>6. \A s \in Server : ticket[s] # token(p)
    BY <1>1 DEF TicketOK, Handed
  <2>7. ASSUME NEW s \in Server PROVE ChildOK(s)'
    BY <1>2, <2>2, <2>4, <2>6 DEF Calm, ChildOK, Carries
  <2>8. Calm(p)'
    <3>1. \A g \in Gen : ~Carries(g, token(p))
      BY <1>1 DEF Calm, NewcomerOK, Before
    <3>2. Carries(mine(p), token(p))'
      BY <1>1, <1>2, <1>3, <2>2, <2>4 DEF Carries
    <3>3. (\A g \in Gen : Carries(g, token(p)) => g = mine(p))'
      BY <1>2, <1>3, <2>4, <3>1 DEF Carries
    <3>4. Highest(mine(p))'
      <4>1. ASSUME NEW h \in Gen, dir'[h] # NoRecord PROVE h <= mine(p)
        <5>1. CASE h = mine(p)
          BY <1>1, <5>1
        <5>2. CASE h # mine(p)
          <6>1. h \in Present
            BY <2>4, <4>1, <5>2 DEF Present
          <6>2. h <= top[p] /\ h \in Nat /\ top[p] \in Nat
            BY <2>3, <6>1, TopFacts DEF Gen, TypeOK
          <6> QED BY <6>2 DEF mine
        <5> QED BY <5>1, <5>2
      <4> QED BY <1>3, <4>1 DEF Highest
    <3>5. HolderOK(p)'
      BY <1>3, <2>2, <2>3, <2>4, <3>2, <3>3, <3>4 DEF HolderOK
    <3> QED BY <2>3, <2>7, <3>5 DEF Calm, CollectorOK, Serving, NewcomerOK, Before, LeaverOK
  <2>9. ASSUME NEW s \in Server, s # p PROVE Calm(s)'
    <3>1. pc'[s] = pc[s] /\ top'[s] = top[s] /\ mine(s)' = mine(s)
      BY <1>1, <2>9, StepFacts DEF mine
    <3>2. token(s) # token(p)
      BY <2>9, TokenType
    <3>3. NewcomerOK(s)'
      BY <1>2, <2>2, <2>4, <3>1, <3>2 DEF Calm, NewcomerOK, Carries
    <3>4. LeaverOK(s)'
      <4>1. pc[s] = "unlinkOwn" => mine(s) # mine(p)
        BY <1>4 DEF Calm, LeaverOK, Ours, Carries
      <4> QED BY <1>2, <2>4, <3>1, <4>1 DEF Calm, LeaverOK, Ours, Carries
    <3> QED BY <2>5, <2>7, <3>1, <3>3, <3>4 DEF Calm, HolderOK, CollectorOK, Serving, Held
  <2> QED BY <2>8, <2>9
<1>5. CASE ~((createMode = "link" => staged[p]) /\ dir[mine(p)] = NoRecord)
  <2>1. dir' = dir /\ pc'[p] \in {"list", "close"}
    BY <1>5, LookAgainTyped DEF Publish, TypeOK
  <2>2. Calm(p)'
    BY <1>1, <2>1, SelfElsewhere DEF Held, Before
  <2>3. ASSUME NEW s \in Server, s # p PROVE Calm(s)'
    BY <1>1, <1>2, <2>1, <2>3, StepFacts, OthersKeep
  <2> QED BY <2>2, <2>3
<1> QED BY <1>4, <1>5

-----------------------------------------------------------------------------
(* The inductive invariant. *)

LEMMA RacedStays ==
  ASSUME [Next]_vars, ~raced'
  PROVE  ~raced
<1>1. ASSUME NEW p \in Server, Acquiring(p) \/ Leaving(p) \/ Start(p) \/ Crash(p) PROVE ~raced
  BY <1>1 DEF Acquiring, Leaving, Start, Crash, Close, Gone, ListGens, ReadTop, ProbeTop,
     Stage, Publish, WriteRecord, Confirm, BackOff, CollectJudge, CollectDrop, Collected,
     SweepStaging, CheckOffer, WriteOffer, SpawnFails, BeginExit, CheckOwn, UnlinkOwn
<1>2. ASSUME NEW p \in Server, NEW c \in Server, SpawnChild(p, c) PROVE ~raced
  BY <1>2 DEF SpawnChild
<1>3. CASE UNCHANGED vars
  BY <1>3 DEF vars
<1> QED BY <1>1, <1>2, <1>3 DEF Next

LEMMA CalmNext == IInv /\ [Next]_vars => CalmOK'
<1> SUFFICES ASSUME IInv, [Next]_vars, ~raced' PROVE \A s \in Server : Calm(s)'
  BY DEF CalmOK
<1> USE DEF IInv, Known
<1>1. ~raced
  BY RacedStays
<1>2. \A s \in Server : Calm(s)
  BY <1>1 DEF CalmOK
<1>3. ASSUME NEW p \in Server, Start(p) \/ \E c \in Server : SpawnChild(c, p)
      PROVE  \A s \in Server : Calm(s)'
  BY <1>2, <1>3, CalmBoot
<1>4. ASSUME NEW p \in Server, Close(p) \/ Crash(p) PROVE \A s \in Server : Calm(s)'
  BY <1>2, <1>4, CalmGone
<1>5. ASSUME NEW p \in Server, Acquiring(p) PROVE \A s \in Server : Calm(s)'
  <2>1. CASE ListGens(p) \/ ReadTop(p) \/ ProbeTop(p) \/ Stage(p)
    BY <1>2, <2>1, CalmAcquiringSilent
  <2>2. CASE Publish(p)
    BY <1>2, <2>2, CalmPublish
  <2>3. CASE WriteRecord(p)
    BY <1>2, <2>3, CalmWrite
  <2>4. CASE Confirm(p) \/ CollectJudge(p) \/ Collected(p) \/ SweepStaging(p)
    BY <1>2, <2>4, CalmCollecting
  <2>5. CASE BackOff(p)
    BY <1>2, <2>5 DEF BackOff, At, Calm, LeaverOK
  <2>6. CASE CollectDrop(p)
    BY <1>2, <2>6, CalmDrop
  <2> QED BY <1>5, <2>1, <2>2, <2>3, <2>4, <2>5, <2>6 DEF Acquiring
<1>6. ASSUME NEW p \in Server, Leaving(p) /\ ~Close(p) PROVE \A s \in Server : Calm(s)'
  <2>1. CASE CheckOffer(p) \/ BeginExit(p) \/ CheckOwn(p)
    BY <1>2, <2>1, CalmLeavingSilent
  <2>2. CASE WriteOffer(p)
    BY <1>2, <2>2, CalmOffer
  <2>3. CASE UnlinkOwn(p) \/ SpawnFails(p)
    BY <1>2, <2>3, CalmUnlink
  <2> QED BY <1>6, <2>1, <2>2, <2>3 DEF Leaving
<1>7. CASE UNCHANGED vars
  <2>1. ASSUME NEW s \in Server PROVE Calm(s)'
    <3>1. token(s)' = token(s)
      BY <1>7 DEF vars, token
    <3> QED BY <1>2, <1>7, <3>1, OthersKeep DEF vars
  <2> QED BY <2>1
<1> QED BY <1>3, <1>4, <1>5, <1>6, <1>7, Kinds

LEMMA IInvNext == IInv /\ [Next]_vars => IInv'
BY KnownNext, CalmNext DEF IInv

\* The invariant holds of every reachable state.
THEOREM Inductive == Spec => []IInv
<1>1. Init => IInv
  BY KnownInit, CalmInit DEF IInv
<1> QED BY <1>1, IInvNext, PTL DEF Spec

-----------------------------------------------------------------------------
(* What it gives. *)

\* TypeOK: the acquire loop keeps within its attempts and its generations.
THEOREM TypeCorrect == Spec => []TypeOK
<1>1. IInv => TypeOK
  BY DEF IInv, Known, Typed
<1> QED BY <1>1, Inductive, PTL

\* A server past its confirmation stands by the top record.
LEMMA HeldIsTop ==
  ASSUME IInv, ~raced, NEW s \in Server, pc[s] \in Held
  PROVE  Carries(mine(s), token(s)) /\ TopGen = mine(s)
<1> USE DEF IInv, Known, Typed
<1>1. Carries(mine(s), token(s)) /\ Highest(mine(s)) /\ mine(s) \in Nat
  BY DEF CalmOK, Calm, HolderOK, PlacedOK, Placed, Gen
<1>2. mine(s) \in Present /\ \A h \in Present : h <= mine(s)
  BY <1>1 DEF Carries, Highest, Present
<1>3. TopGen \in Nat /\ TopGen \in Present /\ \A h \in Present : h <= TopGen
  BY <1>2, TopFacts
<1> QED BY <1>1, <1>2, <1>3

\* HolderIsTop: no collector, back-off or late release takes a serving server's
\* record, while no publication raced (rootLock.ts: acquire, collectBelow, releaseSync).
THEOREM ServesFromTheTop == Spec => []HolderIsTop
<1>1. IInv => HolderIsTop
  <2> SUFFICES ASSUME IInv, ~raced, NEW s \in Server, Serving(s)
               PROVE  Ours(s) /\ TopGen = mine(s)
    BY DEF HolderIsTop
  <2>1. pc[s] \in Held /\ pc[s] # "write"
    BY DEF Serving, Held
  <2>2. dir[mine(s)].whole
    BY <2>1 DEF IInv, CalmOK, Calm, HolderOK
  <2> QED BY <2>1, <2>2, HeldIsTop DEF Ours
<1> QED BY <1>1, Inductive, PTL

\* OneServerUnlessRaced: at most one server on a projects root, whatever the number of
\* contenders, as long as no record is published over a top its publisher did not judge.
THEOREM OneServerHolds == Spec => []OneServerUnlessRaced
<1>1. IInv => OneServerUnlessRaced
  <2> SUFFICES ASSUME IInv, ~raced, NEW s \in Server, NEW t \in Server, Serving(s), Serving(t)
               PROVE  s = t
    BY DEF OneServerUnlessRaced, OneServer
  <2>1. pc[s] \in Held /\ pc[t] \in Held
    BY DEF Serving, Held
  <2> QED BY <2>1, OneHeld DEF IInv, Known, CalmOK, Calm
<1> QED BY <1>1, Inductive, PTL

\* Only the exclusive step adds a record.
LEMMA OnlyPublishAdds ==
  ASSUME IInv, [Next]_vars, ~raced', NEW g \in Gen, dir[g] = NoRecord, dir'[g] # NoRecord
  PROVE  \E p \in Server : Publish(p) /\ g = mine(p)
<1> USE DEF IInv, Known, Typed, At
<1>1. \A s \in Server : Calm(s)
  BY RacedStays DEF CalmOK
<1>2. ASSUME NEW p \in Server, Publish(p) PROVE g = mine(p)
  BY <1>2 DEF Publish, TypeOK
<1>3. ASSUME NEW p \in Server, WriteOffer(p) PROVE FALSE
  <2>1. dir[mine(p)] # NoRecord
    BY <1>1, <1>3 DEF WriteOffer, Calm, HolderOK, Held, Carries
  <2> QED BY <1>3, <2>1 DEF WriteOffer, TypeOK
<1>4. ASSUME NEW p \in Server, WriteRecord(p) PROVE FALSE
  BY <1>4 DEF WriteRecord, Carries, TypeOK
<1>5. ASSUME NEW p \in Server, Acquiring(p), ~Publish(p), ~WriteRecord(p) PROVE FALSE
  BY <1>5 DEF Acquiring, ListGens, ReadTop, ProbeTop, Stage, Confirm, BackOff, CollectJudge,
     CollectDrop, Collected, SweepStaging, TypeOK
<1>6. ASSUME NEW p \in Server, Leaving(p) \/ Crash(p), ~WriteOffer(p) PROVE FALSE
  BY <1>6 DEF Leaving, Crash, Close, CheckOffer, SpawnFails, BeginExit, CheckOwn, UnlinkOwn, TypeOK
<1>7. ASSUME NEW p \in Server, Start(p) \/ \E c \in Server : SpawnChild(c, p) PROVE FALSE
  BY <1>7, BootFacts
<1>8. CASE UNCHANGED vars
  BY <1>8 DEF vars
<1> QED BY <1>2, <1>3, <1>4, <1>5, <1>6, <1>7, <1>8 DEF Next

\* SupersededByChildOnly: nothing passes a live top record but the child that presents
\* its own offer, so no third server slips into a relaunch.
THEOREM RelaunchIsClosed == Spec => SupersededByChildOnly
<1> DEFINE Closed == ~raced' /\ TopToken \in sockets /\ TopGen' > TopGen
                     => /\ dir[TopGen].offered
                        /\ ticket[TopToken'[1]] = TopToken
<1>1. ASSUME IInv, [Next]_vars PROVE Closed
  <2> SUFFICES ASSUME ~raced', TopToken \in sockets, TopGen' > TopGen
               PROVE  dir[TopGen].offered /\ ticket[TopToken'[1]] = TopToken
    OBVIOUS
  <2> USE <1>1 DEF IInv, Known, Typed
  <2>1. \A s \in Server : Calm(s)
    BY <1>1, RacedStays DEF CalmOK
  <2>2. TopGen' \in Present' /\ TopGen' \notin Present /\ TopGen' \in Gen
    <3>1. Present' # {} /\ TopGen' \in Present'
      BY TopFacts, TopFactsNext
    <3>2. TopGen' \notin Present
      <4> SUFFICES ASSUME TopGen' \in Present PROVE FALSE
        OBVIOUS
      <4>1. TopGen' <= TopGen
        BY TopFacts
      <4> QED BY <4>1, TopFacts, TopFactsNext
    <3> QED BY <3>1, <3>2 DEF Present
  <2>3. PICK p \in Server : Publish(p) /\ TopGen' = mine(p)
    <3>1. PICK g : g = TopGen'
      OBVIOUS
    <3>2. g \in Gen /\ dir[g] = NoRecord /\ dir'[g] # NoRecord
      BY <2>2, <3>1 DEF Present
    <3> QED BY <1>1, <3>1, <3>2, OnlyPublishAdds
  <2>4. dir[mine(p)] = NoRecord /\ mine(p) \in Gen
    BY <2>2, <2>3 DEF Present
  <2>5. dir' # dir
    BY <2>2, <2>3, <2>4 DEF Present
  <2>6. /\ dir'[mine(p)].token = token(p)
        /\ TopGen = top[p] /\ TopToken = seen[p] /\ pc[p] = "publish"
    <3>1. PICK rec : rec = [token |-> token(p), whole |-> createMode = "link", offered |-> FALSE]
      OBVIOUS
    <3>2. dir' = [dir EXCEPT ![mine(p)] = rec]
      BY <2>3, <2>5, <3>1 DEF Publish
    <3>3. dir'[mine(p)].token = token(p)
      BY <2>4, <3>1, <3>2 DEF TypeOK
    <3>4. ~(raced \/ TopGen # top[p] \/ TopToken # seen[p])
      BY <2>3, <2>5 DEF Publish
    <3>5. pc[p] = "publish"
      BY <2>3 DEF Publish, At
    <3> QED BY <3>3, <3>4, <3>5
  <2>7. TopToken'[1] = p
    <3>1. TopToken' = dir'[TopGen'].token
      BY <2>2 DEF TopToken
    <3> QED BY <2>3, <2>6, <3>1, TokenType
  <2>8. TopToken # NoToken /\ Present # {}
    BY RootLockAssumption DEF TypeOK, TopToken
  <2>9. ticket[p] = TopToken
    BY <2>6, <2>8 DEF JudgedOK
  <2>10. Carries(TopGen, ticket[p])
    BY <2>8, <2>9, TopFacts DEF Carries, TopToken, Present
  <2>11. dir[TopGen].offered
    BY <2>1, <2>8, <2>9, <2>10 DEF Calm, ChildOK, Carries
  <2> QED BY <2>7, <2>9, <2>11
<1>2. Spec => [][Closed]_vars
  BY <1>1, Inductive, PTL DEF Spec
<1> QED BY <1>2 DEF SupersededByChildOnly

\* LiveRecordKept: collectors, back-offs and late releases unlink by path and still never
\* take the record of another process that listens.
THEOREM LiveRecordsStay == Spec => LiveRecordKept
<1> DEFINE Stays == createMode = "link" /\ ~raced' =>
              \A g \in Gen, s \in Server :
                Carries(g, token(s)) /\ token(s) \in sockets /\ ~Carries(g, token(s))'
                  => pc'[s] # pc[s]
<1>1. ASSUME IInv, [Next]_vars PROVE Stays
  <2> SUFFICES ASSUME createMode = "link", ~raced', NEW g \in Gen, NEW s \in Server,
                      Carries(g, token(s)), token(s) \in sockets, ~Carries(g, token(s))',
                      pc'[s] = pc[s]
               PROVE  FALSE
    OBVIOUS
  <2> USE <1>1 DEF IInv, Known, Typed, At
  <2>1. \A u \in Server : Calm(u)
    BY <1>1, RacedStays DEF CalmOK
  <2>2. ASSUME NEW p \in Server, Start(p) \/ \E c \in Server : SpawnChild(c, p) PROVE FALSE
    BY <2>2, BootFacts DEF Carries
  <2>3. ASSUME NEW p \in Server, Close(p) \/ Crash(p) PROVE FALSE
    BY <2>3, GoneFacts DEF Carries
  <2>4. ASSUME NEW p \in Server, Acquiring(p) \/ (Leaving(p) /\ ~Close(p)) PROVE FALSE
    <3>1. token(s)' = token(s)
      BY <2>4, StepFacts
    <3>2. dir'[g] # dir[g]
      BY <3>1 DEF Carries
    <3>3. dir[g] # NoRecord /\ dir[g].token = token(s) /\ dir[g].whole
      BY DEF Carries, WholeOK
    <3>4. CASE Publish(p)
      BY <3>2, <3>3, <3>4 DEF Publish, TypeOK
    <3>5. CASE CollectDrop(p)
      <4>1. PICK k \in below[p] : /\ \A h \in below[p] : k <= h
                                 /\ dir' = [dir EXCEPT ![k] = NoRecord]
        BY <3>5 DEF CollectDrop
      <4>2. k = g
        BY <3>2, <4>1 DEF TypeOK
      <4>3. Droppable(dir[g])
        BY <2>1, <3>3, <3>5, <4>1, <4>2 DEF CollectDrop, Calm, CollectorOK
      <4> QED BY <3>3, <4>3 DEF Droppable
    <3>6. CASE BackOff(p) \/ WriteRecord(p)
      BY <2>1, <3>6 DEF BackOff, WriteRecord, Calm, LeaverOK, WholeOK
    <3>7. CASE WriteOffer(p)
      <4>1. Carries(mine(p), token(p)) /\ mine(p) \in Gen
        BY <2>1, <3>7 DEF WriteOffer, Calm, HolderOK, Held, Carries
      <4>2. g = mine(p) /\ dir' = [dir EXCEPT ![mine(p)] =
                     [token |-> token(p), whole |-> TRUE, offered |-> TRUE]]
        BY <3>2, <3>7 DEF WriteOffer, TypeOK
      <4>3. dir'[g] = [token |-> token(p), whole |-> TRUE, offered |-> TRUE]
        BY <4>1, <4>2 DEF TypeOK
      <4>4. dir'[g].token = token(s) /\ dir'[g] \in Record
        <5>1. token(p) = token(s) /\ token(p) \in Token
          BY <3>3, <4>1, <4>2, TokenType DEF Carries
        <5> QED BY <4>3, <5>1 DEF Record
      <4> QED BY <3>1, <4>4, RootLockAssumption DEF Carries
    <3>8. CASE UnlinkOwn(p) \/ SpawnFails(p)
      <4>1. g = mine(p) /\ Ours(p)
        BY <2>1, <3>2, <3>8 DEF UnlinkOwn, SpawnFails, Calm, LeaverOK, TypeOK
      <4>2. p = s
        BY <3>3, <4>1, TokenType DEF Ours, Carries
      <4> QED BY <3>8, <4>2 DEF UnlinkOwn, SpawnFails, Goto, TypeOK
    <3>9. CASE dir' = dir
      BY <3>2, <3>9
    <3> QED BY <2>4, <3>4, <3>5, <3>6, <3>7, <3>8, <3>9
         DEF Acquiring, Leaving, ListGens, ReadTop, ProbeTop, Stage, Confirm, CollectJudge,
             Collected, SweepStaging, CheckOffer, BeginExit, CheckOwn
  <2>5. CASE UNCHANGED vars
    BY <2>5 DEF vars, Carries, token
  <2> QED BY <1>1, <2>2, <2>3, <2>4, <2>5, Kinds
<1>2. Spec => [][Stays]_vars
  BY <1>1, Inductive, PTL DEF Spec
<1> QED BY <1>2 DEF LiveRecordKept
=============================================================================
