----------------------- MODULE PreviewPipeline_proofs -----------------------
(***************************************************************************)
(* Proofs about PreviewPipeline, for any number of sessions, frames and    *)
(* mishaps and any bound of the registry.                                  *)
(*                                                                         *)
(* An older request can only push a newer one out of the registry by       *)
(* arriving after it; PipelineInv says what may have arrived: nothing the  *)
(* page has not sent, so nothing newer than what it asked for last.        *)
(***************************************************************************)
EXTENDS PreviewPipeline, Registry_proofs, FiniteSetTheorems

-----------------------------------------------------------------------------
(* The invariant *)

AfterAdmit == {"proxy", "queued", "slot", "plan", "planned", "requeued", "rendered", "encoded", "publish"}
Places == {"unsent", "sent", "announced", "register", "answered", "received"} \cup AfterAdmit
Jobs == [at : Places, accepted : BOOLEAN, answer : {"none", "superseded", "frame", "prepared", "error"}]

Types ==
    /\ TypeOK
    /\ job \in [Messages -> Jobs]
    /\ edits \in Nat
    /\ ready => serial # 0

\* Nothing is under way that the page has not sent.
SentInOrder ==
    \A m \in Messages : job[m].at # "unsent" =>
        m.serial <= serial /\ (m.serial = serial => m.gen <= generation)

\* Nothing is on record that the page has not sent.
RecordedInOrder ==
    /\ selections[Page] <= serial
    /\ \A n \in Sessions : latest[n] # 0 => n <= serial /\ (n = serial => latest[n] <= generation)

\* While nothing was cleared the newest selection is on record once it was announced.
NewestSelected ==
    \A m \in Messages : m.serial = serial /\ job[m].at \notin {"unsent", "sent"} =>
        job[m].accepted /\ selections[Page] = serial

\* And so is the newest frame once it was registered, where no session is forgotten.
NewestRegistered ==
    \A m \in Messages : m = Newest /\ m.kind = "preview" /\ job[m].at \in AfterAdmit =>
        latest[serial] = generation

\* A frame has its slot from its first boundary in it to the last, a preparation
\* while it waits for the proxy too.
Holding(kind) == {"slot", "plan", "planned", "rendered", "encoded", "publish"}
                   \cup (IF kind = "prepare" THEN {"proxy"} ELSE {})
SlotsKept ==
    \A kind \in {"preview", "prepare"} : slot[kind] # Nobody =>
        slot[kind].kind = kind /\ job[slot[kind]].at \in Holding(kind)

PipelineInv ==
    /\ Types
    /\ RegistryInv
    /\ SentInOrder
    /\ RecordedInOrder
    /\ edits = 0 => edit = "none" /\ NewestSelected
    /\ edits = 0 /\ MaxSerial <= MaxSessions => NewestRegistered
    /\ SlotsKept

-----------------------------------------------------------------------------
(* The registry seen from the page *)

\* A sequence of sessions without repetitions has no more of them than there are.
LEMMA FewSessions ==
    ASSUME NEW q \in Seq(Sessions), IsInjective(q)
    PROVE  Len(q) \in Nat /\ Len(q) <= MaxSerial
<1>1. Len(q) \in Nat /\ DOMAIN q = 1..Len(q) /\ \A i \in 1..Len(q) : q[i] \in Sessions
  BY LenProperties, ElementOfSeq
<1>2. q \in Injection(1..Len(q), Sessions)
  BY <1>1 DEF Injection, IsInjective
<1>3. MaxSerial \in Nat
  BY PageAssumption, MaxGenerationAssumption
<1>0. \A n \in Nat : IsFiniteSet(1..n) /\ Cardinality(1..n) = n
  BY FS_Interval
<1>4. IsFiniteSet(Sessions) /\ Cardinality(Sessions) = MaxSerial
  BY <1>0, <1>3, PageAssumption
<1>5. Cardinality(1..Len(q)) = Len(q)
  BY <1>0, <1>1
<1>6. Cardinality(1..Len(q)) <= Cardinality(Sessions)
  BY <1>2, <1>4, FS_Injection
<1> QED
  BY <1>1, <1>4, <1>5, <1>6

\* What a registered frame changes: its session's number, and perhaps that another
\* session is forgotten.
LEMMA RegisterFacts ==
    ASSUME RegistryInv, NEW s \in Sessions, NEW g \in Generations, Register(s, g)
    PROVE  /\ latest'[s] = g /\ selections' = selections
           /\ \A n \in Sessions : n # s => latest'[n] \in {0, latest[n]}
           /\ MaxSerial <= MaxSessions => \A n \in Sessions : n # s => latest'[n] = latest[n]
<1>1. /\ latest' = Stored(latest, latestOrder', s, g) /\ selections' = selections
      /\ latestOrder' = KeepNewest(MoveToEnd(latestOrder, s), MaxSessions)
  BY DEF Register
<1>2. /\ latestOrder \in Seq(Sessions) /\ IsInjective(latestOrder)
      /\ latest \in [Sessions -> Generations]
      /\ ToSet(latestOrder) = {n \in Sessions : latest[n] # 0}
  BY DEF RegistryInv, CoordinatorTypeOK, RegistryConsistent
<1>3. /\ latest'[s] = g
      /\ \A n \in Sessions : n # s => latest'[n] = IF n \in ToSet(latestOrder') THEN latest[n] ELSE 0
  BY <1>1, <1>2 DEF Stored
<1>4. ASSUME MaxSerial <= MaxSessions, NEW n \in Sessions, n # s
      PROVE  latest'[n] = latest[n]
  <2> DEFINE moved == MoveToEnd(latestOrder, s)
  <2>1. moved \in Seq(Sessions) /\ IsInjective(moved) /\ ToSet(moved) = ToSet(latestOrder) \cup {s}
    <3>1. latestOrder \in Seq(Sessions) /\ IsInjective(latestOrder) /\ s \in Sessions
      BY <1>2
    <3> QED
      BY <3>1, MoveToEndFacts
  <2>2. Len(moved) \in Nat /\ Len(moved) <= MaxSerial
    BY <2>1, FewSessions
  <2>3. MaxSerial \in Nat /\ MaxSessions \in Nat
    BY PageAssumption, MaxGenerationAssumption, MaxSessionsAssumption
  <2>4. latestOrder' = moved
    BY <1>1, <1>4, <2>2, <2>3 DEF KeepNewest
  <2> QED
    BY <1>2, <1>3, <1>4, <2>1, <2>4
<1> QED
  BY <1>1, <1>3, <1>4

\* What an announced selection changes.
LEMMA SelectFacts ==
    ASSUME RegistryInv, NEW e \in Generations, RegisterSelection(Page, e)
    PROVE  selections'[Page] = e /\ latest' = latest
<1>1. Page \in Clients
  BY PageAssumption
<1>2. selections' = Stored(selections, selectionsOrder', Page, e) /\ latest' = latest
  BY DEF RegisterSelection
<1>3. selections \in [Clients -> Generations]
  BY DEF RegistryInv, CoordinatorTypeOK
<1> QED
  BY <1>1, <1>2, <1>3 DEF Stored

-----------------------------------------------------------------------------
(* Requests *)

Slots == {"preview", "prepare"}

\* A request is known by its kind and its two numbers.
LEMMA MessageFacts ==
    /\ \A m \in Messages : /\ m.serial \in Sessions /\ m.serial \in Nat /\ m.serial > 0 /\ m.serial \in Generations
                           /\ m.gen \in Generations /\ m.gen \in Nat /\ m.kind \in Slots
                           /\ m.kind = "preview" => m = Frame(m.serial, m.gen) /\ m.gen > 0
                           /\ m.kind = "prepare" => m = Prepare(m.serial) /\ m.gen = 0
    /\ \A n \in Sessions : Prepare(n) \in Messages /\ \A g \in 1..MaxGeneration : Frame(n, g) \in Messages
<1>1. MaxGeneration \in Nat /\ MaxSerial \in Nat /\ MaxSerial <= MaxGeneration /\ Sessions = 1..MaxSerial
  BY MaxGenerationAssumption, PageAssumption
<1>2. ASSUME NEW n \in Sessions, NEW g \in 1..MaxGeneration
      PROVE  /\ Frame(n, g).serial = n /\ Frame(n, g).gen = g /\ Frame(n, g).kind = "preview"
             /\ Prepare(n).serial = n /\ Prepare(n).gen = 0 /\ Prepare(n).kind = "prepare"
  BY DEF Frame, Prepare
<1>3. ASSUME NEW m \in Messages
      PROVE  \/ \E n \in Sessions : m = Prepare(n)
             \/ \E n \in Sessions, g \in 1..MaxGeneration : m = Frame(n, g)
  BY DEF Messages
<1>4. \A n \in Sessions : Prepare(n).serial = n /\ Prepare(n).gen = 0 /\ Prepare(n).kind = "prepare"
  BY DEF Prepare
<1> QED
  BY <1>1, <1>2, <1>3, <1>4 DEF Messages, Generations, Slots

\* The newest request has the page's two numbers.
LEMMA NewestFacts ==
    ASSUME NEW m \in Messages, m = Newest
    PROVE  m.serial = serial /\ m.gen = generation
BY DEF Newest, Prepare, Frame

\* A request moves on, or is answered.
LEMMA MovedFacts ==
    ASSUME job \in [Messages -> Jobs], NEW m \in Messages, NEW place \in Places
    PROVE  /\ Moved(m, place) \in [Messages -> Jobs]
           /\ \A k \in Messages : k # m => Moved(m, place)[k] = job[k]
           /\ Moved(m, place)[m].at = place /\ Moved(m, place)[m].accepted = job[m].accepted
           /\ Moved(m, place)[m].answer = job[m].answer
BY DEF Moved, Jobs

\* The answer is the one given, and nobody else's request changes.
LEMMA AnsweredFacts ==
    ASSUME job \in [Messages -> Jobs], NEW m \in Messages,
           NEW answer \in {"superseded", "frame", "prepared", "error"}
    PROVE  /\ Answered(m, answer) \in [Messages -> Jobs]
           /\ \A k \in Messages : k # m => Answered(m, answer)[k] = job[k]
           /\ Answered(m, answer)[m].at = "answered" /\ Answered(m, answer)[m].accepted = job[m].accepted
           /\ Answered(m, answer)[m].answer = answer
BY DEF Answered, Jobs, Places

\* The slots after a step of one request: each stays with a holder at work, is left,
\* or is taken by the request.
LEMMA SlotsFollow ==
    ASSUME SlotsKept, NEW m \in Messages,
           \A k \in Messages : k # m => job'[k] = job[k],
           slot \in [Slots -> Messages \cup {Nobody}],
           \A kind \in Slots : \/ slot'[kind] = slot[kind] /\ (slot[kind] = m => job'[m].at \in Holding(kind))
                               \/ slot'[kind] = Nobody
                               \/ slot'[kind] = m /\ m.kind = kind /\ job'[m].at \in Holding(kind)
    PROVE  SlotsKept'
BY DEF SlotsKept, Slots

\* What a step of one request keeps when the page and the registry stand still.
LEMMA QuietStep ==
    ASSUME PipelineInv, NEW m \in Messages,
           UNCHANGED <<coordinatorVars, serial, generation, ready, edit, edits>>,
           TypeOK', SlotsKept',
           job' \in [Messages -> Jobs], \A k \in Messages : k # m => job'[k] = job[k],
           job[m].at \notin {"unsent", "sent"}, job'[m].at \notin {"unsent", "sent"},
           job'[m].accepted = job[m].accepted,
           m.kind = "preview" /\ job'[m].at \in AfterAdmit => job[m].at \in AfterAdmit
    PROVE  PipelineInv'
<1>1. Types'
  BY DEF PipelineInv, Types
<1>2. RegistryInv'
  BY DEF PipelineInv, RegistryInv, coordinatorVars, CoordinatorTypeOK, RegistryConsistent, RecentSessionsKept
<1>3. SentInOrder'
  BY DEF PipelineInv, SentInOrder
<1>4. RecordedInOrder'
  BY DEF PipelineInv, RecordedInOrder, coordinatorVars
<1>5. (edits = 0 => edit = "none" /\ NewestSelected)'
  BY DEF PipelineInv, NewestSelected, coordinatorVars
<1>6. (edits = 0 /\ MaxSerial <= MaxSessions => NewestRegistered)'
  BY DEF PipelineInv, NewestRegistered, Newest, coordinatorVars
<1> QED
  BY <1>1, <1>2, <1>3, <1>4, <1>5, <1>6 DEF PipelineInv

-----------------------------------------------------------------------------
(* The steps of a request on the server *)

\* The types, when the page and the registry stand still.
LEMMA ServerTypes ==
    ASSUME TypeOK, UNCHANGED <<coordinatorVars, pageVars, edit>>,
           slot' \in [Slots -> Messages \cup {Nobody}]
    PROVE  TypeOK'
BY DEF TypeOK, coordinatorVars, pageVars, CoordinatorTypeOK, Slots

\* A request that leaves gives up its slot.
LEMMA LeftSlots ==
    ASSUME slot \in [Slots -> Messages \cup {Nobody}], NEW m
    PROVE  /\ SlotWithout(m) \in [Slots -> Messages \cup {Nobody}]
           /\ \A kind \in Slots : \/ SlotWithout(m)[kind] = slot[kind] /\ slot[kind] # m
                                  \/ SlotWithout(m)[kind] = Nobody
BY DEF SlotWithout

\* A request is answered, in whatever way.
LEMMA LeaveKeeps ==
    ASSUME PipelineInv, NEW m \in Messages, job[m].at \notin {"unsent", "sent"},
           NEW answer \in {"superseded", "frame", "prepared", "error"},
           job' = Answered(m, answer), slot' = SlotWithout(m),
           UNCHANGED <<coordinatorVars, pageVars, edit, edits>>
    PROVE  PipelineInv'
<1>1. /\ job \in [Messages -> Jobs] /\ TypeOK /\ SlotsKept
      /\ slot \in [Slots -> Messages \cup {Nobody}]
  BY DEF PipelineInv, Types, TypeOK, Slots
<1>2. /\ job' \in [Messages -> Jobs] /\ \A k \in Messages : k # m => job'[k] = job[k]
      /\ job'[m].at = "answered" /\ job'[m].accepted = job[m].accepted
  BY <1>1, AnsweredFacts
<1>3. /\ slot' \in [Slots -> Messages \cup {Nobody}]
      /\ \A kind \in Slots : (slot'[kind] = slot[kind] /\ slot[kind] # m) \/ slot'[kind] = Nobody
  BY <1>1, LeftSlots
<1>4. TypeOK'
  BY <1>1, <1>3, ServerTypes
<1>5. SlotsKept'
  BY <1>1, <1>2, <1>3, SlotsFollow
<1>6. "answered" \notin AfterAdmit \cup {"unsent", "sent"}
  BY DEF AfterAdmit
<1>7. UNCHANGED <<coordinatorVars, serial, generation, ready, edit, edits>>
  BY DEF pageVars
<1> QED
  BY <1>2, <1>4, <1>5, <1>6, <1>7, QuietStep

\* A request goes on, and keeps or takes what slot it needs.
LEMMA GoOnKeeps ==
    ASSUME PipelineInv, NEW m \in Messages, job[m].at \notin {"unsent", "sent"},
           NEW place \in Places \ {"unsent", "sent"},
           m.kind = "preview" /\ place \in AfterAdmit => job[m].at \in AfterAdmit,
           job' = Moved(m, place), slot' \in [Slots -> Messages \cup {Nobody}],
           \A kind \in Slots : \/ slot'[kind] = slot[kind] /\ (slot[kind] = m => place \in Holding(kind))
                               \/ slot'[kind] = Nobody
                               \/ slot'[kind] = m /\ m.kind = kind /\ place \in Holding(kind),
           UNCHANGED <<coordinatorVars, pageVars, edit, edits>>
    PROVE  PipelineInv'
<1>1. /\ job \in [Messages -> Jobs] /\ TypeOK /\ SlotsKept
      /\ slot \in [Slots -> Messages \cup {Nobody}]
  BY DEF PipelineInv, Types, TypeOK, Slots
<1>2. /\ job' \in [Messages -> Jobs] /\ \A k \in Messages : k # m => job'[k] = job[k]
      /\ job'[m].at = place /\ job'[m].accepted = job[m].accepted
  BY <1>1, MovedFacts
<1>3. TypeOK'
  BY <1>1, ServerTypes
<1>4. SlotsKept'
  BY <1>1, <1>2, SlotsFollow
<1>5. UNCHANGED <<coordinatorVars, serial, generation, ready, edit, edits>>
  BY DEF pageVars
<1> QED
  BY <1>2, <1>3, <1>4, <1>5, QuietStep

\* A boundary lets a request go on to a place it keeps its slot at, or dismisses it.
LEMMA BoundaryKeeps ==
    ASSUME PipelineInv, NEW m \in Messages, NEW here \in AfterAdmit, NEW next \in SUBSET AfterAdmit,
           Boundary(m, here, next),
           \A place \in next : \A kind \in Slots : slot[kind] = m => place \in Holding(kind)
    PROVE  PipelineInv'
<1>1. /\ job[m].at = here /\ here \notin {"unsent", "sent"}
      /\ UNCHANGED <<coordinatorVars, pageVars, edit, edits>>
  BY DEF Boundary, At, AfterAdmit
<1>2. slot \in [Slots -> Messages \cup {Nobody}]
  BY DEF PipelineInv, Types, TypeOK, Slots
<1>3. ASSUME NEW place \in next, job' = Moved(m, place), UNCHANGED slot PROVE PipelineInv'
  <2>1. place \in Places \ {"unsent", "sent"}
    BY DEF Places, AfterAdmit
  <2>2. \A kind \in Slots : slot'[kind] = slot[kind] /\ (slot[kind] = m => place \in Holding(kind))
    BY <1>3
  <2>3. slot' \in [Slots -> Messages \cup {Nobody}]
    BY <1>2, <1>3
  <2> QED
    BY <1>1, <1>3, <2>1, <2>2, <2>3, GoOnKeeps
<1>4. ASSUME job' = Answered(m, "superseded"), slot' = SlotWithout(m) PROVE PipelineInv'
  BY <1>1, <1>4, LeaveKeeps
<1> QED
  BY <1>3, <1>4 DEF Boundary

\* Every step of a request's thread but its two registrations.
LEMMA ThreadKeeps ==
    ASSUME PipelineInv, NEW m \in Messages,
           \/ CheckSelection(m) \/ ProxyReady(m) \/ TakeSlot(m) \/ SlotBoundary(m) \/ ObtainPlan(m)
           \/ PlanBoundary(m) \/ RenderBoundary(m) \/ EncodeBoundary(m) \/ Publish(m) \/ Fail(m)
    PROVE  PipelineInv'
<1>1. /\ slot \in [Slots -> Messages \cup {Nobody}] /\ m.kind \in Slots
      /\ \A kind \in Slots : slot[kind] # Nobody => slot[kind].kind = kind /\ job[slot[kind]].at \in Holding(kind)
  BY MessageFacts DEF PipelineInv, Types, TypeOK, Slots, SlotsKept
<1>0. Nobody \notin Messages
  BY NobodyAssumption
<1>2. CASE CheckSelection(m)
  <2>1. /\ job[m].at = "announced"
        /\ UNCHANGED <<coordinatorVars, pageVars, edit, slot, edits>>
    BY <1>2 DEF CheckSelection, At
  <2>2. \A kind \in Slots : slot[kind] # m
    BY <1>0, <1>1, <2>1 DEF Holding
  <2>3. ASSUME job' = Answered(m, "superseded") PROVE PipelineInv'
    <3>1. slot' = SlotWithout(m)
      BY <1>1, <2>1, <2>2 DEF SlotWithout
    <3> QED
      BY <2>1, <2>3, <3>1, LeaveKeeps
  <2>4. ASSUME NEW place \in {"register", "queued"}, job' = Moved(m, place),
               place = IF m.kind = "preview" THEN "register" ELSE "queued"
        PROVE  PipelineInv'
    <3>1. place \in Places \ {"unsent", "sent"} /\ (m.kind = "preview" => place \notin AfterAdmit)
      BY <2>4 DEF Places, AfterAdmit
    <3>2. /\ slot' \in [Slots -> Messages \cup {Nobody}]
          /\ \A kind \in Slots : slot'[kind] = slot[kind] /\ (slot[kind] = m => place \in Holding(kind))
      BY <1>1, <2>1, <2>2
    <3> QED
      BY <2>1, <2>4, <3>1, <3>2, GoOnKeeps
  <2> QED
    BY <1>2, <2>3, <2>4 DEF CheckSelection
<1>3. CASE ProxyReady(m)
  <2> DEFINE next == IF m.kind = "preview" THEN {"queued", "publish"} ELSE {"plan"}
  <2>1. Boundary(m, "proxy", next) /\ "proxy" \in AfterAdmit /\ next \in SUBSET AfterAdmit
    BY <1>3 DEF ProxyReady, AfterAdmit
  <2>2. job[m].at = "proxy"
    BY <2>1 DEF Boundary, At
  <2>3. \A place \in next : \A kind \in Slots : slot[kind] = m => place \in Holding(kind)
    BY <1>0, <1>1, <2>2 DEF Holding, Slots
  <2> HIDE DEF next
  <2> QED
    BY <2>1, <2>3, BoundaryKeeps
<1>4. CASE SlotBoundary(m)
  <2> DEFINE next == IF m.kind = "preview" THEN {"plan"} ELSE {"proxy"}
  <2>1. Boundary(m, "slot", next) /\ "slot" \in AfterAdmit /\ next \in SUBSET AfterAdmit
    BY <1>4 DEF SlotBoundary, AfterAdmit
  <2>3. \A place \in next : \A kind \in Slots : slot[kind] = m => place \in Holding(kind)
    BY <1>0, <1>1 DEF Holding, Slots
  <2> HIDE DEF next
  <2> QED
    BY <2>1, <2>3, BoundaryKeeps
<1>5. CASE PlanBoundary(m)
  <2> DEFINE next == IF m.kind = "preview" THEN {"rendered"} ELSE {"publish"}
  <2>1. Boundary(m, "planned", next) /\ "planned" \in AfterAdmit /\ next \in SUBSET AfterAdmit
    BY <1>5 DEF PlanBoundary, AfterAdmit
  <2>3. \A place \in next : \A kind \in Slots : slot[kind] = m => place \in Holding(kind)
    BY DEF Holding
  <2> HIDE DEF next
  <2> QED
    BY <2>1, <2>3, BoundaryKeeps
<1>6. CASE RenderBoundary(m)
  <2>1. Boundary(m, "rendered", {"encoded"}) /\ "rendered" \in AfterAdmit /\ {"encoded"} \in SUBSET AfterAdmit
    BY <1>6 DEF RenderBoundary, AfterAdmit
  <2>3. \A place \in {"encoded"} : \A kind \in Slots : slot[kind] = m => place \in Holding(kind)
    BY DEF Holding
  <2> QED
    BY <2>1, <2>3, BoundaryKeeps
<1>7. CASE EncodeBoundary(m)
  <2>1. Boundary(m, "encoded", {"publish"}) /\ "encoded" \in AfterAdmit /\ {"publish"} \in SUBSET AfterAdmit
    BY <1>7 DEF EncodeBoundary, AfterAdmit
  <2>3. \A place \in {"publish"} : \A kind \in Slots : slot[kind] = m => place \in Holding(kind)
    BY DEF Holding
  <2> QED
    BY <2>1, <2>3, BoundaryKeeps
<1>8. CASE TakeSlot(m)
  <2> DEFINE place == IF At(m, "queued") THEN "slot" ELSE "planned"
  <2>1. /\ job[m].at \in {"queued", "requeued"} /\ slot[m.kind] = Nobody
        /\ slot' = [slot EXCEPT ![m.kind] = m] /\ job' = Moved(m, place)
        /\ UNCHANGED <<coordinatorVars, pageVars, edit, edits>>
    BY <1>8 DEF TakeSlot, At
  <2>2. /\ place \in Places \ {"unsent", "sent"} /\ \A kind \in Slots : place \in Holding(kind)
        /\ job[m].at \in AfterAdmit /\ job[m].at \notin {"unsent", "sent"}
    BY <2>1 DEF Places, AfterAdmit, Holding
  <2> HIDE DEF place
  <2>3. /\ slot' \in [Slots -> Messages \cup {Nobody}]
        /\ \A kind \in Slots : \/ slot'[kind] = slot[kind] /\ (slot[kind] = m => place \in Holding(kind))
                               \/ slot'[kind] = m /\ m.kind = kind /\ place \in Holding(kind)
    BY <1>1, <2>1, <2>2
  <2> QED
    BY <2>1, <2>2, <2>3, GoOnKeeps
<1>9. CASE ObtainPlan(m)
  <2>1. /\ job[m].at = "plan" /\ job[m].at \in AfterAdmit /\ job[m].at \notin {"unsent", "sent"}
        /\ UNCHANGED <<coordinatorVars, pageVars, edit, edits>>
    BY <1>9 DEF ObtainPlan, At, AfterAdmit
  <2>2. CASE job' = Moved(m, "planned") /\ UNCHANGED slot
    <3>1. /\ "planned" \in Places \ {"unsent", "sent"} /\ slot' \in [Slots -> Messages \cup {Nobody}]
          /\ \A kind \in Slots : slot'[kind] = slot[kind] /\ (slot[kind] = m => "planned" \in Holding(kind))
      BY <1>1, <2>2 DEF Places, AfterAdmit, Holding
    <3> QED
      BY <2>1, <2>2, <3>1, GoOnKeeps
  <2>3. CASE job' = Moved(m, "requeued") /\ slot' = SlotWithout(m)
    <3>1. /\ "requeued" \in Places \ {"unsent", "sent"} /\ slot' \in [Slots -> Messages \cup {Nobody}]
          /\ \A kind \in Slots : (slot'[kind] = slot[kind] /\ slot[kind] # m) \/ slot'[kind] = Nobody
      BY <1>1, <2>3, LeftSlots DEF Places, AfterAdmit
    <3> QED
      BY <2>1, <2>3, <3>1, GoOnKeeps
  <2> QED
    BY <1>9, <2>2, <2>3 DEF ObtainPlan
<1>10. CASE Publish(m) \/ Fail(m)
  <2>1. PICK answer \in {"superseded", "frame", "prepared", "error"} : job' = Answered(m, answer)
    BY <1>10 DEF Publish, Fail
  <2>2. /\ job[m].at \notin {"unsent", "sent"} /\ slot' = SlotWithout(m)
        /\ UNCHANGED <<coordinatorVars, pageVars, edit, edits>>
    BY <1>10 DEF Publish, Fail, At
  <2> QED
    BY <2>1, <2>2, LeaveKeeps
<1> QED
  BY <1>2, <1>3, <1>4, <1>5, <1>6, <1>7, <1>8, <1>9, <1>10

\* The first registration: the newest selection is never refused, and once it is on
\* record no older one takes its place.
LEMMA AnnounceKeeps ==
    ASSUME PipelineInv, NEW m \in Messages, Announce(m)
    PROVE  PipelineInv'
<1> DEFINE accepted == SelectionAccepted(Page, m.serial)
<1>1. /\ job[m].at = "sent" /\ UNCHANGED <<pageVars, edit, slot, failures, edits>>
      /\ job' = [job EXCEPT ![m].at = "announced", ![m].accepted = accepted]
      /\ accepted => RegisterSelection(Page, m.serial)
      /\ ~accepted => UNCHANGED coordinatorVars
  BY DEF Announce, At
<1>2. /\ job \in [Messages -> Jobs] /\ TypeOK /\ RegistryInv /\ SlotsKept /\ edits \in Nat
      /\ slot \in [Slots -> Messages \cup {Nobody}]
      /\ SentInOrder /\ RecordedInOrder /\ (ready => serial # 0)
  BY DEF PipelineInv, Types, TypeOK, Slots
<1>3. m.serial \in Sessions /\ m.serial \in Generations /\ m.serial \in Nat /\ m.serial > 0
  BY MessageFacts
<1>4. /\ serial \in Nat /\ selections[Page] \in Nat /\ Page \in Clients
  <2>1. MaxSerial \in Nat /\ Page \in Clients
    BY PageAssumption, MaxGenerationAssumption
  <2>2. selections \in [Clients -> Nat]
    BY <1>2, MaxGenerationAssumption DEF RegistryInv, CoordinatorTypeOK, Generations
  <2> QED
    BY <1>2, <2>1, <2>2 DEF TypeOK
<1>5. accepted \in BOOLEAN /\ (accepted <=> m.serial >= selections[Page])
  BY <1>3, <1>4 DEF SelectionAccepted
<1>6. /\ job' \in [Messages -> Jobs] /\ \A k \in Messages : k # m => job'[k] = job[k]
      /\ job'[m].at = "announced" /\ job'[m].accepted = accepted
  <2> HIDE DEF accepted
  <2> QED
    BY <1>1, <1>2, <1>5 DEF Jobs, Places
<1>7. m.serial <= serial /\ selections[Page] <= serial
  BY <1>1, <1>2 DEF SentInOrder, RecordedInOrder
<1>8. /\ latest' = latest
      /\ selections'[Page] = IF accepted THEN m.serial ELSE selections[Page]
  BY <1>1, <1>2, <1>3, SelectFacts DEF coordinatorVars
<1>9. RegistryInv'
  <2>1. [CoordinatorNext]_coordinatorVars
    BY <1>1, <1>3, <1>4 DEF CoordinatorNext
  <2> QED
    BY <1>2, <2>1, RegistryStep
<1>10. SlotsKept'
  <2>1. \A kind \in Slots : slot[kind] # m
    BY <1>1, <1>2, NobodyAssumption DEF SlotsKept, Slots, Holding
  <2> QED
    BY <1>1, <1>2, <1>6, <2>1, SlotsFollow
<1>11. Types'
  <2>1. CoordinatorTypeOK'
    BY <1>9 DEF RegistryInv
  <2> QED
    BY <1>1, <1>2, <1>6, <2>1 DEF Types, TypeOK, pageVars
<1> HIDE DEF accepted
<1>12. serial' = serial /\ generation' = generation /\ edit' = edit /\ edits' = edits /\ slot' = slot
  BY <1>1 DEF pageVars
<1>13. SentInOrder'
  BY <1>1, <1>2, <1>6, <1>12 DEF SentInOrder
<1>14. RecordedInOrder'
  BY <1>2, <1>7, <1>8, <1>12 DEF RecordedInOrder
<1>15. (edits = 0 => edit = "none" /\ NewestSelected)'
  <2> SUFFICES ASSUME edits = 0, NEW k \in Messages, k.serial = serial, job'[k].at \notin {"unsent", "sent"}
               PROVE  job'[k].accepted /\ selections'[Page] = serial
    BY <1>12 DEF PipelineInv, NewestSelected
  <2>1. CASE k = m
    BY <1>3, <1>4, <1>5, <1>6, <1>7, <1>8, <2>1
  <2>2. CASE k # m
    <3>1. job[k].accepted /\ selections[Page] = serial
      BY <1>6, <2>2 DEF PipelineInv, NewestSelected
    <3> QED
      BY <1>3, <1>4, <1>5, <1>6, <1>7, <1>8, <2>2, <3>1
  <2> QED
    BY <2>1, <2>2
<1>16. (edits = 0 /\ MaxSerial <= MaxSessions => NewestRegistered)'
  <2>1. "announced" \notin AfterAdmit
    BY DEF AfterAdmit
  <2> QED
    BY <1>6, <1>8, <1>12, <2>1 DEF PipelineInv, NewestRegistered, Newest
<1> QED
  BY <1>9, <1>10, <1>11, <1>13, <1>14, <1>15, <1>16 DEF PipelineInv

\* The second registration: no frame newer than the page's last is ever on record, so
\* that one is not refused, and with room for every session it stays.
LEMMA AdmitKeeps ==
    ASSUME PipelineInv, NEW m \in Messages, Admit(m)
    PROVE  PipelineInv'
<1>1. /\ job[m].at = "register" /\ UNCHANGED <<pageVars, edit, slot, failures, edits>>
      /\ \/ Register(m.serial, m.gen) /\ job' = Moved(m, "proxy")
         \/ job' = Answered(m, "superseded") /\ UNCHANGED coordinatorVars
  BY DEF Admit, At
<1>2. /\ job \in [Messages -> Jobs] /\ TypeOK /\ RegistryInv /\ SlotsKept /\ edits \in Nat
      /\ slot \in [Slots -> Messages \cup {Nobody}]
      /\ SentInOrder /\ RecordedInOrder /\ (ready => serial # 0)
  BY DEF PipelineInv, Types, TypeOK, Slots
<1>3. \A kind \in Slots : slot[kind] # m
  BY <1>1, <1>2, NobodyAssumption DEF SlotsKept, Slots, Holding
<1>4. CASE job' = Answered(m, "superseded") /\ UNCHANGED coordinatorVars
  <2>1. slot' = SlotWithout(m)
    BY <1>1, <1>2, <1>3 DEF SlotWithout
  <2> QED
    BY <1>1, <1>4, <2>1, LeaveKeeps
<1>5. CASE Register(m.serial, m.gen) /\ job' = Moved(m, "proxy")
  <2>1. /\ m.serial \in Sessions /\ m.gen \in Generations /\ m.serial \in Nat /\ m.gen \in Nat
        /\ m.gen > 0
    BY <1>5, MessageFacts DEF Register
  <2>2. /\ latest'[m.serial] = m.gen /\ selections' = selections
        /\ \A n \in Sessions : n # m.serial => latest'[n] \in {0, latest[n]}
        /\ MaxSerial <= MaxSessions => \A n \in Sessions : n # m.serial => latest'[n] = latest[n]
    BY <1>2, <1>5, <2>1, RegisterFacts
  <2>3. m.gen >= latest[m.serial] /\ latest \in [Sessions -> Nat] /\ serial \in Nat /\ generation \in Nat
    <3>1. latest \in [Sessions -> Nat]
      BY <1>2, MaxGenerationAssumption DEF RegistryInv, CoordinatorTypeOK, Generations
    <3>2. serial \in Nat /\ generation \in Nat
      BY <1>2, PageAssumption, MaxGenerationAssumption DEF TypeOK, Generations
    <3> QED
      BY <1>5, <3>1, <3>2 DEF Register
  <2>4. /\ job' \in [Messages -> Jobs] /\ \A k \in Messages : k # m => job'[k] = job[k]
        /\ job'[m].at = "proxy" /\ job'[m].accepted = job[m].accepted
    BY <1>2, <1>5, MovedFacts DEF Places, AfterAdmit
  <2>5. m.serial <= serial /\ (m.serial = serial => m.gen <= generation)
    BY <1>1, <1>2 DEF SentInOrder
  <2>6. RegistryInv'
    <3>1. [CoordinatorNext]_coordinatorVars
      BY <1>5, <2>1 DEF CoordinatorNext
    <3> QED
      BY <1>2, <3>1, RegistryStep
  <2>7. SlotsKept'
    BY <1>1, <1>2, <1>3, <2>4, SlotsFollow
  <2>8. Types'
    <3>1. CoordinatorTypeOK'
      BY <2>6 DEF RegistryInv
    <3> QED
      BY <1>1, <1>2, <2>4, <3>1 DEF Types, TypeOK, pageVars
  <2>9. serial' = serial /\ generation' = generation /\ edit' = edit /\ edits' = edits
    BY <1>1 DEF pageVars
  <2>10. SentInOrder'
    BY <1>1, <1>2, <2>4, <2>9 DEF SentInOrder
  <2>11. RecordedInOrder'
    BY <1>2, <2>1, <2>2, <2>3, <2>5, <2>9 DEF RecordedInOrder
  <2>12. (edits = 0 => edit = "none" /\ NewestSelected)'
    BY <1>1, <2>2, <2>4, <2>9 DEF PipelineInv, NewestSelected
  <2>13. (edits = 0 /\ MaxSerial <= MaxSessions => NewestRegistered)'
    <3> SUFFICES ASSUME edits = 0, MaxSerial <= MaxSessions,
                        NEW k \in Messages, k = Newest, k.kind = "preview", job'[k].at \in AfterAdmit
                 PROVE  latest'[serial] = generation
      BY <2>9 DEF NewestRegistered, Newest
    <3>1. k.serial = serial /\ k.gen = generation /\ serial \in Sessions
      BY NewestFacts, MessageFacts
    <3>2. CASE k = m
      BY <2>2, <3>1, <3>2
    <3>3. CASE k # m
      <4>1. latest[serial] = generation
        BY <2>4, <3>3 DEF PipelineInv, NewestRegistered
      <4> QED
        BY <2>1, <2>2, <2>3, <2>5, <3>1, <4>1
    <3> QED
      BY <3>2, <3>3
  <2> QED
    BY <2>6, <2>7, <2>8, <2>10, <2>11, <2>12, <2>13 DEF PipelineInv
<1> QED
  BY <1>1, <1>4, <1>5

-----------------------------------------------------------------------------
(* The steps of the page *)

\* A new session: whatever was under way belongs to an older one.
LEMMA BeginKeeps ==
    ASSUME PipelineInv, BeginSession, UNCHANGED <<coordinatorVars, slot, edits>>,
           edit' \in {"none", "sent", "cleared"}, edits = 0 => edit' = "none"
    PROVE  PipelineInv'
<1> DEFINE m == Prepare(serial + 1)
<1>1. /\ job \in [Messages -> Jobs] /\ TypeOK /\ RegistryInv /\ SlotsKept /\ edits \in Nat
      /\ slot \in [Slots -> Messages \cup {Nobody}]
      /\ SentInOrder /\ RecordedInOrder
  BY DEF PipelineInv, Types, TypeOK, Slots
<1>2. /\ serial < MaxSerial /\ serial' = serial + 1 /\ generation' = 0 /\ ~ready'
      /\ job' = Moved(m, "sent") /\ shown' = shown
  BY DEF BeginSession
<1>3. /\ serial \in Nat /\ MaxSerial \in Nat /\ serial + 1 \in Sessions /\ serial + 1 \in 0..MaxSerial
      /\ 0 \in Generations
  BY <1>1, <1>2, PageAssumption, MaxGenerationAssumption DEF TypeOK, Generations
<1>4. m \in Messages /\ m.serial = serial + 1 /\ m.kind = "prepare" /\ m.gen = 0
  BY <1>3, MessageFacts DEF Prepare
<1> HIDE DEF m
<1>5. /\ job' \in [Messages -> Jobs] /\ \A k \in Messages : k # m => job'[k] = job[k]
      /\ job'[m].at = "sent" /\ job'[m].accepted = job[m].accepted
  BY <1>1, <1>2, <1>4, MovedFacts DEF Places
<1>6. job[m].at = "unsent"
  BY <1>1, <1>3, <1>4 DEF SentInOrder
<1>7. Types' /\ RegistryInv'
  <2>1. RegistryInv'
    BY <1>1 DEF RegistryInv, coordinatorVars, CoordinatorTypeOK, RegistryConsistent, RecentSessionsKept
  <2> QED
    BY <1>1, <1>2, <1>3, <1>5, <2>1 DEF Types, TypeOK, RegistryInv
<1>8. SlotsKept'
  <2>1. \A kind \in Slots : slot[kind] # m
    BY <1>1, <1>4, <1>6, NobodyAssumption DEF SlotsKept, Slots, Holding
  <2> QED
    BY <1>1, <1>4, <1>5, <2>1, SlotsFollow
<1>9. \A k \in Messages : k # m /\ job[k].at # "unsent" => k.serial <= serial /\ k.serial # serial + 1 /\ k.serial \in Nat
  BY <1>1, <1>3, MessageFacts DEF SentInOrder
<1>10. SentInOrder'
  BY <1>2, <1>3, <1>4, <1>5, <1>9 DEF SentInOrder
<1>11. RecordedInOrder'
  <2>1. /\ selections' = selections /\ latest' = latest
        /\ selections[Page] \in Nat /\ selections[Page] <= serial
        /\ \A n \in Sessions : n \in Nat /\ (latest[n] # 0 => n <= serial)
    <3>1. Page \in Clients /\ Sessions = 1..MaxSerial
      BY PageAssumption
    <3>2. selections \in [Clients -> Nat]
      BY <1>1, MaxGenerationAssumption DEF TypeOK, CoordinatorTypeOK, Generations
    <3> QED
      BY <1>1, <1>3, <3>1, <3>2 DEF RecordedInOrder, coordinatorVars
  <2>2. \A n \in Sessions : latest[n] # 0 => n <= serial + 1 /\ n # serial + 1
    BY <1>3, <2>1
  <2> QED
    BY <1>2, <1>3, <2>1, <2>2 DEF RecordedInOrder
<1>12. NewestSelected'
  <2> SUFFICES ASSUME NEW k \in Messages, k.serial = serial + 1, job'[k].at \notin {"unsent", "sent"}
               PROVE  FALSE
    BY <1>2 DEF NewestSelected
  <2> QED
    BY <1>5, <1>9
<1>13. NewestRegistered'
  <2> SUFFICES ASSUME NEW k \in Messages, k.serial = serial + 1, job'[k].at \in AfterAdmit
               PROVE  FALSE
    <3>1. Newest' = Prepare(serial')
      BY <1>2 DEF Newest
    <3>2. \A k \in Messages : k = Newest' => k.serial = serial + 1
      BY <1>2, <3>1 DEF Prepare
    <3> QED
      BY <3>2 DEF NewestRegistered
  <2> QED
    BY <1>5, <1>9 DEF AfterAdmit
<1> QED
  BY <1>7, <1>8, <1>10, <1>11, <1>12, <1>13 DEF PipelineInv

\* A new frame: whatever was registered is older, and was registered before.
LEMMA SendKeeps ==
    ASSUME PipelineInv, SendFrame, serial # 0,
           job' \in [Messages -> Jobs], job'[Frame(serial, generation + 1)].at = "sent",
           \A k \in Messages : k # Frame(serial, generation + 1) =>
               \/ job'[k] = job[k]
               \/ job[k].at = "answered" /\ job'[k].at = "received" /\ job'[k].accepted = job[k].accepted,
           UNCHANGED <<coordinatorVars, serial, shown, slot, edit, edits>>
    PROVE  PipelineInv'
<1> DEFINE m == Frame(serial, generation + 1)
<1>1. /\ job \in [Messages -> Jobs] /\ TypeOK /\ RegistryInv /\ SlotsKept /\ edits \in Nat
      /\ slot \in [Slots -> Messages \cup {Nobody}]
      /\ SentInOrder /\ RecordedInOrder
  BY DEF PipelineInv, Types, TypeOK, Slots
<1>2. generation < MaxGeneration /\ generation' = generation + 1
  BY DEF SendFrame
<1>3. /\ serial \in Nat /\ serial \in Sessions /\ generation \in Nat /\ generation + 1 \in 1..MaxGeneration
      /\ generation + 1 \in Generations
  BY <1>1, <1>2, PageAssumption, MaxGenerationAssumption DEF TypeOK, Generations
<1>4. m \in Messages /\ m.serial = serial /\ m.gen = generation + 1
  BY <1>3, MessageFacts DEF Frame
<1>5. Newest' = m
  BY <1>2, <1>3 DEF Newest, Prepare, Frame
<1> HIDE DEF m
<1>6. /\ job' \in [Messages -> Jobs] /\ job'[m].at = "sent"
      /\ \A k \in Messages : k # m =>
               \/ job'[k] = job[k]
               \/ job[k].at = "answered" /\ job'[k].at = "received" /\ job'[k].accepted = job[k].accepted
  BY DEF m
<1>7. job[m].at = "unsent"
  BY <1>1, <1>3, <1>4 DEF SentInOrder
<1>8. Types' /\ RegistryInv'
  <2>1. RegistryInv'
    BY <1>1 DEF RegistryInv, coordinatorVars, CoordinatorTypeOK, RegistryConsistent, RecentSessionsKept
  <2> QED
    BY <1>1, <1>2, <1>3, <1>6, <2>1 DEF Types, TypeOK, RegistryInv
<1>9. SlotsKept'
  <2>1. \A kind \in Slots : slot[kind] # Nobody => slot[kind] \in Messages /\ job'[slot[kind]] = job[slot[kind]]
    BY <1>1, <1>4, <1>6, <1>7 DEF SlotsKept, Slots, Holding
  <2> QED
    BY <1>1, <2>1 DEF SlotsKept, Slots
<1>10. SentInOrder'
  <2>1. \A k \in Messages : k.gen \in Nat
    BY MessageFacts
  <2> QED
    BY <1>1, <1>2, <1>3, <1>4, <1>6, <2>1 DEF SentInOrder
<1>11. RecordedInOrder'
  <2>1. latest \in [Sessions -> Nat]
    BY <1>1, MaxGenerationAssumption DEF TypeOK, CoordinatorTypeOK, Generations
  <2> QED
    BY <1>1, <1>2, <1>3, <2>1 DEF RecordedInOrder, coordinatorVars
<1>12. edits = 0 => edit = "none" /\ NewestSelected'
  BY <1>6 DEF PipelineInv, NewestSelected, coordinatorVars
<1>13. NewestRegistered'
  BY <1>5, <1>6 DEF NewestRegistered, AfterAdmit
<1> QED
  BY <1>8, <1>9, <1>10, <1>11, <1>12, <1>13 DEF PipelineInv

\* A request whose answer the page has looked at keeps nothing.
LEMMA ReceivedKeeps ==
    ASSUME PipelineInv, NEW m \in Messages, job[m].at = "answered", job' = Moved(m, "received"),
           UNCHANGED <<coordinatorVars, serial, generation, ready, edit, edits, slot>>,
           shown' \in (0..MaxSerial) \X Generations
    PROVE  PipelineInv'
<1>1. /\ job \in [Messages -> Jobs] /\ TypeOK /\ SlotsKept
      /\ slot \in [Slots -> Messages \cup {Nobody}]
  BY DEF PipelineInv, Types, TypeOK, Slots
<1>2. /\ job' \in [Messages -> Jobs] /\ \A k \in Messages : k # m => job'[k] = job[k]
      /\ job'[m].at = "received" /\ job'[m].accepted = job[m].accepted
  BY <1>1, MovedFacts DEF Places
<1>3. \A kind \in Slots : slot[kind] # m
  BY <1>1, NobodyAssumption DEF SlotsKept, Slots, Holding
<1>4. SlotsKept'
  BY <1>1, <1>2, <1>3, SlotsFollow
<1>5. TypeOK'
  BY <1>1 DEF TypeOK, coordinatorVars, CoordinatorTypeOK
<1>6. "received" \notin AfterAdmit \cup {"unsent", "sent"}
  BY DEF AfterAdmit
<1> QED
  BY <1>2, <1>4, <1>5, <1>6, QuietStep

\* An answer to a frame.
LEMMA ReceiveFrameKeeps ==
    ASSUME PipelineInv, NEW m \in Messages, ReceiveFrame(m)
    PROVE  PipelineInv'
<1>1. /\ job[m].at = "answered" /\ job' = Moved(m, "received")
      /\ UNCHANGED <<coordinatorVars, serial, generation, ready, edit, edits, slot>>
      /\ shown' \in {<<m.serial, m.gen>>, shown}
  BY DEF ReceiveFrame, At
<1>2. shown \in (0..MaxSerial) \X Generations
  BY DEF PipelineInv, Types, TypeOK
<1>3. m.serial \in 0..MaxSerial /\ m.gen \in Generations
  BY MessageFacts, PageAssumption
<1>4. shown' \in (0..MaxSerial) \X Generations
  BY <1>1, <1>2, <1>3
<1> QED
  BY <1>1, <1>4, ReceivedKeeps

\* An answer to a preparation, and the first frame it may bring.
LEMMA ReceivePreparedKeeps ==
    ASSUME PipelineInv, NEW n \in Sessions, ReceivePrepared(n)
    PROVE  PipelineInv'
<1> DEFINE m == Prepare(n)
           seen == Moved(m, "received")
<1>1. /\ m \in Messages /\ m.serial = n /\ m.gen = 0 /\ n # 0
  BY MessageFacts, PageAssumption, MaxGenerationAssumption DEF Prepare
<1>2. /\ job[m].at = "answered" /\ UNCHANGED <<coordinatorVars, serial, shown, edit, slot, edits>>
  BY DEF ReceivePrepared, At
<1>3. shown \in (0..MaxSerial) \X Generations /\ job \in [Messages -> Jobs]
  BY DEF PipelineInv, Types, TypeOK
<1>4. CASE job' = seen /\ UNCHANGED <<ready, generation>>
  BY <1>1, <1>2, <1>3, <1>4, ReceivedKeeps
<1>5. CASE /\ n = serial /\ ready' = TRUE /\ SendFrame
           /\ job' = [seen EXCEPT ![Frame(n, generation + 1)].at = "sent"]
  <2> DEFINE f == Frame(n, generation + 1)
  <2>1. /\ seen \in [Messages -> Jobs] /\ \A k \in Messages : k # m => seen[k] = job[k]
        /\ seen[m].at = "received" /\ seen[m].accepted = job[m].accepted
    BY <1>1, <1>3, MovedFacts DEF Places
  <2>2. f \in Messages
    <3>1. generation + 1 \in 1..MaxGeneration
      BY <1>5, MaxGenerationAssumption DEF SendFrame, PipelineInv, Types, TypeOK, Generations
    <3> QED
      BY <3>1, MessageFacts
  <2> HIDE DEF seen
  <2>3. /\ job' \in [Messages -> Jobs] /\ job'[f].at = "sent"
        /\ \A k \in Messages : k # f => job'[k] = seen[k]
    BY <1>5, <2>1, <2>2 DEF Jobs, Places
  <2>4. \A k \in Messages : k # f =>
            \/ job'[k] = job[k]
            \/ job[k].at = "answered" /\ job'[k].at = "received" /\ job'[k].accepted = job[k].accepted
    BY <1>2, <2>1, <2>3
  <2>5. f = Frame(serial, generation + 1) /\ serial # 0
    BY <1>1, <1>5
  <2> HIDE DEF f, m
  <2> QED
    BY <1>2, <1>5, <2>3, <2>4, <2>5, SendKeeps
<1> QED
  BY <1>4, <1>5 DEF ReceivePrepared

\* An adjustment.
LEMMA AdjustKeeps ==
    ASSUME PipelineInv, Adjust
    PROVE  PipelineInv'
<1> DEFINE f == Frame(serial, generation + 1)
<1>1. /\ ready /\ SendFrame /\ job' = Moved(f, "sent") /\ serial # 0
      /\ UNCHANGED <<coordinatorVars, serial, shown, slot, edit, edits>>
      /\ job \in [Messages -> Jobs]
  BY DEF Adjust, PipelineInv, Types
<1>2. f \in Messages
  <2>1. generation + 1 \in 1..MaxGeneration
    BY <1>1, MaxGenerationAssumption DEF SendFrame, PipelineInv, Types, TypeOK, Generations
  <2>2. serial \in Sessions
    BY <1>1, PageAssumption, MaxGenerationAssumption DEF PipelineInv, Types, TypeOK
  <2> QED
    BY <2>1, <2>2, MessageFacts
<1>3. /\ job' \in [Messages -> Jobs] /\ job'[f].at = "sent"
      /\ \A k \in Messages : k # f => job'[k] = job[k]
  <2> HIDE DEF f
  <2> QED
    BY <1>1, <1>2, MovedFacts DEF Places
<1> QED
  BY <1>1, <1>3, SendKeeps

\* A calibration edit is posted: from then on the registry may be cleared.
LEMMA PostKeeps ==
    ASSUME PipelineInv, PostEdit
    PROVE  PipelineInv'
<1>1. /\ edits \in Nat /\ edits' = edits + 1 /\ edit' = "sent"
      /\ UNCHANGED <<coordinatorVars, pageVars, job, slot>>
  BY DEF PipelineInv, Types, PostEdit
<1>2. Types' /\ SlotsKept'
  BY <1>1 DEF PipelineInv, Types, TypeOK, SlotsKept, coordinatorVars, pageVars, CoordinatorTypeOK
<1>3. RegistryInv'
  BY <1>1 DEF PipelineInv, RegistryInv, coordinatorVars, CoordinatorTypeOK, RegistryConsistent, RecentSessionsKept
<1>4. SentInOrder' /\ RecordedInOrder'
  BY <1>1 DEF PipelineInv, SentInOrder, RecordedInOrder, coordinatorVars, pageVars
<1>5. edits' # 0
  BY <1>1
<1> QED
  BY <1>2, <1>3, <1>4, <1>5 DEF PipelineInv

\* The service clears the registry: nothing on record is nothing too new.
LEMMA InvalidateKeeps ==
    ASSUME PipelineInv, InvalidatePreview
    PROVE  PipelineInv'
<1>1. /\ edit = "sent" /\ edit' = "cleared" /\ Clear /\ edits' = edits
      /\ UNCHANGED <<pageVars, job, slot>>
  BY DEF InvalidatePreview
<1>2. edits # 0
  BY <1>1 DEF PipelineInv
<1>3. RegistryInv'
  <2>1. [CoordinatorNext]_coordinatorVars /\ RegistryInv
    BY <1>1 DEF CoordinatorNext, PipelineInv
  <2> QED
    BY <2>1, RegistryStep
<1>4. Types' /\ SlotsKept'
  <2>1. CoordinatorTypeOK'
    BY <1>3 DEF RegistryInv
  <2> QED
    BY <1>1, <2>1 DEF PipelineInv, Types, TypeOK, SlotsKept, pageVars
<1>5. SentInOrder'
  BY <1>1 DEF PipelineInv, SentInOrder, pageVars
<1>6. RecordedInOrder'
  <2>1. /\ latest' = [n \in Sessions |-> 0] /\ selections' = [c \in Clients |-> 0]
        /\ Page \in Clients /\ serial' = serial /\ serial \in Nat
    BY <1>1, PageAssumption, MaxGenerationAssumption DEF Clear, pageVars, PipelineInv, Types, TypeOK
  <2> QED
    BY <2>1 DEF RecordedInOrder
<1> QED
  BY <1>1, <1>2, <1>3, <1>4, <1>5, <1>6 DEF PipelineInv

-----------------------------------------------------------------------------
(* The theorems *)

\* The page has asked for nothing and the registry is empty.
LEMMA PipelineStart == Init => PipelineInv
<1> SUFFICES ASSUME Init PROVE PipelineInv
  OBVIOUS
<1>1. /\ MaxSerial \in Nat /\ 0 \in Generations /\ Page \in Clients
  BY PageAssumption, MaxGenerationAssumption DEF Generations
<1>2. RegistryInv
  BY RegistryStart DEF Init
<1>3. job \in [Messages -> Jobs] /\ \A m \in Messages : job[m].at = "unsent"
  BY DEF Init, Jobs, Places
<1>4. Types
  <2>1. slot \in [{"preview", "prepare"} -> Messages \cup {Nobody}]
    BY DEF Init
  <2> QED
    BY <1>1, <1>2, <1>3, <2>1 DEF Init, Types, TypeOK, RegistryInv
<1>5. SentInOrder /\ NewestSelected /\ NewestRegistered
  BY <1>3 DEF SentInOrder, NewestSelected, NewestRegistered, AfterAdmit
<1>6. RecordedInOrder /\ SlotsKept
  BY <1>1 DEF Init, CoordinatorInit, RecordedInOrder, SlotsKept
<1> QED
  BY <1>2, <1>4, <1>5, <1>6 DEF Init, PipelineInv

\* Every step of the page and of the server.
LEMMA PipelineStep == PipelineInv /\ [Next]_vars => PipelineInv'
<1> SUFFICES ASSUME PipelineInv, [Next]_vars PROVE PipelineInv'
  OBVIOUS
<1>1. ASSUME Select \/ ReceiveEdit PROVE PipelineInv'
  <2>1. /\ BeginSession /\ UNCHANGED <<coordinatorVars, slot, edits>>
        /\ edit' \in {"none", edit}
    BY <1>1 DEF Select, ReceiveEdit
  <2>2. edit' \in {"none", "sent", "cleared"} /\ (edits = 0 => edit' = "none")
    BY <2>1 DEF PipelineInv, Types, TypeOK
  <2> QED
    BY <2>1, <2>2, BeginKeeps
<1>2. ASSUME NEW m \in Messages, Handle(m) \/ Fail(m) PROVE PipelineInv'
  BY <1>2, AnnounceKeeps, AdmitKeeps, ThreadKeeps DEF Handle
<1>3. ASSUME NEW m \in Messages, Receive(m) PROVE PipelineInv'
  <2>1. m.serial \in Sessions
    BY MessageFacts
  <2> QED
    BY <1>3, <2>1, ReceiveFrameKeeps, ReceivePreparedKeeps DEF Receive
<1>4. CASE UNCHANGED vars
  <2>1. UNCHANGED <<coordinatorVars, pageVars, edit, job, slot, edits>>
    BY <1>4 DEF vars
  <2>2. RegistryInv'
    BY <2>1 DEF PipelineInv, RegistryInv, coordinatorVars, CoordinatorTypeOK, RegistryConsistent, RecentSessionsKept
  <2>3. Types' /\ SlotsKept'
    BY <2>1 DEF PipelineInv, Types, TypeOK, SlotsKept, coordinatorVars, pageVars, CoordinatorTypeOK
  <2>4. SentInOrder' /\ RecordedInOrder'
    BY <2>1 DEF PipelineInv, SentInOrder, RecordedInOrder, coordinatorVars, pageVars
  <2>5. (edits = 0 => edit = "none" /\ NewestSelected)'
    BY <2>1 DEF PipelineInv, NewestSelected, coordinatorVars, pageVars
  <2>6. (edits = 0 /\ MaxSerial <= MaxSessions => NewestRegistered)'
    BY <2>1 DEF PipelineInv, NewestRegistered, Newest, coordinatorVars, pageVars
  <2> QED
    BY <2>2, <2>3, <2>4, <2>5, <2>6 DEF PipelineInv
<1> QED
  BY <1>1, <1>2, <1>3, <1>4, AdjustKeeps, PostKeeps, InvalidateKeeps DEF Next

\* In every state of a page and its server nothing is on record that the page has not
\* sent, and the newest selection and frame are, unless an edit cleared them.
THEOREM PipelineInvariant == Spec => []PipelineInv
<1> QED
  BY PipelineStart, PipelineStep, PTL DEF Spec

\* No slot is lost to a request that was answered, dismissed or failed: whoever holds
\* one is between its boundaries (the finally blocks of run_preview and prepare_preview).
THEOREM SlotsAlwaysWithWorkers == Spec => []SlotsHeldByWorkers
<1>1. PipelineInv => SlotsHeldByWorkers
  <2> SUFFICES ASSUME PipelineInv, NEW kind \in DOMAIN slot, slot[kind] # Nobody
               PROVE  job[slot[kind]].at \in {"slot", "proxy", "plan", "planned", "rendered", "encoded", "publish"}
    BY DEF SlotsHeldByWorkers
  <2>1. kind \in {"preview", "prepare"}
    BY DEF PipelineInv, Types, TypeOK
  <2> QED
    BY <2>1 DEF PipelineInv, SlotsKept, Holding
<1> QED
  BY <1>1, PipelineInvariant, PTL

\* What was asked for before the page's newest request never reaches the screen, in
\* whatever order answers return.
THEOREM ScreenAlwaysFollows == Spec => ScreenFollowsPage
<1>1. PipelineInv /\ [Next]_vars => [shown' # shown => shown' = <<serial, generation>>]_vars
  <2> SUFFICES ASSUME PipelineInv, Next, shown' # shown PROVE shown' = <<serial, generation>>
    OBVIOUS
  <2>1. PICK m \in Messages : ReceiveFrame(m)
    BY DEF Next, Select, Adjust, PostEdit, ReceiveEdit, InvalidatePreview, BeginSession, pageVars,
           Handle, Announce, CheckSelection, Admit, ProxyReady, TakeSlot, SlotBoundary, ObtainPlan,
           PlanBoundary, RenderBoundary, EncodeBoundary, Publish, Boundary, Fail, Receive, ReceivePrepared
  <2>2. m.serial = serial /\ m.gen = generation /\ shown' = <<m.serial, m.gen>>
    BY <2>1 DEF ReceiveFrame
  <2> QED
    BY <2>2
<1> QED
  BY <1>1, PipelineInvariant, PTL DEF Spec, ScreenFollowsPage

\* A request that only moves on has its answer as before.
LEMMA AnswersKept ==
    ASSUME job \in [Messages -> Jobs], NEW x, NEW place \in Places, job' = Moved(x, place)
    PROVE  \A m \in Messages : job'[m].answer = job[m].answer
BY DEF Moved, Jobs

\* The steps that dismiss a request, and what each of them found.
Dismissed(m) ==
    \/ job[m].at = "announced" /\ ~(job[m].accepted /\ SelectionIsCurrent(Page, m.serial))
    \/ job[m].at = "register" /\ ~GenerationAccepted(m.serial, m.gen)
    \/ job[m].at \in AfterAdmit /\ ~Wanted(m)

\* A boundary answers "superseded" only to the request that stands at it, and only to
\* one nobody waits for any more.
LEMMA BoundaryDismisses ==
    ASSUME job \in [Messages -> Jobs], NEW k \in Messages, NEW here \in AfterAdmit, NEW next \in SUBSET AfterAdmit,
           Boundary(k, here, next),
           NEW m \in Messages, job[m].answer = "none", job'[m].answer = "superseded"
    PROVE  Dismissed(m)
<1>1. ASSUME NEW place \in next, job' = Moved(k, place) PROVE FALSE
  <2>1. place \in Places
    BY DEF Places
  <2> QED
    BY <1>1, <2>1, AnswersKept
<1>2. ASSUME job' = Answered(k, "superseded"), ~Wanted(k), job[k].at = here PROVE Dismissed(m)
  <2>1. m = k
    BY <1>2, AnsweredFacts
  <2> QED
    BY <1>2, <2>1 DEF Dismissed
<1> QED
  BY <1>1, <1>2 DEF Boundary, At

\* No other step gives that answer: every request dismissed had reason to be.
LEMMA OnlyDismissed ==
    ASSUME PipelineInv, Next, NEW m \in Messages, job[m].answer = "none", job'[m].answer = "superseded"
    PROVE  Dismissed(m)
<1>0. job \in [Messages -> Jobs] /\ {"sent", "announced", "register", "received"} \cup AfterAdmit \subseteq Places
  BY DEF PipelineInv, Types, Places
<1>1. ASSUME Select \/ Adjust \/ PostEdit \/ ReceiveEdit \/ InvalidatePreview PROVE FALSE
  <2>1. job' = job \/ \E x : job' = Moved(x, "sent")
    BY <1>1 DEF Select, Adjust, PostEdit, ReceiveEdit, InvalidatePreview, BeginSession
  <2> QED
    BY <1>0, <2>1, AnswersKept
<1>2. ASSUME NEW k \in Messages, Receive(k) PROVE FALSE
  <2>1. CASE ReceiveFrame(k)
    <3>1. job' = Moved(k, "received")
      BY <2>1 DEF ReceiveFrame
    <3> QED
      BY <1>0, <3>1, AnswersKept
  <2>2. CASE ReceivePrepared(k.serial)
    <3> DEFINE seen == Moved(Prepare(k.serial), "received")
    <3>1. seen \in [Messages -> Jobs] /\ \A x \in Messages : seen[x].answer = job[x].answer
      BY <1>0 DEF Moved, Jobs
    <3>2. job' = seen \/ \E f : job' = [seen EXCEPT ![f].at = "sent"]
      BY <2>2 DEF ReceivePrepared
    <3> HIDE DEF seen
    <3>3. job'[m].answer = seen[m].answer
      BY <3>1, <3>2 DEF Jobs
    <3> QED
      BY <3>1, <3>3
  <2> QED
    BY <1>2, <2>1, <2>2 DEF Receive
<1>3. ASSUME NEW k \in Messages, Announce(k) PROVE FALSE
  <2>1. \E accepted : job' = [job EXCEPT ![k].at = "announced", ![k].accepted = accepted]
    BY <1>3 DEF Announce
  <2> QED
    BY <1>0, <2>1 DEF Jobs
<1>4. ASSUME NEW k \in Messages, CheckSelection(k) PROVE Dismissed(m)
  <2>1. CASE job' = Answered(k, "superseded") /\ ~(job[k].accepted /\ SelectionIsCurrent(Page, k.serial))
    <3>1. m = k /\ job[k].at = "announced"
      BY <1>0, <1>4, <2>1, AnsweredFacts DEF CheckSelection, At
    <3> QED
      BY <2>1, <3>1 DEF Dismissed
  <2>2. CASE \E place \in {"register"} \cup AfterAdmit : job' = Moved(k, place)
    BY <1>0, <2>2, AnswersKept
  <2> QED
    BY <1>4, <2>1, <2>2 DEF CheckSelection, AfterAdmit
<1>5. ASSUME NEW k \in Messages, Admit(k) PROVE Dismissed(m)
  <2>1. CASE job' = Moved(k, "proxy")
    BY <1>0, <2>1, AnswersKept DEF AfterAdmit
  <2>2. CASE job' = Answered(k, "superseded") /\ ~GenerationAccepted(k.serial, k.gen)
    <3>1. m = k /\ job[k].at = "register"
      BY <1>0, <1>5, <2>2, AnsweredFacts DEF Admit, At
    <3> QED
      BY <2>2, <3>1 DEF Dismissed
  <2> QED
    BY <1>5, <2>1, <2>2 DEF Admit
<1>6. ASSUME NEW k \in Messages,
             ProxyReady(k) \/ SlotBoundary(k) \/ PlanBoundary(k) \/ RenderBoundary(k) \/ EncodeBoundary(k)
      PROVE  Dismissed(m)
  <2>1. PICK here \in AfterAdmit, next \in SUBSET AfterAdmit : Boundary(k, here, next)
    BY <1>6 DEF ProxyReady, SlotBoundary, PlanBoundary, RenderBoundary, EncodeBoundary, AfterAdmit
  <2> QED
    BY <1>0, <2>1, BoundaryDismisses
<1>7. ASSUME NEW k \in Messages, TakeSlot(k) \/ ObtainPlan(k) PROVE FALSE
  <2>1. \E place \in AfterAdmit : job' = Moved(k, place)
    BY <1>7 DEF TakeSlot, ObtainPlan, AfterAdmit
  <2> QED
    BY <1>0, <2>1, AnswersKept
<1>8. ASSUME NEW k \in Messages, Publish(k) \/ Fail(k) PROVE FALSE
  <2>1. PICK answer \in {"frame", "prepared", "error"} : job' = Answered(k, answer)
    BY <1>8 DEF Publish, Fail
  <2>2. job'[k].answer = answer /\ \A x \in Messages : x # k => job'[x] = job[x]
    BY <1>0, <2>1, AnsweredFacts
  <2> QED
    BY <2>2
<1> QED
  BY <1>1, <1>2, <1>3, <1>4, <1>5, <1>6, <1>7, <1>8 DEF Next, Handle

\* The newest request is never dropped as stale, however late the older ones arrive,
\* if the registry has room for every session of the page.
THEOREM NewestAlwaysServed ==
    ASSUME MaxSerial <= MaxSessions
    PROVE  Spec => NewestNeverDropped
<1> DEFINE Kept == \A m \in Messages :
                       job[m].answer = "none" /\ job'[m].answer = "superseded" /\ edits = 0 => m # Newest
<1>1. PipelineInv /\ [Next]_vars => [Kept]_vars
  <2> SUFFICES ASSUME PipelineInv, Next, NEW m \in Messages, job[m].answer = "none",
                      job'[m].answer = "superseded", edits = 0, m = Newest
               PROVE  FALSE
    OBVIOUS
  <2>1. /\ job \in [Messages -> Jobs] /\ NewestSelected /\ NewestRegistered /\ RecordedInOrder
        /\ Dismissed(m)
    BY OnlyDismissed DEF PipelineInv, Types
  <2>2. m.serial = serial /\ m.gen = generation /\ m.serial \in Sessions
    BY NewestFacts, MessageFacts
  <2>3. job[m].at \notin {"unsent", "sent"}
    BY <2>1 DEF Dismissed, AfterAdmit
  <2>4. job[m].accepted /\ SelectionIsCurrent(Page, m.serial)
    BY <2>1, <2>2, <2>3 DEF NewestSelected, SelectionIsCurrent
  <2>5. GenerationAccepted(m.serial, m.gen)
    <3>1. latest \in [Sessions -> Nat] /\ generation \in Nat
      BY MaxGenerationAssumption DEF PipelineInv, Types, TypeOK, CoordinatorTypeOK, Generations
    <3> QED
      BY <2>1, <2>2, <3>1 DEF RecordedInOrder, GenerationAccepted
  <2>6. job[m].at \in AfterAdmit => Wanted(m)
    BY <2>1, <2>2, <2>4 DEF NewestRegistered, Wanted, IsCurrent
  <2> QED
    BY <2>1, <2>4, <2>5, <2>6 DEF Dismissed
<1> QED
  BY <1>1, PipelineInvariant, PTL DEF Spec, NewestNeverDropped
=============================================================================
