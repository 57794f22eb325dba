------------------------ MODULE StreamService_proofs -------------------------
(***************************************************************************)
(* For any finite set of streams, any limits and any commands: the counter *)
(* active_streams accounts for the streams, and a stop that stands lets a  *)
(* stream begin one more generation at most.                               *)
(***************************************************************************)
EXTENDS StreamService, FiniteSetTheorems, TLAPS

Tasks == Streams \cup Bulks \cup Starters

Away == {"idle", "admitted", "refused", "ended"}
Points == {"idle", "refused", "admitted", "resetPaused", "resetStopped", "create",
           "top", "pause", "asleep", "begin", "stream", "exit", "running", "half",
           "ended"}

(* The types, without the bound of the counter, which rests on the accounts. *)
Types ==
  /\ pc \in [Tasks -> Points]
  /\ active \in Int
  /\ paused \in BOOLEAN /\ stopped \in BOOLEAN
  /\ sequence \in [Streams -> Nat]
  /\ batch \in [Streams -> Nat]
  /\ unread \in [Streams -> 0..Buffered]
  /\ connected \in [Streams -> BOOLEAN]
  /\ afterStop \in [Streams -> Nat]
  /\ finished \subseteq Streams \X {"counted", "leaked"}

(* Only a stream that has ended is on record as finished. *)
FinishedHaveEnded ==
  \A s \in Streams, how \in {"counted", "leaked"} :
    <<s, how>> \in finished => pc[s] = "ended"

(* A stream that began a generation under a stop is on its way out: the    *)
(* test at the top of its loop is the next it comes to.                    *)
OnTheWayOut ==
  \A s \in Streams :
    afterStop[s] # 0 =>
      afterStop[s] = 1 /\ stopped /\ pc[s] \in {"stream", "top", "exit", "ended"}

-----------------------------------------------------------------------------
(* Types. *)

LEMMA TypesInit == Init => Types
<1> SUFFICES ASSUME Init PROVE Types
  OBVIOUS
<1>1. pc \in [Tasks -> Points]
  BY DEF Init, Tasks, Points
<1>2. 0 \in Nat /\ 0 \in 0..Buffered
  BY SizesAssumption
<1>3. /\ sequence \in [Streams -> Nat] /\ batch \in [Streams -> Nat]
      /\ unread \in [Streams -> 0..Buffered]
      /\ afterStop \in [Streams -> Nat] /\ connected \in [Streams -> BOOLEAN]
  BY <1>2 DEF Init
<1>4. active \in Int
  BY DEF Init
<1>5. paused \in BOOLEAN /\ stopped \in BOOLEAN
  BY DEF Init
<1>6. finished = {}
  BY DEF Init
<1> QED
  BY <1>1, <1>3, <1>4, <1>5, <1>6 DEF Types

LEMMA RegisterKeepsTypes ==
  ASSUME Types, NEW s \in Streams, Register(s)
  PROVE  Types'
<1> s \in Tasks
  BY DEF Tasks
<1> USE DEF Go, Types, Points, shared, local, client
<1>1. CASE CheckResources(s)
  BY <1>1 DEF CheckResources, Refused, Admitted
<1>2. CASE BadConfig(s)
  BY <1>2 DEF BadConfig
<1>3. CASE RegisterCall(s)
  BY <1>3 DEF RegisterCall
<1>4. CASE RegisterSocket(s)
  BY <1>4 DEF RegisterSocket
<1>5. CASE ClearPaused(s)
  BY <1>5 DEF ClearPaused
<1>6. CASE ClearStopped(s)
  BY <1>6 DEF ClearStopped, StopCleared
<1> QED
  BY <1>1, <1>2, <1>3, <1>4, <1>5, <1>6 DEF Register

LEMMA TaskKeepsTypes ==
  ASSUME Types, NEW s \in Streams, TaskStep(s)
  PROVE  Types'
<1> s \in Tasks
  BY DEF Tasks
<1> USE DEF Go, Types, Points, shared, local, client
<1>1. CASE Create(s)
  BY <1>1 DEF Create
<1>2. CASE CreateFails(s)
  <2>1. pc' \in [Tasks -> Points]
    BY <1>2 DEF CreateFails
  <2>2. active' \in Int
    BY <1>2 DEF CreateFails
  <2>3. finished' \subseteq Streams \X {"counted", "leaked"}
    BY <1>2 DEF CreateFails
  <2> QED
    BY <1>2, <2>1, <2>2, <2>3 DEF CreateFails
<1>3. CASE TopStops(s) \/ TopGoesOn(s)
  BY <1>3 DEF TopStops, TopGoesOn
<1>4. CASE PauseSleeps(s) \/ PauseIsOver(s)
  BY <1>4 DEF PauseSleeps, PauseIsOver
<1>5. CASE PauseWakes(s)
  BY <1>5 DEF PauseWakes
<1>6. CASE BeginLeaves(s) \/ SocketMessage(s)
  BY <1>6 DEF BeginLeaves, SocketMessage
<1>7. CASE Generate(s)
  <2>1. batch' \in [Streams -> Nat]
    BY <1>7, SizesAssumption DEF Generate
  <2>2. pc' \in [Tasks -> Points] /\ afterStop' \in [Streams -> Nat]
    BY <1>7 DEF Generate
  <2> QED
    BY <1>7, <2>1, <2>2 DEF Generate
<1>8. CASE SendEntry(s)
  <2>1. batch' \in [Streams -> Nat]
    BY <1>8 DEF SendEntry
  <2>2. sequence' \in [Streams -> Nat]
    BY <1>8 DEF SendEntry, Produced
  <2>3. unread' \in [Streams -> 0..Buffered]
    BY <1>8, SizesAssumption DEF SendEntry
  <2> QED
    BY <1>8, <2>1, <2>2, <2>3 DEF SendEntry
<1>9. CASE SendFails(s)
  BY <1>9 DEF SendFails, Produced
<1>10. CASE BatchDone(s)
  BY <1>10 DEF BatchDone
<1>11. CASE Exit(s)
  BY <1>11 DEF Exit
<1> QED
  BY <1>1, <1>2, <1>3, <1>4, <1>5, <1>6, <1>7, <1>8, <1>9, <1>10, <1>11 DEF TaskStep

LEMMA OthersKeepTypes ==
  ASSUME Types
  PROVE  /\ \A s \in Streams : Read(s) \/ HangUp(s) => Types'
         /\ \A b \in Bulks : BulkStep(b) => Types'
         /\ \A r \in Starters :
              StartClearsStopped(r) \/ StartClearsPaused(r) => Types'
         /\ Pause \/ Resume \/ Stop => Types'
         /\ UNCHANGED vars => Types'
<1> USE DEF Go, Types, Points, shared, local, client
<1>1. ASSUME NEW s \in Streams, Read(s) \/ HangUp(s)
      PROVE  Types'
  <2>1. unread' \in [Streams -> 0..Buffered]
    BY <1>1, SizesAssumption DEF Read, HangUp
  <2> QED
    BY <1>1, <2>1 DEF Read, HangUp
<1>2. ASSUME NEW b \in Bulks, BulkStep(b)
      PROVE  Types'
  <2>1. b \in Tasks
    BY DEF Tasks
  <2> QED
    BY <1>2, <2>1 DEF BulkStep, CheckResources, Refused, Admitted, BadConfig,
                      BulkRuns, BulkEnds
<1>3. ASSUME NEW r \in Starters, StartClearsStopped(r) \/ StartClearsPaused(r)
      PROVE  Types'
  <2>1. r \in Tasks
    BY DEF Tasks
  <2>2. CASE StartClearsStopped(r)
    <3>1. afterStop' \in [Streams -> Nat] /\ stopped' = FALSE
      BY <2>2 DEF StartClearsStopped, StopCleared
    <3>2. pc' \in [Tasks -> Points]
      BY <2>1, <2>2 DEF StartClearsStopped
    <3> QED
      BY <2>2, <3>1, <3>2 DEF StartClearsStopped
  <2>3. CASE StartClearsPaused(r)
    BY <2>1, <2>3 DEF StartClearsPaused
  <2> QED
    BY <1>3, <2>2, <2>3
<1>4. ASSUME Pause \/ Resume \/ Stop
      PROVE  Types'
  BY <1>4 DEF Pause, Resume, Stop
<1>5. ASSUME UNCHANGED vars
      PROVE  Types'
  BY <1>5 DEF vars
<1> QED
  BY <1>1, <1>2, <1>3, <1>4, <1>5

LEMMA TypesNext ==
  ASSUME Types, [Next]_vars
  PROVE  Types'
BY RegisterKeepsTypes, TaskKeepsTypes, OthersKeepTypes DEF Next

-----------------------------------------------------------------------------
(* The ways in which a step touches the counter and what it counts. *)

(* Nobody enters or leaves, and the counter stays. *)
NobodyMoves == Live' = Live /\ UNCHANGED <<active, finished>>

(* A stream that is not counted yet registers. *)
Enters(s) ==
  /\ s \notin Live
  /\ Live' = Live \cup {s}
  /\ active' = active + 1
  /\ UNCHANGED finished

(* A stream ends and takes itself off the counter, or does not. *)
Leaves(s) ==
  /\ s \in Live
  /\ Live' = Live \ {s}
  /\ active' = active - 1
  /\ finished' = finished \cup {<<s, "counted">>}

Leaks(s) ==
  /\ s \in Live
  /\ Live' = Live \ {s}
  /\ active' = active
  /\ finished' = finished \cup {<<s, "leaked">>}

CounterStep ==
  NobodyMoves \/ \E s \in Streams : Enters(s) \/ Leaves(s) \/ Leaks(s)

(* Who is live changes with the point of one task only. *)
LEMMA LiveMoves ==
  ASSUME Types, NEW a \in Tasks, NEW to \in Points, pc' = [pc EXCEPT ![a] = to]
  PROVE  /\ a \in Streams /\ to \notin Away => Live' = Live \cup {a}
         /\ a \in Streams /\ to \in Away => Live' = Live \ {a}
         /\ a \notin Streams => Live' = Live
         /\ a \in Streams => (a \in Live <=> pc[a] \notin Away)
<1>1. \A s \in Streams : s \in Tasks /\ pc'[s] = IF s = a THEN to ELSE pc[s]
  BY DEF Types, Tasks
<1>2. \A s \in Streams : s \in Live' <=> pc'[s] \notin Away
  BY DEF Live, Away
<1>3. \A s \in Streams : s \in Live <=> pc[s] \notin Away
  BY DEF Live, Away
<1>4. Live \subseteq Streams /\ Live' \subseteq Streams
  BY DEF Live
<1>5. CASE a \notin Streams
  BY <1>1, <1>2, <1>3, <1>4, <1>5
<1>6. CASE a \in Streams /\ to \notin Away
  BY <1>1, <1>2, <1>3, <1>4, <1>6
<1>7. CASE a \in Streams /\ to \in Away
  BY <1>1, <1>2, <1>3, <1>4, <1>7
<1> QED
  BY <1>3, <1>5, <1>6, <1>7

(* A move between two points of a stream's life, or of somebody else, does *)
(* not change who is live.                                                 *)
LEMMA QuietMoves ==
  ASSUME Types, NEW a \in Tasks, NEW to \in Points, pc' = [pc EXCEPT ![a] = to],
         a \in Streams => (pc[a] \in Away <=> to \in Away)
  PROVE  Live' = Live
<1>1. Live \subseteq Streams
  BY DEF Live
<1>2. CASE a \notin Streams
  BY <1>2, LiveMoves
<1>3. CASE a \in Streams /\ to \in Away
  <2>1. a \notin Live /\ Live' = Live \ {a}
    BY <1>3, LiveMoves
  <2> QED
    BY <2>1
<1>4. CASE a \in Streams /\ to \notin Away
  <2>1. a \in Live /\ Live' = Live \cup {a}
    BY <1>4, LiveMoves
  <2> QED
    BY <2>1
<1> QED
  BY <1>2, <1>3, <1>4

LEMMA RegisterCounts ==
  ASSUME Types, NEW s \in Streams, Register(s)
  PROVE  CounterStep
<1> s \in Tasks
  BY DEF Tasks
<1>1. CASE CheckResources(s) \/ BadConfig(s) \/ ClearPaused(s) \/ ClearStopped(s)
  <2>1. UNCHANGED <<active, finished>>
    BY <1>1 DEF CheckResources, BadConfig, ClearPaused, ClearStopped, shared, local
  <2>2. PICK to \in Points : /\ pc' = [pc EXCEPT ![s] = to]
                             /\ pc[s] \in Away <=> to \in Away
    BY <1>1 DEF CheckResources, Refused, Admitted, BadConfig, ClearPaused,
                ClearStopped, Go, Points, Away
  <2>3. Live' = Live
    BY <2>2, QuietMoves
  <2> QED
    BY <2>1, <2>3 DEF CounterStep, NobodyMoves
<1>2. CASE RegisterCall(s) \/ RegisterSocket(s)
  <2>1. active' = active + 1 /\ UNCHANGED finished
    BY <1>2 DEF RegisterCall, RegisterSocket, local
  <2>2. PICK to \in Points : /\ pc' = [pc EXCEPT ![s] = to]
                             /\ pc[s] \in Away /\ to \notin Away
    BY <1>2 DEF RegisterCall, RegisterSocket, Go, Points, Away
  <2>3. s \notin Live /\ Live' = Live \cup {s}
    BY <2>2, LiveMoves
  <2> QED
    BY <2>1, <2>3 DEF CounterStep, Enters
<1> QED
  BY <1>1, <1>2 DEF Register

LEMMA TaskCounts ==
  ASSUME Types, NEW s \in Streams, TaskStep(s)
  PROVE  CounterStep
<1> s \in Tasks
  BY DEF Tasks
<1>1. CASE CreateFails(s) \/ Exit(s)
  <2>1. pc' = [pc EXCEPT ![s] = "ended"] /\ pc[s] \notin Away
    BY <1>1 DEF CreateFails, Exit, Go, Away
  <2>2. s \in Live /\ Live' = Live \ {s}
    BY <2>1, LiveMoves DEF Points, Away
  <2>3. \/ active' = active - 1 /\ finished' = finished \cup {<<s, "counted">>}
        \/ active' = active /\ finished' = finished \cup {<<s, "leaked">>}
    BY <1>1 DEF CreateFails, Exit
  <2> QED
    BY <2>2, <2>3 DEF CounterStep, Leaves, Leaks
<1>2. CASE SendEntry(s) \/ SendFails(s)
  BY <1>2 DEF SendEntry, SendFails, CounterStep, NobodyMoves, Live, shared
<1>3. CASE \/ Create(s) \/ TopStops(s) \/ TopGoesOn(s) \/ PauseSleeps(s)
           \/ PauseWakes(s) \/ PauseIsOver(s) \/ BeginLeaves(s) \/ SocketMessage(s)
           \/ Generate(s) \/ BatchDone(s)
  <2>1. UNCHANGED <<active, finished>>
    BY <1>3 DEF Create, TopStops, TopGoesOn, PauseSleeps, PauseWakes, PauseIsOver,
                BeginLeaves, SocketMessage, Generate, BatchDone, shared, local
  <2>2. PICK to \in Points : /\ pc' = [pc EXCEPT ![s] = to]
                             /\ pc[s] \notin Away /\ to \notin Away
    BY <1>3 DEF Create, TopStops, TopGoesOn, PauseSleeps, PauseWakes, PauseIsOver,
                BeginLeaves, SocketMessage, Generate, BatchDone, Go, Points, Away
  <2>3. Live' = Live
    BY <2>2, QuietMoves
  <2> QED
    BY <2>1, <2>3 DEF CounterStep, NobodyMoves
<1> QED
  BY <1>1, <1>2, <1>3 DEF TaskStep

LEMMA OthersCount ==
  ASSUME Types
  PROVE  /\ \A s \in Streams : Read(s) \/ HangUp(s) => CounterStep
         /\ \A b \in Bulks : BulkStep(b) => CounterStep
         /\ \A r \in Starters :
              StartClearsStopped(r) \/ StartClearsPaused(r) => CounterStep
         /\ Pause \/ Resume \/ Stop => CounterStep
         /\ UNCHANGED vars => CounterStep
<1>1. ASSUME UNCHANGED <<pc, active, finished>>
      PROVE  CounterStep
  BY <1>1 DEF CounterStep, NobodyMoves, Live
<1>2. ASSUME NEW b \in Bulks, BulkStep(b)
      PROVE  CounterStep
  <2>1. b \in Tasks /\ b \notin Streams
    BY ActorsAssumption DEF Tasks, Streams
  <2>2. UNCHANGED <<active, finished>>
    BY <1>2 DEF BulkStep, CheckResources, BadConfig, BulkRuns, BulkEnds, shared, local
  <2>3. PICK to \in Points : pc' = [pc EXCEPT ![b] = to]
    BY <1>2 DEF BulkStep, CheckResources, Refused, Admitted, BadConfig, BulkRuns,
                BulkEnds, Go, Points
  <2>4. Live' = Live
    BY <2>1, <2>3, QuietMoves
  <2> QED
    BY <2>2, <2>4 DEF CounterStep, NobodyMoves
<1>3. ASSUME NEW r \in Starters, StartClearsStopped(r) \/ StartClearsPaused(r)
      PROVE  CounterStep
  <2>1. r \in Tasks /\ r \notin Streams
    BY ActorsAssumption DEF Tasks, Streams
  <2>2. UNCHANGED <<active, finished>>
    BY <1>3 DEF StartClearsStopped, StartClearsPaused, local
  <2>3. PICK to \in Points : pc' = [pc EXCEPT ![r] = to]
    BY <1>3 DEF StartClearsStopped, StartClearsPaused, Go, Points
  <2>4. Live' = Live
    BY <2>1, <2>3, QuietMoves
  <2> QED
    BY <2>2, <2>4 DEF CounterStep, NobodyMoves
<1>4. ASSUME NEW s \in Streams, Read(s) \/ HangUp(s)
      PROVE  UNCHANGED <<pc, active, finished>>
  BY <1>4 DEF Read, HangUp, shared, local
<1>5. ASSUME Pause \/ Resume \/ Stop
      PROVE  UNCHANGED <<pc, active, finished>>
  BY <1>5 DEF Pause, Resume, Stop, local
<1>6. ASSUME UNCHANGED vars
      PROVE  UNCHANGED <<pc, active, finished>>
  BY <1>6 DEF vars, shared, local
<1> QED
  BY <1>1, <1>2, <1>3, <1>4, <1>5, <1>6

LEMMA EveryStepCounts ==
  ASSUME Types, [Next]_vars
  PROVE  CounterStep
BY RegisterCounts, TaskCounts, OthersCount DEF Next

-----------------------------------------------------------------------------
(* The accounts. *)

LEMMA FinishedInit == Init => FinishedHaveEnded
BY DEF Init, FinishedHaveEnded

LEMMA FinishedNext ==
  ASSUME Types, FinishedHaveEnded, [Next]_vars
  PROVE  FinishedHaveEnded'
<1>1. SUFFICES ASSUME NEW s \in Streams, NEW how \in {"counted", "leaked"},
                      <<s, how>> \in finished'
               PROVE  pc'[s] = "ended"
  BY DEF FinishedHaveEnded
<1>2. Types'
  BY TypesNext
<1>3. CASE <<s, how>> \in finished
  <2>1. pc[s] = "ended" /\ s \in Tasks
    BY <1>3 DEF FinishedHaveEnded, Tasks
  <2>2. CASE UNCHANGED pc
    BY <2>1, <2>2
  <2>3. ASSUME NEW a \in Tasks, NEW from \in Points \ {"ended"}, NEW to, Go(a, from, to)
        PROVE  pc'[s] = "ended"
    BY <2>1, <2>3 DEF Go, Types
  <2>4. \/ UNCHANGED pc
        \/ \E a \in Tasks, from \in Points \ {"ended"} : \E to \in Points : Go(a, from, to)
    <3>1. ASSUME NEW t \in Streams, Register(t)
          PROVE  \E from \in Points \ {"ended"} : \E to \in Points : Go(t, from, to)
      BY <3>1 DEF Register, CheckResources, Refused, Admitted, BadConfig, RegisterCall,
                  RegisterSocket, ClearPaused, ClearStopped, Points
    <3>2. ASSUME NEW t \in Streams, TaskStep(t)
          PROVE  \/ UNCHANGED pc
                 \/ \E from \in Points \ {"ended"} : \E to \in Points : Go(t, from, to)
      BY <3>2 DEF TaskStep, Create, CreateFails, TopStops, TopGoesOn, PauseSleeps,
                  PauseWakes, PauseIsOver, BeginLeaves, SocketMessage, Generate,
                  SendEntry, SendFails, BatchDone, Exit, Points
    <3>3. ASSUME NEW b \in Bulks, BulkStep(b)
          PROVE  \E from \in Points \ {"ended"} : \E to \in Points : Go(b, from, to)
      BY <3>3 DEF BulkStep, CheckResources, Refused, Admitted, BadConfig, BulkRuns,
                  BulkEnds, Points
    <3>4. ASSUME NEW r \in Starters, StartClearsStopped(r) \/ StartClearsPaused(r)
          PROVE  \E from \in Points \ {"ended"} : \E to \in Points : Go(r, from, to)
      BY <3>4 DEF StartClearsStopped, StartClearsPaused, Points
    <3>5. ASSUME \/ \E t \in Streams : Read(t) \/ HangUp(t)
                 \/ Pause \/ Resume \/ Stop \/ UNCHANGED vars
          PROVE  UNCHANGED pc
      BY <3>5 DEF Read, HangUp, Pause, Resume, Stop, vars
    <3>6. Streams \subseteq Tasks /\ Bulks \subseteq Tasks /\ Starters \subseteq Tasks
      BY DEF Tasks
    <3> QED
      BY <3>1, <3>2, <3>3, <3>4, <3>5, <3>6 DEF Next
  <2> QED
    BY <2>2, <2>3, <2>4
<1>4. CASE <<s, how>> \notin finished
  <2>1. PICK t \in Streams : CreateFails(t) \/ Exit(t)
    <3>1. ASSUME NEW t \in Streams, Register(t)
          PROVE  UNCHANGED finished
      BY <3>1 DEF Register, CheckResources, BadConfig, RegisterCall, RegisterSocket,
                  ClearPaused, ClearStopped, local
    <3>2. ASSUME NEW t \in Streams, TaskStep(t), ~CreateFails(t), ~Exit(t)
          PROVE  UNCHANGED finished
      BY <3>2 DEF TaskStep, Create, TopStops, TopGoesOn, PauseSleeps, PauseWakes,
                  PauseIsOver, BeginLeaves, SocketMessage, Generate, SendEntry,
                  SendFails, BatchDone, local
    <3>3. ASSUME NEW b \in Bulks, BulkStep(b)
          PROVE  UNCHANGED finished
      BY <3>3 DEF BulkStep, CheckResources, BadConfig, BulkRuns, BulkEnds, local
    <3>4. ASSUME \/ \E t \in Streams : Read(t) \/ HangUp(t)
                 \/ \E r \in Starters : StartClearsStopped(r) \/ StartClearsPaused(r)
                 \/ Pause \/ Resume \/ Stop \/ UNCHANGED vars
          PROVE  UNCHANGED finished
      BY <3>4 DEF Read, HangUp, StartClearsStopped, StartClearsPaused, Pause, Resume,
                  Stop, vars, local
    <3>5. ~(UNCHANGED finished)
      BY <1>1, <1>4
    <3> QED
      BY <3>1, <3>2, <3>3, <3>4, <3>5 DEF Next
  <2>2. s = t
    BY <1>1, <1>4, <2>1 DEF CreateFails, Exit
  <2> QED
    BY <2>1, <2>2 DEF CreateFails, Exit, Go, Types, Tasks
<1> QED
  BY <1>3, <1>4

LEMMA LiveAndLeakedAreFinite ==
  /\ IsFiniteSet(Live) /\ Cardinality(Live) \in Nat
  /\ IsFiniteSet(Leaked) /\ Cardinality(Leaked) \in Nat
<1>1. Live \in SUBSET Streams /\ Leaked \in SUBSET Streams
  BY DEF Live, Leaked
<1>2. IsFiniteSet(Streams)
  BY ActorsAssumption DEF Streams
<1> QED
  BY <1>1, <1>2, FS_Subset, FS_CardinalityType

LEMMA AccountsInit == Init => ActiveAccountsForStreams
<1> SUFFICES ASSUME Init PROVE ActiveAccountsForStreams
  OBVIOUS
<1>1. Live = {} /\ Leaked = {}
  BY DEF Init, Live, Leaked
<1> QED
  BY <1>1, FS_EmptySet DEF Init, ActiveAccountsForStreams

LEMMA AccountsNext ==
  ASSUME Types, FinishedHaveEnded, ActiveAccountsForStreams, [Next]_vars
  PROVE  ActiveAccountsForStreams'
<1> USE DEF ActiveAccountsForStreams
<1>1. active \in Int /\ active = Cardinality(Live) + Cardinality(Leaked)
  BY DEF Types
<1>2. ASSUME UNCHANGED finished
      PROVE  Leaked' = Leaked
  BY <1>2 DEF Leaked
<1>3. CASE NobodyMoves
  BY <1>2, <1>3 DEF NobodyMoves
<1>4. ASSUME NEW s \in Streams, Enters(s)
      PROVE  ActiveAccountsForStreams'
  <2>1. Cardinality(Live') = Cardinality(Live) + 1
    BY <1>4, LiveAndLeakedAreFinite, FS_AddElement DEF Enters
  <2> QED
    BY <1>1, <1>2, <1>4, <2>1, LiveAndLeakedAreFinite DEF Enters
<1>5. ASSUME NEW s \in Streams, Leaves(s)
      PROVE  ActiveAccountsForStreams'
  <2>1. Cardinality(Live') = Cardinality(Live) - 1
    BY <1>5, LiveAndLeakedAreFinite, FS_RemoveElement DEF Leaves
  <2>2. Leaked' = Leaked
    BY <1>5 DEF Leaves, Leaked
  <2> QED
    BY <1>1, <1>5, <2>1, <2>2, LiveAndLeakedAreFinite DEF Leaves
<1>6. ASSUME NEW s \in Streams, Leaks(s)
      PROVE  ActiveAccountsForStreams'
  <2>1. Cardinality(Live') = Cardinality(Live) - 1
    BY <1>6, LiveAndLeakedAreFinite, FS_RemoveElement DEF Leaks
  <2>2. s \notin Leaked
    BY <1>6 DEF Leaks, Live, Leaked, FinishedHaveEnded
  <2>3. Leaked' = Leaked \cup {s}
    BY <1>6 DEF Leaks, Leaked
  <2>4. Cardinality(Leaked') = Cardinality(Leaked) + 1
    BY <2>2, <2>3, LiveAndLeakedAreFinite, FS_AddElement
  <2> QED
    BY <1>1, <1>6, <2>1, <2>4, LiveAndLeakedAreFinite DEF Leaks
<1> QED
  BY <1>3, <1>4, <1>5, <1>6, EveryStepCounts DEF CounterStep

-----------------------------------------------------------------------------
(* Generations after a stop. *)

LEMMA WayOutInit == Init => OnTheWayOut
BY DEF Init, OnTheWayOut

(* What a step of one task may do to afterStop and to the flag, seen from  *)
(* any stream.                                                             *)
LEMMA WayOutOfTask ==
  ASSUME Types, OnTheWayOut, NEW t \in Streams, TaskStep(t), NEW s \in Streams,
         afterStop'[s] # 0
  PROVE  afterStop'[s] = 1 /\ stopped' /\ pc'[s] \in {"stream", "top", "exit", "ended"}
<1> s \in Tasks /\ t \in Tasks
  BY DEF Tasks
<1> USE DEF Go, Types, shared, local
<1>1. afterStop[s] # 0 =>
        afterStop[s] = 1 /\ stopped /\ pc[s] \in {"stream", "top", "exit", "ended"}
  BY DEF OnTheWayOut
<1>2. CASE Generate(t)
  <2>1. CASE s = t
    <3>1. afterStop[s] = 0
      BY <1>1, <1>2, <2>1 DEF Generate
    <3>2. stopped /\ afterStop'[s] = 1
      BY <1>2, <2>1, <3>1 DEF Generate
    <3> QED
      BY <1>2, <2>1, <3>2 DEF Generate
  <2>2. CASE s # t
    BY <1>1, <1>2, <2>2 DEF Generate
  <2> QED
    BY <2>1, <2>2
<1>3. CASE ~Generate(t)
  <2>1. UNCHANGED <<afterStop, stopped>>
    BY <1>3 DEF TaskStep, Create, CreateFails, TopStops, TopGoesOn, PauseSleeps,
                PauseWakes, PauseIsOver, BeginLeaves, SocketMessage, SendEntry,
                SendFails, BatchDone, Exit
  <2>2. afterStop[s] = 1 /\ stopped /\ pc[s] \in {"stream", "top", "exit", "ended"}
    BY <1>1, <2>1
  <2>3. CASE s # t
    <3>1. pc'[s] = pc[s]
      BY <2>3, <1>3 DEF TaskStep, Create, CreateFails, TopStops, TopGoesOn, PauseSleeps,
                PauseWakes, PauseIsOver, BeginLeaves, SocketMessage, SendEntry,
                SendFails, BatchDone, Exit
    <3> QED
      BY <2>1, <2>2, <3>1
  <2>4. CASE s = t
    <3>1. pc'[s] \in {"stream", "top", "exit", "ended"}
      BY <2>2, <2>4, <1>3 DEF TaskStep, Create, CreateFails, TopStops, TopGoesOn,
                PauseSleeps, PauseWakes, PauseIsOver, BeginLeaves, SocketMessage,
                SendEntry, SendFails, BatchDone, Exit
    <3> QED
      BY <2>1, <2>2, <3>1
  <2> QED
    BY <2>3, <2>4
<1> QED
  BY <1>2, <1>3

LEMMA WayOutOfRegister ==
  ASSUME Types, OnTheWayOut, NEW t \in Streams, Register(t)
  PROVE  OnTheWayOut'
<1> USE DEF Types, shared, local
<1>1. CASE ClearStopped(t)
  BY <1>1 DEF ClearStopped, StopCleared, OnTheWayOut
<1>2. CASE ~ClearStopped(t)
  <2>1. UNCHANGED <<afterStop, stopped>>
    BY <1>2 DEF Register, CheckResources, BadConfig, RegisterCall, RegisterSocket,
                ClearPaused
  <2>2. \A s \in Streams : pc[s] \in {"stream", "top", "exit", "ended"} => pc'[s] = pc[s]
    BY <1>2 DEF Register, CheckResources, Refused, Admitted, BadConfig, RegisterCall,
                RegisterSocket, ClearPaused, Go, Tasks
  <2> QED
    BY <2>1, <2>2 DEF OnTheWayOut
<1> QED
  BY <1>1, <1>2

LEMMA WayOutNext ==
  ASSUME Types, OnTheWayOut, [Next]_vars
  PROVE  OnTheWayOut'
<1> USE DEF shared, local
<1>1. ASSUME NEW t \in Streams, TaskStep(t)
      PROVE  OnTheWayOut'
  BY <1>1, WayOutOfTask DEF OnTheWayOut
<1>2. ASSUME NEW b \in Bulks, BulkStep(b)
      PROVE  OnTheWayOut'
  <2>1. UNCHANGED <<afterStop, stopped>>
    BY <1>2 DEF BulkStep, CheckResources, BadConfig, BulkRuns, BulkEnds
  <2>2. b \notin Streams
    BY ActorsAssumption DEF Streams
  <2>3. \A s \in Streams : pc'[s] = pc[s]
    BY <1>2, <2>2 DEF BulkStep, CheckResources, Refused, Admitted, BadConfig, BulkRuns,
                      BulkEnds, Go, Types, Tasks
  <2> QED
    BY <2>1, <2>3 DEF OnTheWayOut
<1>3. ASSUME NEW r \in Starters, StartClearsStopped(r)
      PROVE  OnTheWayOut'
  BY <1>3 DEF StartClearsStopped, StopCleared, OnTheWayOut
<1>4. ASSUME NEW r \in Starters, StartClearsPaused(r)
      PROVE  OnTheWayOut'
  <2>1. UNCHANGED <<afterStop, stopped>>
    BY <1>4 DEF StartClearsPaused
  <2>2. r \notin Streams
    BY ActorsAssumption DEF Streams
  <2>3. \A s \in Streams : pc'[s] = pc[s]
    BY <1>4, <2>2 DEF StartClearsPaused, Go, Types, Tasks
  <2> QED
    BY <2>1, <2>3 DEF OnTheWayOut
<1>5. CASE Stop
  BY <1>5 DEF Stop, OnTheWayOut
<1>6. CASE \/ \E s \in Streams : Read(s) \/ HangUp(s)
           \/ Pause \/ Resume \/ UNCHANGED vars
  BY <1>6 DEF Read, HangUp, Pause, Resume, vars, OnTheWayOut
<1> QED
  BY <1>1, <1>2, <1>3, <1>4, <1>5, <1>6, WayOutOfRegister DEF Next

-----------------------------------------------------------------------------

StreamInv == Types /\ FinishedHaveEnded /\ ActiveAccountsForStreams /\ OnTheWayOut

THEOREM StreamInvariant == Spec => []StreamInv
<1>1. Init => StreamInv
  BY TypesInit, FinishedInit, AccountsInit, WayOutInit DEF StreamInv
<1>2. StreamInv /\ [Next]_vars => StreamInv'
  BY TypesNext, FinishedNext, AccountsNext, WayOutNext DEF StreamInv
<1> QED
  BY <1>1, <1>2, PTL DEF Spec

(* A stream that leaked has ended: it is not among the live ones, so the   *)
(* counter never exceeds the number of streams.                            *)
LEMMA CounterIsBounded ==
  ASSUME StreamInv
  PROVE  active \in 0..Cardinality(Streams)
<1>1. IsFiniteSet(Streams)
  BY ActorsAssumption DEF Streams
<1>2. Live \cap Leaked = {}
  BY DEF StreamInv, FinishedHaveEnded, Live, Leaked
<1>3. Cardinality(Live \cup Leaked) = Cardinality(Live) + Cardinality(Leaked)
  BY <1>2, LiveAndLeakedAreFinite, FS_Union, FS_EmptySet
<1>4. Live \cup Leaked \in SUBSET Streams
  BY DEF Live, Leaked
<1>5. Cardinality(Live \cup Leaked) <= Cardinality(Streams)
  BY <1>1, <1>4, FS_Subset
<1>6. Cardinality(Streams) \in Nat
  BY <1>1, FS_CardinalityType
<1> QED
  BY <1>3, <1>5, <1>6, LiveAndLeakedAreFinite DEF StreamInv, ActiveAccountsForStreams

(* Every variable keeps its type for any streams, limits and commands.     *)
THEOREM StreamTypeCorrect == Spec => []TypeOK
<1>1. StreamInv => TypeOK
  <2> SUFFICES ASSUME StreamInv PROVE TypeOK
    OBVIOUS
  <2>1. active \in 0..Cardinality(Streams)
    BY CounterIsBounded
  <2> QED
    BY <2>1 DEF StreamInv, Types, TypeOK, Tasks, Points
<1> QED
  BY <1>1, StreamInvariant, PTL

(* active_streams is the number of live streams and of those whose         *)
(* orchestrator stream_data could not create: every other way through a    *)
(* task, whatever the interleaving, counts the stream once up and once     *)
(* down.                                                                   *)
THEOREM CounterAccountsForStreams == Spec => []ActiveAccountsForStreams
<1>1. StreamInv => ActiveAccountsForStreams
  BY DEF StreamInv
<1> QED
  BY <1>1, StreamInvariant, PTL

(* After a stop that nobody resets, a stream begins one generation at most *)
(* before it leaves its loop.                                              *)
THEOREM StopCostsOneBatch == Spec => []OneBatchAfterStop
<1>1. StreamInv => OneBatchAfterStop
  BY DEF StreamInv, OnTheWayOut, OneBatchAfterStop
<1> QED
  BY <1>1, StreamInvariant, PTL
=============================================================================
