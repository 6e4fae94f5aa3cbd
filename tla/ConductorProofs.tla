-------------------------- MODULE ConductorProofs ---------------------------
(***************************************************************************)
(* The safety of the turn loop and its detours, for any number of operators *)
(* and speakers, any set of reflexes and any capacity of the channel.       *)
(***************************************************************************)
EXTENDS Conductor, SequenceTheorems, TLAPS

\* The conductor has no turn, no coroutine and no token of a suspend controller
\* between two turns, and it has a turn and a coroutine during one.
BetweenTurns == {"loop", "gate", "plan", "start", "record", "settle", "returned"}
TurnPhase ==
  /\ mpc \in BetweenTurns => turnCtx = "none" /\ gpc = "none" /\ ~reqTok /\ ~resTok
  /\ mpc \notin BetweenTurns => turnCtx # "none"

\* A detour runs only while the conductor is waiting for it, and the cancel function
\* registered meanwhile is the dual one.
DetourPhase ==
  /\ det = "running" => mpc \in {"detouring", "joining"}
  /\ mpc \in {"detouring", "joining"} => turnCancel = "dual"

\* In a live turn a suspend request is pending only while the conductor waits for it,
\* a resume signal only until the parked routine takes it, and a conductor that runs
\* detours has a parked routine.
TokensOwned ==
  turnCtx = "live" =>
    /\ reqTok => gpc # "announce" /\ (mpc = "parking" \/ gpc = "done")
    /\ resTok => gpc = "parked" /\ mpc \notin Detouring
    /\ mpc \in Detouring => gpc = "parked"

IInv == TypeOK /\ TurnPhase /\ DetourPhase /\ TokensOwned /\ NoStrandedPark
        /\ FreezeReachesDetour

\* Every step keeps the types and the bound of the interrupts channel.
LEMMA TypeStep == TypeOK /\ Next => TypeOK'
<1> SUFFICES ASSUME TypeOK, Next PROVE TypeOK'
  OBVIOUS
<1> USE QueueCapAssumption, ReflexesAssumption DEF TypeOK, Tier, MainPc, Outcome, OpPc,
      turnVars, coroVars, suspendVars, queueVars, worldVars, opVars
<1>1. CASE Loop
  BY <1>1 DEF Loop
<1>2. CASE Gate
  BY <1>2 DEF Gate, GateOpen
<1>3. CASE Plan
  BY <1>3 DEF Plan
<1>4. CASE BeginTurn
  BY <1>4 DEF BeginTurn
<1>5. CASE TurnEnds
  BY <1>5 DEF TurnEnds, OutcomeOf
<1>6. CASE TakeInterrupt
  <2>1. Tail(interrupts) \in Seq(Tier) /\ Len(Tail(interrupts)) <= QueueCap
    BY <1>6, HeadTailProperties, EmptySeq DEF TakeInterrupt
  <2>2. Head(interrupts) \in Tier
    BY <1>6, HeadTailProperties, EmptySeq DEF TakeInterrupt
  <2>3. pending' \subseteq Speakers
    BY <1>6 DEF TakeInterrupt
  <2>4. batch' \subseteq Speakers \union Tier
    BY <1>6, <2>2 DEF TakeInterrupt
  <2>5. aborting' \in BOOLEAN
    BY <1>6 DEF TakeInterrupt
  <2>6. mpc' \in MainPc /\ turnCtx' \in {"none", "live", "cancelled", "deadline"}
    BY <1>6 DEF TakeInterrupt
  <2> QED BY <1>6, <2>1, <2>3, <2>4, <2>5, <2>6 DEF TakeInterrupt
<1>7. CASE RequestSuspend
  BY <1>7 DEF RequestSuspend
<1>8. CASE Parked
  BY <1>8 DEF Parked
<1>9. CASE SuspendFails
  BY <1>9 DEF SuspendFails
<1>10. CASE StartDetour
  BY <1>10 DEF StartDetour, FreezeSeen
<1>11. CASE DetourJoined
  BY <1>11 DEF DetourJoined
<1>12. CASE DetourCut
  BY <1>12 DEF DetourCut
<1>13. CASE JoinTimesOut
  BY <1>13 DEF JoinTimesOut, JoinBounded
<1>14. CASE EndDetour
  BY <1>14 DEF EndDetour
<1>15. CASE ResumeGrind
  BY <1>15 DEF ResumeGrind, ResumeSignal
<1>16. CASE AbortJoined
  BY <1>16 DEF AbortJoined
<1>17. CASE DrainQueue
  BY <1>17 DEF DrainQueue
<1>18. CASE DrainPending
  BY <1>18 DEF DrainPending
<1>19. CASE EndTurn
  <2>1. aborting' \in BOOLEAN /\ reqTok' \in BOOLEAN /\ resTok' \in BOOLEAN
    BY <1>19, Zenon DEF EndTurn, FreshController
  <2> QED BY <1>19, <2>1 DEF EndTurn, FreshController
<1>20. CASE Record
  BY <1>20 DEF Record
<1>21. CASE Settle
  BY <1>21 DEF Settle
<1>22. CASE Checkpoint
  <2>1. reqTok' \in BOOLEAN
    BY <1>22, Zenon DEF Checkpoint
  <2> QED BY <1>22, <2>1 DEF Checkpoint
<1>23. CASE ParkBroken
  BY <1>23 DEF ParkBroken, Over
<1>24. CASE Unpark
  <2>1. resTok' \in BOOLEAN
    BY <1>24, Zenon DEF Unpark
  <2> QED BY <1>24, <2>1 DEF Unpark
<1>25. CASE GrindExits
  BY <1>25 DEF GrindExits, Over
<1>26. CASE DetourExits
  BY <1>26 DEF DetourExits
<1>27. CASE TurnDeadline
  BY <1>27 DEF TurnDeadline
<1>28. CASE DetourTimeout
  BY <1>28 DEF DetourTimeout
<1>29. CASE Shutdown
  BY <1>29 DEF Shutdown
<1>30. CASE SurvivalFires
  BY <1>30 DEF SurvivalFires, Offer
<1>31. CASE SurvivalRecovers
  <2>1. inCrisis' \in BOOLEAN /\ served' \in BOOLEAN
    BY <1>31, Zenon DEF SurvivalRecovers
  <2> QED BY <1>31, <2>1 DEF SurvivalRecovers
<1>32. CASE FatigueFires
  BY <1>32 DEF FatigueFires, Offer
<1>33. CASE DisplacementFires
  BY <1>33 DEF DisplacementFires, Offer
<1>34. CASE CommittedChanges
  BY <1>34 DEF CommittedChanges
<1>35. ASSUME NEW p \in Speakers, Coalesce(p) PROVE TypeOK'
  BY <1>35 DEF Coalesce, Offer
<1>36. ASSUME NEW o \in Operators, EnterAnalysis(o) PROVE TypeOK'
  BY <1>36 DEF EnterAnalysis
<1>37. ASSUME NEW o \in Operators, ExitAnalysis(o) PROVE TypeOK'
  <2>1. active' \in BOOLEAN
    BY <1>37, Zenon DEF ExitAnalysis
  <2> QED BY <1>37, <2>1 DEF ExitAnalysis
<1>38. ASSUME NEW o \in Operators, Pause(o) PROVE TypeOK'
  BY <1>38 DEF Pause
<1>39. ASSUME NEW o \in Operators, PauseCancels(o) PROVE TypeOK'
  BY <1>39 DEF PauseCancels, CancelledDetour
<1>40. ASSUME NEW o \in Operators, Resume(o) PROVE TypeOK'
  <2>1. paused' \in BOOLEAN
    BY <1>40, Zenon DEF Resume
  <2> QED BY <1>40, <2>1 DEF Resume
<1>41. ASSUME NEW o \in Operators, ResumeDrains(o) PROVE TypeOK'
  <2>1. interrupts' \in Seq(Tier) /\ Len(interrupts') <= QueueCap
    <3>1. interrupts' = << >> \/ interrupts' = interrupts
      BY <1>41 DEF ResumeDrains
    <3>2. << >> \in Seq(Tier) /\ Len(<< >>) <= QueueCap
      BY EmptySeq
    <3> QED BY <3>1, <3>2
  <2>2. pending' \subseteq Speakers
    <3>1. pending' = {} \/ pending' = pending
      BY <1>41 DEF ResumeDrains
    <3> QED BY <3>1
  <2>3. opc' \in [Operators -> OpPc]
    BY <1>41 DEF ResumeDrains
  <2> QED BY <1>41, <2>1, <2>2, <2>3 DEF ResumeDrains
<1> QED BY <1>1, <1>2, <1>3, <1>4, <1>5, <1>6, <1>7, <1>8, <1>9, <1>10, <1>11, <1>12,
      <1>13, <1>14, <1>15, <1>16, <1>17, <1>18, <1>19, <1>20, <1>21, <1>22, <1>23,
      <1>24, <1>25, <1>26, <1>27, <1>28, <1>29, <1>30, <1>31, <1>32, <1>33, <1>34,
      <1>35, <1>36, <1>37, <1>38, <1>39, <1>40, <1>41
  DEF Next, MainStep, ParkStep, Timers, Arbiters, OperatorCall, OperatorStep

\* Every step keeps the turn's phases apart.
LEMMA TurnPhaseStep == TypeOK /\ TurnPhase /\ Next => TurnPhase'
<1> SUFFICES ASSUME TypeOK, TurnPhase, Next PROVE TurnPhase'
  OBVIOUS
<1> USE DEF TypeOK, MainPc, TurnPhase, BetweenTurns, turnVars, coroVars, suspendVars,
      queueVars, worldVars, opVars
<1>1. CASE Loop
  BY <1>1 DEF Loop
<1>2. CASE Gate
  BY <1>2 DEF Gate, GateOpen
<1>3. CASE Plan
  BY <1>3 DEF Plan
<1>4. CASE BeginTurn
  BY <1>4 DEF BeginTurn
<1>5. CASE TurnEnds
  BY <1>5 DEF TurnEnds, OutcomeOf
<1>6. CASE TakeInterrupt
  BY <1>6 DEF TakeInterrupt, ShouldDetour
<1>7. CASE RequestSuspend
  BY <1>7 DEF RequestSuspend
<1>8. CASE Parked
  BY <1>8 DEF Parked
<1>9. CASE SuspendFails
  BY <1>9 DEF SuspendFails
<1>10. CASE StartDetour
  BY <1>10 DEF StartDetour, FreezeSeen
<1>11. CASE DetourJoined
  BY <1>11 DEF DetourJoined
<1>12. CASE DetourCut
  BY <1>12 DEF DetourCut
<1>13. CASE JoinTimesOut
  BY <1>13 DEF JoinTimesOut, JoinBounded
<1>14. CASE EndDetour
  BY <1>14 DEF EndDetour
<1>15. CASE ResumeGrind
  BY <1>15 DEF ResumeGrind, ResumeSignal
<1>16. CASE AbortJoined
  BY <1>16 DEF AbortJoined
<1>17. CASE DrainQueue
  BY <1>17 DEF DrainQueue
<1>18. CASE DrainPending
  BY <1>18 DEF DrainPending
<1>19. CASE EndTurn
  BY <1>19 DEF EndTurn, FreshController
<1>20. CASE Record
  BY <1>20 DEF Record
<1>21. CASE Settle
  BY <1>21 DEF Settle
<1>22. CASE Checkpoint
  BY <1>22 DEF Checkpoint
<1>23. CASE ParkBroken
  BY <1>23 DEF ParkBroken, Over
<1>24. CASE Unpark
  BY <1>24 DEF Unpark
<1>25. CASE GrindExits
  BY <1>25 DEF GrindExits, Over
<1>26. CASE DetourExits
  BY <1>26 DEF DetourExits
<1>27. CASE TurnDeadline
  BY <1>27 DEF TurnDeadline
<1>28. CASE DetourTimeout
  BY <1>28 DEF DetourTimeout
<1>29. CASE Shutdown
  BY <1>29 DEF Shutdown
<1>30. CASE SurvivalFires
  BY <1>30 DEF SurvivalFires, Offer
<1>31. CASE SurvivalRecovers
  BY <1>31 DEF SurvivalRecovers
<1>32. CASE FatigueFires
  BY <1>32 DEF FatigueFires, Offer
<1>33. CASE DisplacementFires
  BY <1>33 DEF DisplacementFires, Offer
<1>34. CASE CommittedChanges
  BY <1>34 DEF CommittedChanges
<1>35. ASSUME NEW p \in Speakers, Coalesce(p) PROVE TurnPhase'
  BY <1>35 DEF Coalesce, Offer
<1>36. ASSUME NEW o \in Operators, EnterAnalysis(o) PROVE TurnPhase'
  BY <1>36 DEF EnterAnalysis
<1>37. ASSUME NEW o \in Operators, ExitAnalysis(o) PROVE TurnPhase'
  BY <1>37 DEF ExitAnalysis
<1>38. ASSUME NEW o \in Operators, Pause(o) PROVE TurnPhase'
  BY <1>38 DEF Pause
<1>39. ASSUME NEW o \in Operators, PauseCancels(o) PROVE TurnPhase'
  BY <1>39 DEF PauseCancels, CancelledDetour
<1>40. ASSUME NEW o \in Operators, Resume(o) PROVE TurnPhase'
  BY <1>40 DEF Resume
<1>41. ASSUME NEW o \in Operators, ResumeDrains(o) PROVE TurnPhase'
  BY <1>41 DEF ResumeDrains
<1> QED BY <1>1, <1>2, <1>3, <1>4, <1>5, <1>6, <1>7, <1>8, <1>9, <1>10, <1>11, <1>12,
      <1>13, <1>14, <1>15, <1>16, <1>17, <1>18, <1>19, <1>20, <1>21, <1>22, <1>23,
      <1>24, <1>25, <1>26, <1>27, <1>28, <1>29, <1>30, <1>31, <1>32, <1>33, <1>34,
      <1>35, <1>36, <1>37, <1>38, <1>39, <1>40, <1>41
  DEF Next, MainStep, ParkStep, Timers, Arbiters, OperatorCall, OperatorStep

\* Every step keeps a detour inside the conductor's wait for it.
LEMMA DetourPhaseStep == TypeOK /\ DetourPhase /\ Next => DetourPhase'
<1> SUFFICES ASSUME TypeOK, DetourPhase, Next PROVE DetourPhase'
  OBVIOUS
<1> USE DEF TypeOK, MainPc, DetourPhase, turnVars, coroVars, suspendVars, queueVars,
      worldVars, opVars
<1>1. CASE Loop
  BY <1>1 DEF Loop
<1>2. CASE Gate
  BY <1>2 DEF Gate, GateOpen
<1>3. CASE Plan
  BY <1>3 DEF Plan
<1>4. CASE BeginTurn
  BY <1>4 DEF BeginTurn
<1>5. CASE TurnEnds
  BY <1>5 DEF TurnEnds, OutcomeOf
<1>6. CASE TakeInterrupt
  BY <1>6 DEF TakeInterrupt, ShouldDetour
<1>7. CASE RequestSuspend
  BY <1>7 DEF RequestSuspend
<1>8. CASE Parked
  BY <1>8 DEF Parked
<1>9. CASE SuspendFails
  BY <1>9 DEF SuspendFails
<1>10. CASE StartDetour
  BY <1>10 DEF StartDetour, FreezeSeen
<1>11. CASE DetourJoined
  BY <1>11 DEF DetourJoined
<1>12. CASE DetourCut
  BY <1>12 DEF DetourCut
<1>13. CASE JoinTimesOut
  BY <1>13 DEF JoinTimesOut, JoinBounded
<1>14. CASE EndDetour
  BY <1>14 DEF EndDetour
<1>15. CASE ResumeGrind
  BY <1>15 DEF ResumeGrind, ResumeSignal
<1>16. CASE AbortJoined
  BY <1>16 DEF AbortJoined
<1>17. CASE DrainQueue
  BY <1>17 DEF DrainQueue
<1>18. CASE DrainPending
  BY <1>18 DEF DrainPending
<1>19. CASE EndTurn
  BY <1>19 DEF EndTurn, FreshController
<1>20. CASE Record
  BY <1>20 DEF Record
<1>21. CASE Settle
  BY <1>21 DEF Settle
<1>22. CASE Checkpoint
  BY <1>22 DEF Checkpoint
<1>23. CASE ParkBroken
  BY <1>23 DEF ParkBroken, Over
<1>24. CASE Unpark
  BY <1>24 DEF Unpark
<1>25. CASE GrindExits
  BY <1>25 DEF GrindExits, Over
<1>26. CASE DetourExits
  BY <1>26 DEF DetourExits
<1>27. CASE TurnDeadline
  BY <1>27 DEF TurnDeadline
<1>28. CASE DetourTimeout
  BY <1>28 DEF DetourTimeout
<1>29. CASE Shutdown
  BY <1>29 DEF Shutdown
<1>30. CASE SurvivalFires
  BY <1>30 DEF SurvivalFires, Offer
<1>31. CASE SurvivalRecovers
  BY <1>31 DEF SurvivalRecovers
<1>32. CASE FatigueFires
  BY <1>32 DEF FatigueFires, Offer
<1>33. CASE DisplacementFires
  BY <1>33 DEF DisplacementFires, Offer
<1>34. CASE CommittedChanges
  BY <1>34 DEF CommittedChanges
<1>35. ASSUME NEW p \in Speakers, Coalesce(p) PROVE DetourPhase'
  BY <1>35 DEF Coalesce, Offer
<1>36. ASSUME NEW o \in Operators, EnterAnalysis(o) PROVE DetourPhase'
  BY <1>36 DEF EnterAnalysis
<1>37. ASSUME NEW o \in Operators, ExitAnalysis(o) PROVE DetourPhase'
  BY <1>37 DEF ExitAnalysis
<1>38. ASSUME NEW o \in Operators, Pause(o) PROVE DetourPhase'
  BY <1>38 DEF Pause
<1>39. ASSUME NEW o \in Operators, PauseCancels(o) PROVE DetourPhase'
  BY <1>39 DEF PauseCancels, CancelledDetour
<1>40. ASSUME NEW o \in Operators, Resume(o) PROVE DetourPhase'
  BY <1>40 DEF Resume
<1>41. ASSUME NEW o \in Operators, ResumeDrains(o) PROVE DetourPhase'
  BY <1>41 DEF ResumeDrains
<1> QED BY <1>1, <1>2, <1>3, <1>4, <1>5, <1>6, <1>7, <1>8, <1>9, <1>10, <1>11, <1>12,
      <1>13, <1>14, <1>15, <1>16, <1>17, <1>18, <1>19, <1>20, <1>21, <1>22, <1>23,
      <1>24, <1>25, <1>26, <1>27, <1>28, <1>29, <1>30, <1>31, <1>32, <1>33, <1>34,
      <1>35, <1>36, <1>37, <1>38, <1>39, <1>40, <1>41
  DEF Next, MainStep, ParkStep, Timers, Arbiters, OperatorCall, OperatorStep

\* Every step keeps the tokens of the suspend controller where they belong.
LEMMA TokensStep == TypeOK /\ TurnPhase /\ TokensOwned /\ NoStrandedPark /\ Next => TokensOwned'
<1> SUFFICES ASSUME TypeOK, TurnPhase, TokensOwned, NoStrandedPark,
      Next PROVE TokensOwned'
  OBVIOUS
<1> USE DEF TypeOK, MainPc, TurnPhase, BetweenTurns, TokensOwned, NoStrandedPark,
      Detouring, Over, turnVars, coroVars, suspendVars, queueVars, worldVars, opVars
<1>1. CASE Loop
  BY <1>1 DEF Loop
<1>2. CASE Gate
  BY <1>2 DEF Gate, GateOpen
<1>3. CASE Plan
  BY <1>3 DEF Plan
<1>4. CASE BeginTurn
  BY <1>4 DEF BeginTurn
<1>5. CASE TurnEnds
  BY <1>5 DEF TurnEnds, OutcomeOf
<1>6. CASE TakeInterrupt
  BY <1>6 DEF TakeInterrupt, ShouldDetour
<1>7. CASE RequestSuspend
  BY <1>7 DEF RequestSuspend
<1>8. CASE Parked
  BY <1>8 DEF Parked
<1>9. CASE SuspendFails
  BY <1>9 DEF SuspendFails
<1>10. CASE StartDetour
  BY <1>10 DEF StartDetour, FreezeSeen
<1>11. CASE DetourJoined
  BY <1>11 DEF DetourJoined
<1>12. CASE DetourCut
  BY <1>12 DEF DetourCut
<1>13. CASE JoinTimesOut
  BY <1>13 DEF JoinTimesOut, JoinBounded
<1>14. CASE EndDetour
  BY <1>14 DEF EndDetour
<1>15. CASE ResumeGrind
  BY <1>15 DEF ResumeGrind, ResumeSignal
<1>16. CASE AbortJoined
  BY <1>16 DEF AbortJoined
<1>17. CASE DrainQueue
  BY <1>17 DEF DrainQueue
<1>18. CASE DrainPending
  BY <1>18 DEF DrainPending
<1>19. CASE EndTurn
  BY <1>19 DEF EndTurn, FreshController
<1>20. CASE Record
  BY <1>20 DEF Record
<1>21. CASE Settle
  BY <1>21 DEF Settle
<1>22. CASE Checkpoint
  BY <1>22 DEF Checkpoint
<1>23. CASE ParkBroken
  BY <1>23 DEF ParkBroken, Over
<1>24. CASE Unpark
  BY <1>24 DEF Unpark
<1>25. CASE GrindExits
  BY <1>25 DEF GrindExits, Over
<1>26. CASE DetourExits
  BY <1>26 DEF DetourExits
<1>27. CASE TurnDeadline
  BY <1>27 DEF TurnDeadline
<1>28. CASE DetourTimeout
  BY <1>28 DEF DetourTimeout
<1>29. CASE Shutdown
  BY <1>29 DEF Shutdown
<1>30. CASE SurvivalFires
  BY <1>30 DEF SurvivalFires, Offer
<1>31. CASE SurvivalRecovers
  BY <1>31 DEF SurvivalRecovers
<1>32. CASE FatigueFires
  BY <1>32 DEF FatigueFires, Offer
<1>33. CASE DisplacementFires
  BY <1>33 DEF DisplacementFires, Offer
<1>34. CASE CommittedChanges
  BY <1>34 DEF CommittedChanges
<1>35. ASSUME NEW p \in Speakers, Coalesce(p) PROVE TokensOwned'
  BY <1>35 DEF Coalesce, Offer
<1>36. ASSUME NEW o \in Operators, EnterAnalysis(o) PROVE TokensOwned'
  BY <1>36 DEF EnterAnalysis
<1>37. ASSUME NEW o \in Operators, ExitAnalysis(o) PROVE TokensOwned'
  BY <1>37 DEF ExitAnalysis
<1>38. ASSUME NEW o \in Operators, Pause(o) PROVE TokensOwned'
  BY <1>38 DEF Pause
<1>39. ASSUME NEW o \in Operators, PauseCancels(o) PROVE TokensOwned'
  BY <1>39 DEF PauseCancels, CancelledDetour
<1>40. ASSUME NEW o \in Operators, Resume(o) PROVE TokensOwned'
  BY <1>40 DEF Resume
<1>41. ASSUME NEW o \in Operators, ResumeDrains(o) PROVE TokensOwned'
  BY <1>41 DEF ResumeDrains
<1> QED BY <1>1, <1>2, <1>3, <1>4, <1>5, <1>6, <1>7, <1>8, <1>9, <1>10, <1>11, <1>12,
      <1>13, <1>14, <1>15, <1>16, <1>17, <1>18, <1>19, <1>20, <1>21, <1>22, <1>23,
      <1>24, <1>25, <1>26, <1>27, <1>28, <1>29, <1>30, <1>31, <1>32, <1>33, <1>34,
      <1>35, <1>36, <1>37, <1>38, <1>39, <1>40, <1>41
  DEF Next, MainStep, ParkStep, Timers, Arbiters, OperatorCall, OperatorStep

\* Every step keeps the conductor at the other end of the handshake.
LEMMA StrandedStep == TypeOK /\ TurnPhase /\ TokensOwned /\ NoStrandedPark /\ Next => NoStrandedPark'
<1> SUFFICES ASSUME TypeOK, TurnPhase, TokensOwned, NoStrandedPark,
      Next PROVE NoStrandedPark'
  OBVIOUS
<1> USE DEF TypeOK, MainPc, TurnPhase, BetweenTurns, TokensOwned, NoStrandedPark,
      Detouring, Over, turnVars, coroVars, suspendVars, queueVars, worldVars, opVars
<1>1. CASE Loop
  BY <1>1 DEF Loop
<1>2. CASE Gate
  BY <1>2 DEF Gate, GateOpen
<1>3. CASE Plan
  BY <1>3 DEF Plan
<1>4. CASE BeginTurn
  BY <1>4 DEF BeginTurn
<1>5. CASE TurnEnds
  BY <1>5 DEF TurnEnds, OutcomeOf
<1>6. CASE TakeInterrupt
  BY <1>6 DEF TakeInterrupt, ShouldDetour
<1>7. CASE RequestSuspend
  BY <1>7 DEF RequestSuspend
<1>8. CASE Parked
  BY <1>8 DEF Parked
<1>9. CASE SuspendFails
  BY <1>9 DEF SuspendFails
<1>10. CASE StartDetour
  BY <1>10 DEF StartDetour, FreezeSeen
<1>11. CASE DetourJoined
  BY <1>11 DEF DetourJoined
<1>12. CASE DetourCut
  BY <1>12 DEF DetourCut
<1>13. CASE JoinTimesOut
  BY <1>13 DEF JoinTimesOut, JoinBounded
<1>14. CASE EndDetour
  BY <1>14 DEF EndDetour
<1>15. CASE ResumeGrind
  BY <1>15 DEF ResumeGrind, ResumeSignal
<1>16. CASE AbortJoined
  BY <1>16 DEF AbortJoined
<1>17. CASE DrainQueue
  BY <1>17 DEF DrainQueue
<1>18. CASE DrainPending
  BY <1>18 DEF DrainPending
<1>19. CASE EndTurn
  BY <1>19 DEF EndTurn, FreshController
<1>20. CASE Record
  BY <1>20 DEF Record
<1>21. CASE Settle
  BY <1>21 DEF Settle
<1>22. CASE Checkpoint
  BY <1>22 DEF Checkpoint
<1>23. CASE ParkBroken
  BY <1>23 DEF ParkBroken, Over
<1>24. CASE Unpark
  BY <1>24 DEF Unpark
<1>25. CASE GrindExits
  BY <1>25 DEF GrindExits, Over
<1>26. CASE DetourExits
  BY <1>26 DEF DetourExits
<1>27. CASE TurnDeadline
  BY <1>27 DEF TurnDeadline
<1>28. CASE DetourTimeout
  BY <1>28 DEF DetourTimeout
<1>29. CASE Shutdown
  BY <1>29 DEF Shutdown
<1>30. CASE SurvivalFires
  BY <1>30 DEF SurvivalFires, Offer
<1>31. CASE SurvivalRecovers
  BY <1>31 DEF SurvivalRecovers
<1>32. CASE FatigueFires
  BY <1>32 DEF FatigueFires, Offer
<1>33. CASE DisplacementFires
  BY <1>33 DEF DisplacementFires, Offer
<1>34. CASE CommittedChanges
  BY <1>34 DEF CommittedChanges
<1>35. ASSUME NEW p \in Speakers, Coalesce(p) PROVE NoStrandedPark'
  BY <1>35 DEF Coalesce, Offer
<1>36. ASSUME NEW o \in Operators, EnterAnalysis(o) PROVE NoStrandedPark'
  BY <1>36 DEF EnterAnalysis
<1>37. ASSUME NEW o \in Operators, ExitAnalysis(o) PROVE NoStrandedPark'
  BY <1>37 DEF ExitAnalysis
<1>38. ASSUME NEW o \in Operators, Pause(o) PROVE NoStrandedPark'
  BY <1>38 DEF Pause
<1>39. ASSUME NEW o \in Operators, PauseCancels(o) PROVE NoStrandedPark'
  BY <1>39 DEF PauseCancels, CancelledDetour
<1>40. ASSUME NEW o \in Operators, Resume(o) PROVE NoStrandedPark'
  BY <1>40 DEF Resume
<1>41. ASSUME NEW o \in Operators, ResumeDrains(o) PROVE NoStrandedPark'
  BY <1>41 DEF ResumeDrains
<1> QED BY <1>1, <1>2, <1>3, <1>4, <1>5, <1>6, <1>7, <1>8, <1>9, <1>10, <1>11, <1>12,
      <1>13, <1>14, <1>15, <1>16, <1>17, <1>18, <1>19, <1>20, <1>21, <1>22, <1>23,
      <1>24, <1>25, <1>26, <1>27, <1>28, <1>29, <1>30, <1>31, <1>32, <1>33, <1>34,
      <1>35, <1>36, <1>37, <1>38, <1>39, <1>40, <1>41
  DEF Next, MainStep, ParkStep, Timers, Arbiters, OperatorCall, OperatorStep

\* Every step keeps the freeze contract.
LEMMA FreezeStep == TypeOK /\ DetourPhase /\ FreezeReachesDetour /\ Next => FreezeReachesDetour'
<1> SUFFICES ASSUME TypeOK, DetourPhase, FreezeReachesDetour,
      Next PROVE FreezeReachesDetour'
  OBVIOUS
<1> USE DEF TypeOK, MainPc, DetourPhase, FreezeReachesDetour, turnVars, coroVars,
      suspendVars, queueVars, worldVars, opVars
<1>1. CASE Loop
  BY <1>1 DEF Loop
<1>2. CASE Gate
  BY <1>2 DEF Gate, GateOpen
<1>3. CASE Plan
  BY <1>3 DEF Plan
<1>4. CASE BeginTurn
  BY <1>4 DEF BeginTurn
<1>5. CASE TurnEnds
  BY <1>5 DEF TurnEnds, OutcomeOf
<1>6. CASE TakeInterrupt
  BY <1>6 DEF TakeInterrupt, ShouldDetour
<1>7. CASE RequestSuspend
  BY <1>7 DEF RequestSuspend
<1>8. CASE Parked
  BY <1>8 DEF Parked
<1>9. CASE SuspendFails
  BY <1>9 DEF SuspendFails
<1>10. CASE StartDetour
  BY <1>10 DEF StartDetour, FreezeSeen
<1>11. CASE DetourJoined
  BY <1>11 DEF DetourJoined
<1>12. CASE DetourCut
  BY <1>12 DEF DetourCut
<1>13. CASE JoinTimesOut
  BY <1>13 DEF JoinTimesOut, JoinBounded
<1>14. CASE EndDetour
  BY <1>14 DEF EndDetour
<1>15. CASE ResumeGrind
  BY <1>15 DEF ResumeGrind, ResumeSignal
<1>16. CASE AbortJoined
  BY <1>16 DEF AbortJoined
<1>17. CASE DrainQueue
  BY <1>17 DEF DrainQueue
<1>18. CASE DrainPending
  BY <1>18 DEF DrainPending
<1>19. CASE EndTurn
  BY <1>19 DEF EndTurn, FreshController
<1>20. CASE Record
  BY <1>20 DEF Record
<1>21. CASE Settle
  BY <1>21 DEF Settle
<1>22. CASE Checkpoint
  BY <1>22 DEF Checkpoint
<1>23. CASE ParkBroken
  BY <1>23 DEF ParkBroken, Over
<1>24. CASE Unpark
  BY <1>24 DEF Unpark
<1>25. CASE GrindExits
  BY <1>25 DEF GrindExits, Over
<1>26. CASE DetourExits
  BY <1>26 DEF DetourExits
<1>27. CASE TurnDeadline
  BY <1>27 DEF TurnDeadline
<1>28. CASE DetourTimeout
  BY <1>28 DEF DetourTimeout
<1>29. CASE Shutdown
  BY <1>29 DEF Shutdown
<1>30. CASE SurvivalFires
  BY <1>30 DEF SurvivalFires, Offer
<1>31. CASE SurvivalRecovers
  BY <1>31 DEF SurvivalRecovers
<1>32. CASE FatigueFires
  BY <1>32 DEF FatigueFires, Offer
<1>33. CASE DisplacementFires
  BY <1>33 DEF DisplacementFires, Offer
<1>34. CASE CommittedChanges
  BY <1>34 DEF CommittedChanges
<1>35. ASSUME NEW p \in Speakers, Coalesce(p) PROVE FreezeReachesDetour'
  BY <1>35 DEF Coalesce, Offer
<1>36. ASSUME NEW o \in Operators, EnterAnalysis(o) PROVE FreezeReachesDetour'
  BY <1>36 DEF EnterAnalysis
<1>37. ASSUME NEW o \in Operators, ExitAnalysis(o) PROVE FreezeReachesDetour'
  BY <1>37 DEF ExitAnalysis
<1>38. ASSUME NEW o \in Operators, Pause(o) PROVE FreezeReachesDetour'
  BY <1>38 DEF Pause
<1>39. ASSUME NEW o \in Operators, PauseCancels(o) PROVE FreezeReachesDetour'
  BY <1>39 DEF PauseCancels, CancelledDetour
<1>40. ASSUME NEW o \in Operators, Resume(o) PROVE FreezeReachesDetour'
  BY <1>40 DEF Resume
<1>41. ASSUME NEW o \in Operators, ResumeDrains(o) PROVE FreezeReachesDetour'
  BY <1>41 DEF ResumeDrains
<1> QED BY <1>1, <1>2, <1>3, <1>4, <1>5, <1>6, <1>7, <1>8, <1>9, <1>10, <1>11, <1>12,
      <1>13, <1>14, <1>15, <1>16, <1>17, <1>18, <1>19, <1>20, <1>21, <1>22, <1>23,
      <1>24, <1>25, <1>26, <1>27, <1>28, <1>29, <1>30, <1>31, <1>32, <1>33, <1>34,
      <1>35, <1>36, <1>37, <1>38, <1>39, <1>40, <1>41
  DEF Next, MainStep, ParkStep, Timers, Arbiters, OperatorCall, OperatorStep

\* The strengthened invariant is inductive, so it holds in every reachable state.
THEOREM Invariance == Spec => []IInv
<1>1. Init => IInv
  <2> SUFFICES ASSUME Init PROVE IInv
    OBVIOUS
  <2> USE QueueCapAssumption DEF Init
  <2>1. TypeOK
    <3>1. /\ ctxDone \in BOOLEAN /\ paused \in BOOLEAN /\ aborting \in BOOLEAN
          /\ reqTok \in BOOLEAN /\ resTok \in BOOLEAN
          /\ committed \in BOOLEAN /\ inCrisis \in BOOLEAN /\ served \in BOOLEAN
          /\ active \in BOOLEAN
      BY Zenon
    <3>2. << >> \in Seq(Tier) /\ Len(<< >>) <= QueueCap
      BY EmptySeq
    <3> QED BY <3>1, <3>2 DEF TypeOK, Tier, MainPc, Outcome, OpPc
  <2>2. TurnPhase
    <3>1. mpc \in BetweenTurns
      BY DEF BetweenTurns
    <3> QED BY <3>1, Zenon DEF TurnPhase
  <2>3. DetourPhase /\ TokensOwned
    BY DEF DetourPhase, TokensOwned
  <2>4. NoStrandedPark /\ FreezeReachesDetour
    BY DEF NoStrandedPark, FreezeReachesDetour
  <2> QED BY <2>1, <2>2, <2>3, <2>4 DEF IInv
<1>2. IInv /\ [Next]_vars => IInv'
  <2> SUFFICES ASSUME IInv, [Next]_vars PROVE IInv'
    OBVIOUS
  <2>1. CASE Next
    BY <2>1, TypeStep, TurnPhaseStep, DetourPhaseStep, TokensStep, StrandedStep,
          FreezeStep DEF IInv
  <2>2. CASE UNCHANGED vars
    <3> USE <2>2 DEF IInv, vars, turnVars, coroVars, suspendVars, queueVars, worldVars,
          opVars
    <3>1. TypeOK'
      BY DEF TypeOK
    <3>2. TurnPhase' /\ DetourPhase'
      BY DEF TurnPhase, DetourPhase
    <3>3. TokensOwned' /\ NoStrandedPark'
      BY DEF TokensOwned, NoStrandedPark
    <3>4. FreezeReachesDetour'
      BY DEF FreezeReachesDetour
    <3> QED BY <3>1, <3>2, <3>3, <3>4
  <2> QED BY <2>1, <2>2
<1> QED BY <1>1, <1>2, PTL DEF Spec

\* Type correctness of the turn loop, with the bound of the interrupts channel.
THEOREM TypeCorrect == Spec => []TypeOK
<1>1. IInv => TypeOK
  BY DEF IInv
<1> QED BY <1>1, Invariance, PTL

\* While a detour runs the grind is parked, unless the turn is already dead.
THEOREM OneCoroutine == Spec => []SingleActive
<1>1. IInv => SingleActive
  <2> SUFFICES ASSUME IInv, det = "running", ~Over(turnCtx) PROVE gpc = "parked"
    BY DEF SingleActive
  <2>1. mpc \in Detouring /\ mpc \notin BetweenTurns
    BY DEF IInv, DetourPhase, Detouring, BetweenTurns
  <2>2. turnCtx = "live"
    BY <2>1 DEF IInv, TypeOK, TurnPhase, Over
  <2> QED BY <2>1, <2>2 DEF IInv, TokensOwned
<1> QED BY <1>1, Invariance, PTL

\* A Pause reaches a detour that runs, however it races runDetour's swap of the cancel
\* function.
THEOREM FreezeContract == Spec => []FreezeReachesDetour
<1>1. IInv => FreezeReachesDetour
  BY DEF IInv
<1> QED BY <1>1, Invariance, PTL

\* A parked routine of a live turn is never stranded.
THEOREM ParkIsReleased == Spec => []NoStrandedPark
<1>1. IInv => NoStrandedPark
  BY DEF IInv
<1> QED BY <1>1, Invariance, PTL

=============================================================================
