---------------------------- MODULE AvrTuiProofs ----------------------------
(***************************************************************************)
(* Proofs about avr_mcu_run and about the terminal interface, which runs   *)
(* the machine through it.  The run loop: types, the agreement of the loop *)
(* counter with the cycle counter across its wrap, the result it reports,  *)
(* and where it ends.  The interface: its screen, and what becomes of the  *)
(* demo whatever keys are pressed.                                         *)
(***************************************************************************)
EXTENDS AvrTui, MCRun, AvrMcuProofs

LEMMA DivMod ==
  ASSUME NEW a \in Nat, NEW m \in Nat \ {0}
  PROVE  /\ a % m \in Int /\ 0 <= a % m /\ a % m < m
         /\ a \div m \in Int
         /\ a = m * (a \div m) + (a % m)
<1>1. a % m \in Int /\ 0 <= a % m /\ a % m < m
  BY SMTT(10)
<1>2. a \div m \in Int
  BY SMTT(10)
<1>3. a = m * (a \div m) + (a % m)
  BY SMTT(10)
<1>. QED BY <1>1, <1>2, <1>3

\* The remainder is the only one there is.
LEMMA RemainderUnique ==
  ASSUME NEW n \in Nat, NEW m \in Nat \ {0}, NEW q \in Int, NEW r \in Int,
         0 <= r, r < m, n = m * q + r
  PROVE  n % m = r
BY SMTT(10)

LEMMA SmallRemainder ==
  ASSUME NEW n \in Nat, NEW m \in Nat \ {0}, n < m
  PROVE  n % m = n
BY SMTT(10)

\* Counting modulo m is counting and then reducing modulo m.
LEMMA CountModulo ==
  ASSUME NEW a \in Nat, NEW m \in Nat \ {0}
  PROVE  ((a % m) + 1) % m = (a + 1) % m
<1>. DEFINE q == a \div m
            r == a % m
<1>1. r \in Int /\ 0 <= r /\ r < m /\ q \in Int /\ a = m * q + r
  BY DivMod
<1>. HIDE DEF q, r
<1>2. CASE r + 1 < m
  <2>1. a + 1 = m * q + (r + 1)
    BY <1>1, SMTT(10)
  <2>2. (a + 1) % m = r + 1
    BY <1>1, <1>2, <2>1, RemainderUnique, SMTT(10)
  <2>3. (r + 1) % m = r + 1
    BY <1>1, <1>2, SmallRemainder, SMTT(10)
  <2>. QED BY <2>2, <2>3 DEF r
<1>3. CASE r + 1 = m
  <2>1. a + 1 = m * (q + 1) + 0
    BY <1>1, <1>3, SMTT(10)
  <2>2. (a + 1) % m = 0
    BY <1>1, <1>3, <2>1, RemainderUnique, SMTT(10)
  <2>3. (r + 1) % m = 0
    <3>1. m = m * 1 + 0
      BY SMTT(10)
    <3>. QED BY <1>3, <3>1, RemainderUnique, SMTT(10)
  <2>. QED BY <2>2, <2>3 DEF r
<1>. QED BY <1>1, <1>2, <1>3
-----------------------------------------------------------------------------
(***************************************************************************)
(* Types.                                                                  *)
(***************************************************************************)
LoopTypeOK ==
  /\ running \in BOOLEAN
  /\ executed \in Nat
  /\ max_cycles \in Nat
  /\ result \in [reason: StopReasons, cycles_executed: Nat]
  /\ entry_cycles \in 0..(CycleModulus - 1)

LEMMA RunTypeParts == RunTypeOK <=> TypeOK /\ LoopTypeOK
BY DEF RunTypeOK, LoopTypeOK

LEMMA FinishType ==
  ASSUME NEW reason \in StopReasons, NEW count \in Nat, Finish(reason, count)
  PROVE  LoopTypeOK'
<1>1. 0 \in 0..(CycleModulus - 1)
  BY CycleModulusAssumption
<1>2. [reason |-> reason, cycles_executed |-> count]
        \in [reason: StopReasons, cycles_executed: Nat]
  OBVIOUS
<1>. QED BY <1>1, <1>2 DEF Finish, LoopTypeOK

LEMMA IterateStep ==
  ASSUME Iterate
  PROVE  /\ Step
         /\ \/ /\ ret'
               /\ executed' = executed + 1
               /\ UNCHANGED <<running, max_cycles, result, entry_cycles>>
            \/ ~ret' /\ Finish("invalid_instruction", executed)
BY DEF Iterate

LEMMA RunStepTypeOK ==
  ASSUME RunTypeOK, [RunNext]_runvars
  PROVE  RunTypeOK'
<1>. SUFFICES TypeOK' /\ LoopTypeOK'
  BY DEF RunTypeOK, LoopTypeOK
<1>1. TypeOK /\ LoopTypeOK
  BY RunTypeParts
<1>2. ASSUME NEW limit \in HostLimits, StartRun(limit)
      PROVE  TypeOK' /\ LoopTypeOK'
  <2>1. TypeOK'
    BY <1>1, <1>2, StutterTypeOK DEF StartRun
  <2>2. LoopTypeOK'
    BY <1>1, <1>2, HostLimitsAssumption DEF StartRun, vars, LoopTypeOK, TypeOK
  <2>. QED BY <2>1, <2>2
<1>3. CASE StopAtLimit \/ StopAtBreakpoint
  <2>1. TypeOK'
    BY <1>1, <1>3, StutterTypeOK DEF StopAtLimit, StopAtBreakpoint
  <2>2. LoopTypeOK'
    BY <1>1, <1>3, FinishType
       DEF StopAtLimit, StopAtBreakpoint, StopReasons, LoopTypeOK
  <2>. QED BY <2>1, <2>2
<1>4. CASE Iterate
  <2>1. TypeOK'
    BY <1>1, <1>4, IterateStep, StepTypeOK
  <2>2. LoopTypeOK'
    BY <1>1, <1>4, IterateStep, FinishType DEF StopReasons, LoopTypeOK
  <2>. QED BY <2>1, <2>2
<1>5. CASE HostCall
  <2>1. TypeOK'
    BY <1>1, <1>5, NextTypeOK DEF HostCall
  <2>2. LoopTypeOK'
    BY <1>1, <1>5 DEF HostCall, loop, LoopTypeOK
  <2>. QED BY <2>1, <2>2
<1>6. CASE UNCHANGED runvars
  <2>1. TypeOK'
    BY <1>1, <1>6, StutterTypeOK DEF runvars
  <2>2. LoopTypeOK'
    BY <1>1, <1>6 DEF runvars, loop, LoopTypeOK
  <2>. QED BY <2>1, <2>2
<1>. QED BY <1>2, <1>3, <1>4, <1>5, <1>6 DEF RunNext, Loop

LEMMA RunInitTypeOK == RunInit => RunTypeOK
<1>. SUFFICES ASSUME RunInit PROVE TypeOK /\ LoopTypeOK
  BY RunTypeParts
<1>1. TypeOK
  BY InitTypeOK DEF RunInit
<1>2. 0 \in 0..(CycleModulus - 1)
  BY CycleModulusAssumption
<1>3. LoopTypeOK
  BY <1>2 DEF RunInit, LoopTypeOK, StopReasons
<1>. QED BY <1>1, <1>3

\* Type correctness of the run loop over the whole machine.
THEOREM RunTypeCorrect == RunSpec => []RunTypeOK
BY RunInitTypeOK, RunStepTypeOK, PTL DEF RunSpec
-----------------------------------------------------------------------------
(***************************************************************************)
(* The two counters.                                                       *)
(***************************************************************************)

\* avr_mcu_step counts exactly the steps that succeed.
LEMMA StepCounts ==
  ASSUME TypeOK, Step, ret'
  PROVE  cycle_count' = (cycle_count + 1) % CycleModulus
<1>1. ~FetchFails
  BY DEF FetchFails
<1>2. Retire
  BY <1>1 DEF Step
<1>. QED BY <1>2 DEF Retire

\* The loop counter of a run and the cycle counter of the machine, which the
\* code keeps separately, never drift apart, also when the latter wraps.
THEOREM CyclesCounted == RunSpec => []CountsEveryCycle
<1>1. RunInit => CountsEveryCycle
  BY DEF RunInit, CountsEveryCycle
<1>2. RunTypeOK /\ CountsEveryCycle /\ [RunNext]_runvars => CountsEveryCycle'
  <2>. SUFFICES ASSUME RunTypeOK, CountsEveryCycle, [RunNext]_runvars, running'
                PROVE  cycle_count' = (entry_cycles' + executed') % CycleModulus
    BY DEF CountsEveryCycle
  <2>1. /\ TypeOK
        /\ cycle_count \in Nat /\ cycle_count < CycleModulus
        /\ executed \in Nat
        /\ entry_cycles \in Nat
    BY CycleModulusAssumption DEF RunTypeOK, TypeOK
  <2>2. ASSUME NEW limit \in HostLimits, StartRun(limit)
        PROVE  cycle_count' = (entry_cycles' + executed') % CycleModulus
    <3>1. entry_cycles' = cycle_count /\ executed' = 0 /\ cycle_count' = cycle_count
      BY <2>2 DEF StartRun, vars
    <3>2. cycle_count % CycleModulus = cycle_count
      BY <2>1, SmallRemainder, CycleModulusAssumption
    <3>3. entry_cycles' + executed' = cycle_count
      BY <2>1, <3>1
    <3>. QED BY <3>1, <3>2, <3>3
  <2>3. CASE Iterate
    <3>1. /\ running
          /\ Step
          /\ ret'
          /\ executed' = executed + 1
          /\ entry_cycles' = entry_cycles
      BY <2>3, IterateStep DEF Iterate, Finish
    <3>2. cycle_count' = (cycle_count + 1) % CycleModulus
      BY <2>1, <3>1, StepCounts
    <3>3. cycle_count = (entry_cycles + executed) % CycleModulus
      BY <3>1 DEF CountsEveryCycle
    <3>4. entry_cycles + executed \in Nat
      BY <2>1
    <3>5. (((entry_cycles + executed) % CycleModulus) + 1) % CycleModulus
            = ((entry_cycles + executed) + 1) % CycleModulus
      BY <3>4, CountModulo, CycleModulusAssumption
    <3>6. (entry_cycles + executed) + 1 = entry_cycles' + executed'
      BY <2>1, <3>1
    <3>. QED BY <3>2, <3>3, <3>5, <3>6
  <2>4. CASE StopAtLimit \/ StopAtBreakpoint
    BY <2>4 DEF StopAtLimit, StopAtBreakpoint, Finish
  <2>5. CASE HostCall
    BY <2>5 DEF HostCall, loop
  <2>6. CASE UNCHANGED runvars
    BY <2>6 DEF runvars, vars, loop, CountsEveryCycle
  <2>. QED BY <2>2, <2>3, <2>4, <2>5, <2>6 DEF RunNext, Loop
<1>. QED BY <1>1, <1>2, RunTypeCorrect, PTL DEF RunSpec
-----------------------------------------------------------------------------
(***************************************************************************)
(* The result of a run.                                                    *)
(***************************************************************************)

\* The loop never counts past the limit: what makes max_cycles the number of
\* executed instructions when the limit is reported.
WithinLimit == running => executed <= max_cycles

LEMMA LimitKept ==
  ASSUME RunTypeOK, WithinLimit, [RunNext]_runvars
  PROVE  WithinLimit'
<1>1. executed \in Nat /\ max_cycles \in Nat
  BY DEF RunTypeOK
<1>2. ASSUME NEW limit \in HostLimits, StartRun(limit)
      PROVE  WithinLimit'
  BY <1>2, HostLimitsAssumption DEF StartRun, WithinLimit
<1>3. CASE Iterate
  <2>1. running /\ executed < max_cycles
    BY <1>3 DEF Iterate
  <2>. QED BY <1>1, <1>3, <2>1, IterateStep DEF WithinLimit, Finish
<1>4. CASE StopAtLimit \/ StopAtBreakpoint
  BY <1>4 DEF StopAtLimit, StopAtBreakpoint, Finish, WithinLimit
<1>5. CASE HostCall
  BY <1>5 DEF HostCall, loop, WithinLimit
<1>6. CASE UNCHANGED runvars
  BY <1>6 DEF runvars, loop, WithinLimit
<1>. QED BY <1>2, <1>3, <1>4, <1>5, <1>6 DEF RunNext, Loop

LEMMA LimitHolds == RunSpec => []WithinLimit
<1>1. RunInit => WithinLimit
  BY DEF RunInit, WithinLimit
<1>2. RunTypeOK /\ WithinLimit /\ [RunNext]_runvars => WithinLimit'
  BY LimitKept
<1>. QED BY <1>1, <1>2, RunTypeCorrect, PTL DEF RunSpec

\* Whether an instruction is accepted depends on the core alone.
LEMMA AcceptsStable ==
  ASSUME UNCHANGED core, NEW i, ~Accepts(i)
  PROVE  ~(Accepts(i)')
<1>1. registers' = registers /\ sp' = sp
  BY DEF core
<1>2. OperandsAccepted(i)' <=> OperandsAccepted(i)
  BY <1>1 DEF OperandsAccepted, XPointer
<1>3. StackAccepted(i)' <=> StackAccepted(i)
  BY <1>1 DEF StackAccepted
<1>. QED BY <1>2, <1>3 DEF Accepts

\* A step that fails leaves the program counter at the word that made it fail.
LEMMA FailedStepStays ==
  ASSUME TypeOK, Step, ~ret'
  PROVE  /\ UNCHANGED machine
         /\ CanFetch' => ~Accepts(Decode(flash[pc], CHOOSE g \in Garbage : TRUE))'
<1>. DEFINE out == CHOOSE g \in Garbage : TRUE
<1>1. CASE FetchFails
  <2>1. ~CanFetch /\ flash' = flash /\ pc' = pc /\ UNCHANGED machine
    BY <1>1 DEF FetchFails, machine, core
  <2>. QED BY <2>1 DEF CanFetch
<1>2. CASE Retire
  <2>1. PICK i \in {Decode(flash[pc], garbage) : garbage \in Garbage} : Execute(i)
    BY <1>2 DEF Retire
  <2>2. i \in Instruction
    BY <1>2, FetchedType DEF Retire
  <2>3. ret' = FALSE /\ ~Accepts(i)
    BY <2>1 DEF Execute
  <2>4. UNCHANGED core
    BY <2>1, <2>2, <2>3, FailedExecuteChangesNothing
  <2>5. cycle_count' = cycle_count /\ UNCHANGED <<flash, external_input, breakpoints>>
    BY <1>2 DEF Retire
  <2>6. SameOperands(i, Decode(flash[pc], out))
    BY GarbageNotRead
  <2>7. ~Accepts(Decode(flash[pc], out))
    BY <2>3, <2>6, SameAccepts
  <2>8. flash' = flash /\ pc' = pc
    BY <2>4, <2>5 DEF core
  <2>. DEFINE d == Decode(flash[pc], out)
  <2>9. ~(Accepts(d)')
    <3>1. d' = d
      BY <2>8
    <3>. QED BY <2>4, <2>7, <3>1, AcceptsStable
  <2>. QED BY <2>4, <2>5, <2>9 DEF machine
<1>. QED BY <1>1, <1>2 DEF Step

\* What avr_mcu_run reports is true of the machine it hands back.
THEOREM ResultsTrue == RunSpec => ResultIsTrue
<1>. DEFINE Truth ==
       /\ result'.reason = "cycle_limit" =>
            result'.cycles_executed = max_cycles
       /\ result'.reason = "breakpoint" =>
            /\ HasBreakpoint(pc)'
            /\ result'.cycles_executed \in 1..(max_cycles - 1)
       /\ result'.reason = "invalid_instruction" =>
            /\ result'.cycles_executed < max_cycles
            /\ CanFetch' => ~Accepts(Decode(flash[pc], CHOOSE g \in Garbage : TRUE))'
       /\ cycle_count' = (entry_cycles + result'.cycles_executed) % CycleModulus
<1>1. RunTypeOK /\ CountsEveryCycle /\ WithinLimit /\ [RunNext]_runvars =>
        [(running /\ ~running') => Truth]_runvars
  <2>. SUFFICES ASSUME RunTypeOK, CountsEveryCycle, WithinLimit, RunNext,
                       running, ~running'
                PROVE  Truth
    OBVIOUS
  <2>1. /\ TypeOK
        /\ executed \in Nat /\ max_cycles \in Nat
        /\ executed <= max_cycles
        /\ cycle_count = (entry_cycles + executed) % CycleModulus
    BY DEF RunTypeOK, CountsEveryCycle, WithinLimit
  <2>2. CASE StopAtLimit
    <3>1. executed = max_cycles
      BY <2>1, <2>2 DEF StopAtLimit
    <3>2. result' = [reason |-> "cycle_limit", cycles_executed |-> max_cycles]
      BY <2>2 DEF StopAtLimit, Finish
    <3>3. cycle_count' = cycle_count
      BY <2>2 DEF StopAtLimit, vars
    <3>. QED BY <2>1, <3>1, <3>2, <3>3
  <2>3. CASE StopAtBreakpoint
    <3>1. executed \in 1..(max_cycles - 1) /\ HasBreakpoint(pc)
      BY <2>1, <2>3 DEF StopAtBreakpoint, AtBreakpoint
    <3>2. result' = [reason |-> "breakpoint", cycles_executed |-> executed]
      BY <2>3 DEF StopAtBreakpoint, Finish
    <3>3. cycle_count' = cycle_count /\ pc' = pc /\ breakpoints' = breakpoints
      BY <2>3 DEF StopAtBreakpoint, vars
    <3>4. HasBreakpoint(pc)'
      BY <3>1, <3>3 DEF HasBreakpoint
    <3>. QED BY <2>1, <3>1, <3>2, <3>3, <3>4
  <2>4. CASE Iterate
    <3>1. Step /\ ~ret' /\ Finish("invalid_instruction", executed)
      BY <2>4, IterateStep
    <3>2. executed < max_cycles
      BY <2>4 DEF Iterate
    <3>3. result' = [reason |-> "invalid_instruction", cycles_executed |-> executed]
      BY <3>1 DEF Finish
    <3>4. /\ cycle_count' = cycle_count
          /\ CanFetch' => ~Accepts(Decode(flash[pc], CHOOSE g \in Garbage : TRUE))'
      BY <2>1, <3>1, FailedStepStays DEF machine
    <3>. QED BY <2>1, <3>2, <3>3, <3>4
  <2>5. CASE HostCall \/ \E limit \in HostLimits : StartRun(limit)
    BY <2>5 DEF HostCall, StartRun
  <2>. QED BY <2>2, <2>3, <2>4, <2>5 DEF RunNext, Loop
<1>. QED BY <1>1, RunTypeCorrect, CyclesCounted, LimitHolds, PTL DEF RunSpec, ResultIsTrue
-----------------------------------------------------------------------------
(***************************************************************************)
(* The end of a run.                                                       *)
(***************************************************************************)

\* Half way through a call: the trail has one pc for each counted instruction,
\* and none behind the first is a breakpoint.
TrailInv ==
  running => /\ trail \in Seq(Word)
             /\ Len(trail) = executed
             /\ \A k \in 1..(executed - 1) : ~HasBreakpoint(trail[k + 1])

\* A step that does not end a call in progress is an iteration.
LEMMA OnlyIterateGoesOn ==
  ASSUME RunTypeOK, RunNext, running, running'
  PROVE  /\ Iterate
         /\ ret'
         /\ executed' = executed + 1
         /\ UNCHANGED <<max_cycles, breakpoints>>
<1>1. Iterate
  BY DEF RunNext, Loop, StartRun, HostCall, StopAtLimit, StopAtBreakpoint, Finish
<1>2. ret' /\ executed' = executed + 1 /\ max_cycles' = max_cycles
  BY <1>1 DEF Iterate, Finish
<1>3. breakpoints' = breakpoints
  BY <1>1, <1>2 DEF Iterate, Step, FetchFails, Retire
<1>. QED BY <1>1, <1>2, <1>3

LEMMA TrailKept ==
  ASSUME RunTypeOK, WithinLimit, TrailInv, [RunNext /\ TrailNext]_trailvars
  PROVE  TrailInv'
<1>. SUFFICES ASSUME running'
              PROVE  /\ trail' \in Seq(Word)
                     /\ Len(trail') = executed'
                     /\ \A k \in 1..(executed' - 1) : ~(HasBreakpoint(trail[k + 1])')
  BY DEF TrailInv
<1>1. CASE UNCHANGED trailvars
  BY <1>1 DEF trailvars, runvars, vars, loop, TrailInv, HasBreakpoint
<1>2. CASE RunNext /\ TrailNext /\ ~running
  <2>1. executed' = 0
    BY <1>2 DEF RunNext, Loop, Iterate, StopAtLimit, StopAtBreakpoint, StartRun,
                HostCall, loop
  <2>2. trail' = <<>>
    BY <1>2 DEF TrailNext
  <2>. QED BY <2>1, <2>2
<1>3. CASE RunNext /\ TrailNext /\ running
  <2>1. /\ Iterate
        /\ executed' = executed + 1
        /\ breakpoints' = breakpoints
    BY <1>3, OnlyIterateGoesOn
  <2>2. /\ trail \in Seq(Word) /\ Len(trail) = executed
        /\ \A k \in 1..(executed - 1) : ~HasBreakpoint(trail[k + 1])
    BY <1>3 DEF TrailInv
  <2>3. /\ executed \in Nat /\ max_cycles \in Nat /\ executed <= max_cycles
        /\ pc \in Word
    BY <1>3 DEF RunTypeOK, TypeOK, WithinLimit
  <2>4. trail' = Append(trail, pc)
    BY <1>3, <2>2, <2>3 DEF TrailNext
  <2>5. executed > 0 => ~HasBreakpoint(pc)
    BY <2>1, <2>3 DEF Iterate, AtBreakpoint
  <2>6. trail' \in Seq(Word) /\ Len(trail') = executed'
    BY <2>1, <2>2, <2>3, <2>4
  <2>7. ASSUME NEW k \in 1..(executed' - 1)
        PROVE  ~(HasBreakpoint(trail[k + 1])')
    <3>1. k \in Nat /\ 1 <= k /\ k <= executed
      BY <2>1, <2>3
    <3>2. CASE k < executed
      <4>1. trail'[k + 1] = trail[k + 1]
        BY <2>2, <2>3, <2>4, <3>1, <3>2
      <4>2. k \in 1..(executed - 1)
        BY <2>3, <3>1, <3>2
      <4>. QED BY <2>1, <2>2, <4>1, <4>2 DEF HasBreakpoint
    <3>3. CASE k = executed
      <4>1. trail'[k + 1] = pc /\ executed > 0
        BY <2>2, <2>3, <2>4, <3>1, <3>3
      <4>. QED BY <2>1, <2>5, <4>1 DEF HasBreakpoint
    <3>. QED BY <2>3, <3>1, <3>2, <3>3
  <2>. QED BY <2>6, <2>7
<1>. QED BY <1>1, <1>2, <1>3

LEMMA TrailHolds == TrailSpec => [](RunTypeOK /\ WithinLimit /\ TrailInv)
<1>1. TrailInit => RunTypeOK /\ WithinLimit /\ TrailInv
  <2>. SUFFICES ASSUME TrailInit PROVE RunTypeOK /\ WithinLimit /\ TrailInv
    OBVIOUS
  <2>1. RunTypeOK
    BY RunInitTypeOK DEF TrailInit
  <2>. QED BY <2>1 DEF TrailInit, RunInit, WithinLimit, TrailInv
<1>2. RunTypeOK /\ WithinLimit /\ TrailInv /\ [RunNext /\ TrailNext]_trailvars =>
        RunTypeOK' /\ WithinLimit' /\ TrailInv'
  <2>. SUFFICES ASSUME RunTypeOK, WithinLimit, TrailInv, [RunNext /\ TrailNext]_trailvars
                PROVE  RunTypeOK' /\ WithinLimit' /\ TrailInv'
    OBVIOUS
  <2>1. [RunNext]_runvars
    BY DEF trailvars
  <2>. QED BY <2>1, RunStepTypeOK, LimitKept, TrailKept
<1>. QED BY <1>1, <1>2, PTL DEF TrailSpec

\* Whatever program runs, under whatever breakpoints and limit, a call of
\* avr_mcu_run ends at the first of its three reasons and says which.
THEOREM RunsEndAtTheFirstReason == TrailSpec => EndsAtTheFirstReason
<1>. DEFINE n == Len(trail)
            Truth ==
              /\ result'.cycles_executed = n
              /\ n <= max_cycles
              /\ \A k \in 1..(n - 1) : ~CameToBreakpoint(k)
              /\ result'.reason =
                   CASE n = max_cycles -> "cycle_limit"
                     [] n # max_cycles /\ n > 0 /\ CameToBreakpoint(n) -> "breakpoint"
                     [] OTHER -> "invalid_instruction"
<1>1. RunTypeOK /\ WithinLimit /\ TrailInv /\ [RunNext /\ TrailNext]_trailvars =>
        [(running /\ ~running') => Truth]_trailvars
  <2>. SUFFICES ASSUME RunTypeOK, WithinLimit, TrailInv, RunNext, running, ~running'
                PROVE  Truth
    OBVIOUS
  <2>1. /\ n = executed /\ executed \in Nat /\ max_cycles \in Nat
        /\ executed <= max_cycles
        /\ \A k \in 1..(n - 1) : ~HasBreakpoint(trail[k + 1])
    BY DEF RunTypeOK, WithinLimit, TrailInv
  <2>. HIDE DEF n
  <2>2. \A k \in 1..(n - 1) : ~CameToBreakpoint(k)
    BY <2>1 DEF CameToBreakpoint, n
  <2>3. CameToBreakpoint(n) <=> HasBreakpoint(pc)
    BY <2>1 DEF CameToBreakpoint, n
  <2>4. CASE StopAtLimit
    <3>1. n = max_cycles
      BY <2>1, <2>4 DEF StopAtLimit
    <3>2. result' = [reason |-> "cycle_limit", cycles_executed |-> max_cycles]
      BY <2>4 DEF StopAtLimit, Finish
    <3>. QED BY <2>1, <2>2, <3>1, <3>2
  <2>5. CASE StopAtBreakpoint
    <3>1. n # max_cycles /\ n > 0 /\ HasBreakpoint(pc)
      BY <2>1, <2>5 DEF StopAtBreakpoint, AtBreakpoint
    <3>2. result' = [reason |-> "breakpoint", cycles_executed |-> n]
      BY <2>1, <2>5 DEF StopAtBreakpoint, Finish
    <3>. QED BY <2>1, <2>2, <2>3, <3>1, <3>2
  <2>6. CASE Iterate
    <3>1. n # max_cycles /\ ~(n > 0 /\ HasBreakpoint(pc))
      BY <2>1, <2>6 DEF Iterate, AtBreakpoint
    <3>2. result' = [reason |-> "invalid_instruction", cycles_executed |-> n]
      BY <2>1, <2>6, IterateStep DEF Finish
    <3>. QED BY <2>1, <2>2, <2>3, <3>1, <3>2
  <2>7. CASE HostCall \/ \E limit \in HostLimits : StartRun(limit)
    BY <2>7 DEF HostCall, StartRun, loop
  <2>. QED BY <2>4, <2>5, <2>6, <2>7 DEF RunNext, Loop
<1>. QED BY <1>1, TrailHolds, PTL DEF TrailSpec, EndsAtTheFirstReason

-----------------------------------------------------------------------------
(***************************************************************************)
(* The terminal interface.                                                 *)
(***************************************************************************)
\* What holds between any two steps of the interface, the inside of a batch
\* included.  ScreenIsCurrent has to hold where a key sends the loop as well as
\* where the keys are read; a batch that has ended did not end on an invalid
\* instruction, because the machine is in the demo.
TuiInv ==
  /\ RunTypeOK
  /\ DemoState
  /\ at # "load" => DemoLoaded
  /\ at \in {"top", "key"} => snapshot = Snapshot
  /\ (at = "batch" /\ ~running) => result.reason # "invalid_instruction"
  /\ status # "invalid"

LEMMA StartRunTypeOK ==
  ASSUME RunTypeOK, NEW limit \in Nat, StartRun(limit)
  PROVE  RunTypeOK'
<1>1. TypeOK /\ LoopTypeOK
  BY RunTypeParts
<1>2. TypeOK'
  BY <1>1, StutterTypeOK DEF StartRun
<1>3. LoopTypeOK'
  BY <1>1 DEF StartRun, vars, LoopTypeOK, TypeOK
<1>. QED BY <1>2, <1>3 DEF RunTypeOK, LoopTypeOK

LEMMA LoopKeptTypeOK ==
  ASSUME RunTypeOK, TypeOK', UNCHANGED loop
  PROVE  RunTypeOK'
BY DEF RunTypeOK, loop

\* The bits an input key writes: those on the screen with one flipped.
LEMMA FlippedInput ==
  ASSUME TypeOK, snapshot = Snapshot, NEW bit \in Bit
  PROVE  /\ snapshot.external_input = external_input
         /\ (IF bit \in snapshot.external_input THEN snapshot.external_input \ {bit}
             ELSE snapshot.external_input \cup {bit}) \in SUBSET Bit
BY DEF TypeOK, Snapshot

\* Every step of the loop and every key keeps the invariant, and moves the pins
\* as AvrMirror allows.
LEMMA TuiStep ==
  ASSUME TuiInv, TuiNext
  PROVE  TuiInv' /\ MirrorStep
<1>. USE TuiAssumption
<1>0. /\ RunTypeOK /\ TypeOK /\ DemoState /\ DemoFits
      /\ status # "invalid"
  BY DEF TuiInv, RunTypeOK
<1>s. ASSUME UNCHANGED <<vars, loop>>
      PROVE  RunTypeOK' /\ DemoState' /\ (DemoLoaded => DemoLoaded') /\ MirrorStep
  <2>1. UNCHANGED core /\ UNCHANGED flash /\ UNCHANGED vars
    BY <1>s DEF vars, core
  <2>2. RunTypeOK'
    BY <1>0, <1>s, <2>1, StutterTypeOK, LoopKeptTypeOK
  <2>3. DemoLoaded => DemoLoaded'
    BY <2>1 DEF DemoLoaded
  <2>. QED BY <1>0, <2>1, <2>2, <2>3, DemoStutters, InputMirrors
<1>t. ASSUME DemoLoaded, Step
      PROVE  TypeOK' /\ DemoState' /\ DemoLoaded' /\ MirrorStep /\ ret' = TRUE
  BY <1>0, <1>t, StepTypeOK, DemoStateKept, StepMirrors
<1>a. CASE LoadDemo
  <2>1. LoadDemoProgram /\ UNCHANGED loop
    BY <1>a DEF LoadDemo
  <2>2. TypeOK' /\ DemoLoaded' /\ UNCHANGED core
    BY <1>0, <2>1, LoadDemoKept
  <2>3. RunTypeOK' /\ DemoState' /\ MirrorStep
    BY <1>0, <2>1, <2>2, LoopKeptTypeOK, DemoStutters, InputMirrors
  <2>. QED BY <1>0, <1>a, <2>2, <2>3 DEF LoadDemo, RefreshSnapshot, TuiInv
<1>b. CASE BeginIteration
  <2>0. at = "top" /\ DemoLoaded /\ snapshot = Snapshot
    BY <1>b DEF BeginIteration, TuiInv
  <2>1. CASE tui_running
    <3>1. StartRun(1) /\ at' = "batch" /\ UNCHANGED <<snapshot, status>>
      BY <1>b, <2>1 DEF BeginIteration, TUI_RUN_BATCH_SIZE
    <3>2. RunTypeOK'
      BY <1>0, <3>1, StartRunTypeOK
    <3>3. UNCHANGED core /\ flash' = flash /\ running'
      BY <3>1 DEF StartRun, vars, core
    <3>4. DemoState' /\ DemoLoaded' /\ MirrorStep
      BY <1>0, <2>0, <3>3, DemoStutters, InputMirrors DEF DemoLoaded
    <3>. QED BY <1>0, <3>1, <3>2, <3>3, <3>4 DEF TuiInv
  <2>2. CASE ~tui_running
    <3>1. UNCHANGED <<vars, loop>> /\ at' = "key" /\ UNCHANGED <<snapshot, status>>
      BY <1>b, <2>2 DEF BeginIteration, runvars
    <3>2. Snapshot' = Snapshot
      BY <3>1 DEF vars, Snapshot, CanFetch, HasBreakpoint, Pins
    <3>. QED BY <1>0, <1>s, <2>0, <3>1, <3>2 DEF TuiInv
  <2>. QED BY <2>1, <2>2
<1>c. CASE Batch
  <2>0. at = "batch" /\ at' = "batch" /\ DemoLoaded /\ UNCHANGED <<snapshot, status>> /\ Loop
    BY <1>c DEF Batch, TuiInv
  <2>1. RunTypeOK'
    BY <1>0, <2>0, RunStepTypeOK DEF RunNext
  <2>2. CASE Iterate
    <3>1. Step /\ (ret' => UNCHANGED running) /\ running
      BY <2>2 DEF Iterate
    <3>2. running' = running
      BY <1>t, <2>0, <3>1
    <3>. QED BY <1>0, <1>t, <2>0, <2>1, <3>1, <3>2 DEF TuiInv
  <2>3. CASE StopAtLimit \/ StopAtBreakpoint
    <3>1. UNCHANGED vars /\ result'.reason # "invalid_instruction"
      BY <2>3 DEF StopAtLimit, StopAtBreakpoint, Finish
    <3>2. UNCHANGED core /\ flash' = flash
      BY <3>1 DEF vars, core
    <3>3. DemoState' /\ DemoLoaded' /\ MirrorStep
      BY <1>0, <2>0, <3>2, DemoStutters, InputMirrors DEF DemoLoaded
    <3>. QED BY <1>0, <2>0, <2>1, <3>1, <3>3 DEF TuiInv
  <2>. QED BY <2>0, <2>2, <2>3 DEF Loop
<1>d. CASE EndBatch
  <2>0. /\ at = "batch" /\ DemoLoaded /\ UNCHANGED <<vars, loop>> /\ at' = "key"
        /\ snapshot' = Snapshot'
        /\ status' = StoppedBy[result.reason]
        /\ result.reason # "invalid_instruction"
    BY <1>d DEF EndBatch, RefreshSnapshot, TuiInv, runvars
  <2>1. result.reason \in {"cycle_limit", "breakpoint"}
    BY <1>0, <2>0 DEF RunTypeOK, StopReasons
  <2>2. status' # "invalid"
    BY <1>0, <2>0, <2>1 DEF StoppedBy
  <2>. QED BY <1>s, <2>0, <2>2 DEF TuiInv
<1>e. CASE NoKey \/ QuitKey \/ RunKey
  <2>0. /\ at = "key" /\ DemoLoaded /\ snapshot = Snapshot
        /\ UNCHANGED <<vars, loop, snapshot>>
        /\ at' \in {"top", "end"} /\ status' # "invalid"
    BY <1>0, <1>e DEF NoKey, QuitKey, RunKey, runvars, TuiInv
  <2>1. Snapshot' = Snapshot
    BY <2>0 DEF vars, Snapshot, CanFetch, HasBreakpoint, Pins
  <2>. QED BY <1>s, <2>0, <2>1 DEF TuiInv
<1>f. CASE StepKey
  <2>0. /\ DemoLoaded /\ Step /\ UNCHANGED loop /\ at' = "top"
        /\ snapshot' = Snapshot'
        /\ status' = IF ret' THEN "stepped" ELSE "invalid"
    BY <1>f DEF StepKey, RefreshSnapshot, TuiInv
  <2>1. RunTypeOK' /\ status' # "invalid"
    BY <1>0, <1>t, <2>0, LoopKeptTypeOK
  <2>. QED BY <1>t, <2>0, <2>1 DEF TuiInv
<1>g. CASE ResetKey
  <2>0. Reset /\ UNCHANGED loop /\ at' = "load" /\ status' = "reset"
    BY <1>g DEF ResetKey
  <2>1. RunTypeOK'
    BY <1>0, <2>0, ResetTypeOK, LoopKeptTypeOK
  <2>. QED BY <2>0, <2>1, DemoStarts, ResetMirrors DEF TuiInv
<1>h. CASE BreakpointKey
  <2>0. /\ SetBreakpoint(snapshot.pc) \/ ClearBreakpoint(snapshot.pc)
        /\ status' # "invalid"
        /\ DemoLoaded /\ UNCHANGED loop /\ at' = "top" /\ snapshot' = Snapshot'
    BY <1>h DEF BreakpointKey, ToggleBreakpoint, RefreshSnapshot, TuiInv
  <2>1. TypeOK' /\ UNCHANGED core /\ flash' = flash
    BY <1>0, <2>0, BreakpointKept
  <2>2. RunTypeOK' /\ DemoLoaded'
    BY <1>0, <2>0, <2>1, LoopKeptTypeOK DEF DemoLoaded
  <2>. QED BY <1>0, <2>0, <2>1, <2>2, DemoStutters, InputMirrors DEF TuiInv
<1>i. ASSUME NEW bit \in InputKeys, InputKey(bit)
      PROVE  TuiInv' /\ MirrorStep
  <2>. DEFINE bits == IF bit \in snapshot.external_input
                      THEN snapshot.external_input \ {bit}
                      ELSE snapshot.external_input \cup {bit}
  <2>0. /\ WriteExternalInput(bits) /\ snapshot = Snapshot
        /\ status' # "invalid"
        /\ DemoLoaded /\ UNCHANGED loop /\ at' = "top" /\ snapshot' = Snapshot'
    BY <1>i DEF InputKey, RefreshSnapshot, TuiInv
  <2>1. bits \in SUBSET Bit /\ snapshot.external_input = external_input
    BY <1>0, <2>0, FlippedInput
  <2>2. TypeOK' /\ UNCHANGED core /\ flash' = flash /\ external_input' = bits
    BY <1>0, <2>0, <2>1, InputKept DEF WriteExternalInput
  <2>3. InputLevel' <=> IF bit = 0 THEN ~InputLevel ELSE InputLevel
    BY <2>1, <2>2 DEF InputLevel
  <2>. HIDE DEF bits
  <2>4. RunTypeOK' /\ DemoLoaded' /\ DemoState'
    BY <1>0, <2>0, <2>2, LoopKeptTypeOK, DemoStutters DEF DemoLoaded
  <2>5. MirrorStep
    BY <2>2, InputMirrors
  <2>. QED BY <2>0, <2>4, <2>5 DEF TuiInv
<1>. QED BY <1>a, <1>b, <1>c, <1>d, <1>e, <1>f, <1>g, <1>h, <1>i DEF TuiNext, Keys

LEMMA TuiStutter ==
  ASSUME TuiInv, UNCHANGED tuivars
  PROVE  TuiInv'
<1>1. UNCHANGED <<vars, loop, at, snapshot, status>>
  BY DEF tuivars, runvars
<1>2. RunTypeOK /\ DemoState /\ TypeOK
  BY DEF TuiInv, RunTypeOK
<1>3. UNCHANGED vars /\ UNCHANGED core /\ flash' = flash /\ Snapshot' = Snapshot
  BY <1>1 DEF vars, core, Snapshot, CanFetch, HasBreakpoint, Pins
<1>4. RunTypeOK'
  BY <1>1, <1>2, <1>3, StutterTypeOK, LoopKeptTypeOK
<1>5. DemoState' /\ (DemoLoaded => DemoLoaded')
  BY <1>2, <1>3, DemoStutters DEF DemoLoaded
<1>. QED BY <1>1, <1>3, <1>4, <1>5 DEF TuiInv, loop

LEMMA TuiInvHolds == TuiSpec => []TuiInv
<1>1. TuiInit => TuiInv
  <2>. SUFFICES ASSUME TuiInit PROVE TuiInv
    OBVIOUS
  <2>1. RunTypeOK /\ DemoState
    BY RunInitTypeOK, DemoStarts DEF TuiInit, RunInit
  <2>. QED BY <2>1 DEF TuiInit, TuiInv
<1>2. TuiInv /\ [TuiNext]_tuivars => TuiInv'
  BY TuiStep, TuiStutter
<1>. QED BY <1>1, <1>2, PTL DEF TuiSpec

\* Whenever a key is read, the screen shows the machine as it is: the `b' and
\* digit keys, which compute what they write from the snapshot, write what the
\* user means (avr_tui.c:366-386).
THEOREM TuiScreenIsCurrent == TuiSpec => []ScreenIsCurrent
<1>1. TuiInv => ScreenIsCurrent
  BY DEF TuiInv, ScreenIsCurrent
<1>. QED BY <1>1, TuiInvHolds, PTL

\* Whatever keys are pressed, in whatever order, the machine is never stopped by
\* an invalid instruction: the demo does not leave its ten words
\* (avr_tui.c:30-41).
THEOREM TuiDemoNeverFails == TuiSpec => []DemoNeverFails
<1>1. TuiInv => DemoNeverFails
  BY DEF TuiInv, DemoNeverFails
<1>. QED BY <1>1, TuiInvHolds, PTL

\* The demo under the terminal interface implements AvrMirror: PB5 only ever
\* takes a level PB0 had when the program looked at it (README.md, Phase 11).
THEOREM TuiMirrors == TuiSpec => MirrorsTheInput
<1>1. TuiInit => Mirror!Init
  <2>. SUFFICES ASSUME TuiInit PROVE Mirror!Init
    OBVIOUS
  <2>1. ~Sampled /\ ~PinDriven /\ external_input = {}
    BY DemoStarts DEF TuiInit, RunInit
  <2>. QED BY <2>1, SampledIsALevel DEF Mirror!Init, PinDriven
<1>2. TuiInv /\ [TuiNext]_tuivars => [Mirror!Next]_(Mirror!mirror)
  <2>. SUFFICES ASSUME TuiInv, [TuiNext]_tuivars PROVE [Mirror!Next]_(Mirror!mirror)
    OBVIOUS
  <2>1. MirrorStep
    <3>1. UNCHANGED tuivars => UNCHANGED core
      BY DEF tuivars, runvars, vars, core
    <3>. QED BY <3>1, TuiStep, InputMirrors
  <2>2. Sampled \in BOOLEAN /\ Sampled' \in BOOLEAN
    <3>1. (Sampled \in BOOLEAN)'
      BY SampledIsALevel, PTL
    <3>. QED BY <3>1, SampledIsALevel
  <2>3. /\ InputLevel \in BOOLEAN /\ InputLevel' \in BOOLEAN
        /\ PinDriven \in BOOLEAN /\ PinDriven' \in BOOLEAN
    BY DEF InputLevel, PinDriven
  <2>4. InputLevel = (0 \in external_input)
    BY DEF InputLevel
  <2>. QED BY <2>1, <2>2, <2>3
    DEF MirrorStep, InputLevel, Mirror!Next, Mirror!mirror, Mirror!Toggle, Mirror!Sample, Mirror!Drive, Mirror!Reset
<1>. QED BY <1>1, <1>2, TuiInvHolds, PTL DEF TuiSpec, MirrorsTheInput, Mirror!Spec
=============================================================================
