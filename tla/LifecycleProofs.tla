--------------------------- MODULE LifecycleProofs ---------------------------
(***************************************************************************)
(* Why late news does no harm, for any number of launches, hooks and       *)
(* kills: a launch is created once, under a name nobody has used, so what  *)
(* was once true of its end stays true (Fresh), and a kill is never        *)
(* beside another operation of the session (KillInv).  And, in the second  *)
(* part, why a dialog that is open keeps the session blocked: the hooks of *)
(* module ToolFlight (FlightInv).                                          *)
(***************************************************************************)
EXTENDS Lifecycle, ToolFlight, FiniteSetTheorems, SequenceTheorems, TLAPS

Gens == 0..MaxLaunches
Ages == 0..2
Pcs  == {"idle", "stop", "free", "read", "mark", "epoch", "start", "create", "spawn", "restore"}
Ops  == [pc : Pcs, kind : {"none", "kill", "relaunch", "there", "back"}, gen : Gens]
Rows == [mode : {"tui", "chat"}, own : Gens, over : BOOLEAN, act : Acts, age : Ages]
Terms   == [by : Launches, up : BOOLEAN, work : BOOLEAN]
Reapers == [pc : {"idle", "probe", "apply", "final"}, gen : Gens,
            fact : {"none", "dead", "gone", "alive", "failed"}, wait : 0..1]
Hooks   == [gen : Launches, ev : Events]

\* A launch that is created has a name.
Named == \A s \in Slots : op[s].pc \in {"create", "spawn"} => op[s].gen # 0

\* TypeOK, with what its count of hooks and the name of the runtime rest on.
Typed ==
  /\ row \in Rows /\ term \in Terms /\ chat \in Gens /\ pending \in Gens
  /\ hooks \subseteq Hooks /\ IsFiniteSet(hooks) /\ Cardinality(hooks) <= MaxHooks
  /\ op \in [Slots -> Ops] /\ reaper \in Reapers
  /\ screen \in BOOLEAN /\ seen \subseteq Slots \cup {"reaper", "screen"}
  /\ made \in Gens /\ kills \in 0..MaxKills /\ killed \in BOOLEAN
  /\ Named

LEMMA Bounds == MaxLaunches \in Nat \ {0} /\ MaxHooks \in Nat /\ MaxKills \in Nat
BY BoundsAssumption DEF BoundsAssumption

LEMMA TypedIsType == Typed => TypeOK
BY DEF Typed, TypeOK, Gens, Launches, Ages, Pcs, Ops, Rows, Terms, Reapers, Hooks

LEMMA TypedInit == Init => Typed
<1> SUFFICES ASSUME Init PROVE Typed
  OBVIOUS
<1>1. /\ hooks = {} /\ seen = {} /\ pending = 0 /\ made = 1 /\ kills = 0 /\ chat \in {0, 1}
      /\ screen = FALSE /\ killed = FALSE
  BY DEF Init
<1>2. IsFiniteSet(hooks) /\ Cardinality(hooks) = 0
  BY <1>1, FS_EmptySet
<1>3. row \in Rows /\ term \in Terms
  BY Bounds DEF Init, Rows, Terms, Gens, Launches, Ages, Acts
<1>4. op \in [Slots -> Ops] /\ reaper \in Reapers /\ Named
  BY Bounds DEF Init, Ops, Pcs, Idle, Asleep, Reapers, Gens, Named
<1>5. chat \in Gens /\ pending \in Gens /\ made \in Gens /\ kills \in 0..MaxKills
  BY <1>1, Bounds DEF Gens
<1>6. screen \in BOOLEAN /\ killed \in BOOLEAN /\ hooks \subseteq Hooks
      /\ seen \subseteq Slots \cup {"reaper", "screen"}
  BY <1>1
<1>7. Cardinality(hooks) <= MaxHooks
  BY <1>2, Bounds
<1> QED BY <1>2, <1>3, <1>4, <1>5, <1>6, <1>7 DEF Typed

\* The hooks of a step that sends one, or takes one away.
LEMMA HooksEmit ==
  ASSUME Typed, Cardinality(hooks) < MaxHooks, NEW g \in Launches, NEW ev \in Events, Emit(g, ev)
  PROVE  hooks' \subseteq Hooks /\ IsFiniteSet(hooks') /\ Cardinality(hooks') <= MaxHooks
<1> DEFINE h == [gen |-> g, ev |-> ev]
<1>1. h \in Hooks /\ hooks' = hooks \cup {h}
  BY DEF Emit, Hooks
<1>2. IsFiniteSet(hooks') /\ Cardinality(hooks') <= Cardinality(hooks) + 1 /\ Cardinality(hooks) \in Nat
  <2>1. IsFiniteSet(hooks) /\ Cardinality(hooks) \in Nat
    BY FS_CardinalityType DEF Typed
  <2>2. /\ IsFiniteSet(hooks \cup {h})
        /\ Cardinality(hooks \cup {h}) = IF h \in hooks THEN Cardinality(hooks) ELSE Cardinality(hooks) + 1
    BY <2>1, FS_AddElement
  <2> HIDE DEF h
  <2> QED BY <1>1, <2>1, <2>2
<1>3. Cardinality(hooks') \in Nat
  BY <1>2, FS_CardinalityType
<1> QED BY <1>1, <1>2, <1>3, Bounds DEF Typed

LEMMA HooksTake ==
  ASSUME Typed, NEW h \in hooks, hooks' = hooks \ {h}
  PROVE  hooks' \subseteq Hooks /\ IsFiniteSet(hooks') /\ Cardinality(hooks') <= MaxHooks
<1>1. IsFiniteSet(hooks') /\ Cardinality(hooks') = Cardinality(hooks) - 1 /\ Cardinality(hooks) \in Nat
  BY FS_RemoveElement, FS_CardinalityType DEF Typed
<1> QED BY <1>1, Bounds DEF Typed

\* A step of one operation.
LEMMA OpStep ==
  ASSUME Typed, NEW s \in Slots, NEW o \in Ops, op' = [op EXCEPT ![s] = o],
         o.pc \in {"create", "spawn"} => o.gen # 0
  PROVE  op' \in [Slots -> Ops] /\ Named'
<1>1. \A r \in Slots : op'[r] = IF r = s THEN o ELSE op[r]
  BY DEF Typed
<1>2. op' \in [Slots -> Ops]
  BY DEF Typed
<1> QED BY <1>1, <1>2 DEF Typed, Named

LEMMA OpGoes ==
  ASSUME Typed, NEW s \in Slots, NEW pc \in Pcs, Go(s, pc),
         pc \in {"create", "spawn"} => op[s].pc = "create"
  PROVE  op' \in [Slots -> Ops] /\ Named'
<1> DEFINE o == [op[s] EXCEPT !.pc = pc]
<1>1. op[s] \in Ops
  BY DEF Typed
<1>2. o \in Ops /\ o.pc = pc /\ o.gen = op[s].gen
  BY <1>1 DEF Ops
<1>3. op' = [op EXCEPT ![s] = o]
  BY DEF Go
<1>4. o.pc \in {"create", "spawn"} => o.gen # 0
  BY <1>2 DEF Typed, Named
<1> HIDE DEF o
<1> QED BY <1>2, <1>3, <1>4, OpStep

LEMMA IdleOp == Idle \in Ops /\ Idle.pc = "idle"
BY Bounds DEF Idle, Ops, Pcs, Gens

LEMMA OpEnds ==
  ASSUME Typed, NEW s \in Slots, End(s) \/ Fail(s)
  PROVE  op' \in [Slots -> Ops] /\ Named'
<1> DEFINE back == [Idle EXCEPT !.pc = "restore", !.kind = "back"]
<1>1. back \in Ops /\ back.pc = "restore"
  BY IdleOp DEF Idle, Ops, Pcs
<1>2. op' = [op EXCEPT ![s] = Idle] \/ op' = [op EXCEPT ![s] = back]
  BY DEF End, Fail
<1> HIDE DEF back
<1> QED BY <1>1, <1>2, IdleOp, OpStep

\* What a write makes of the row.
LEMMA WriteTyped ==
  ASSUME NEW r, r \in Rows, Write(r)
  PROVE  row' \in Rows /\ seen' \subseteq Slots \cup {"reaper", "screen"}
BY DEF Write

\* The records that the writers make of a row.
LEMMA Records ==
  ASSUME NEW r \in Rows, NEW a \in Acts, NEW n \in Ages, NEW b \in BOOLEAN, NEW g \in Gens,
         NEW m \in {"tui", "chat"}
  PROVE  /\ [r EXCEPT !.act = a, !.age = n] \in Rows
         /\ [r EXCEPT !.over = b, !.act = a, !.age = n] \in Rows
         /\ [r EXCEPT !.own = g, !.over = b, !.act = a, !.age = n] \in Rows
         /\ [r EXCEPT !.mode = m, !.own = g, !.act = a, !.age = n] \in Rows
<1>1. [r EXCEPT !.act = a, !.age = n] \in Rows
  BY DEF Rows
<1>2. [r EXCEPT !.over = b, !.act = a, !.age = n] \in Rows
  BY DEF Rows
<1>3. [r EXCEPT !.own = g, !.over = b, !.act = a, !.age = n] \in Rows
  BY DEF Rows
<1>4. [r EXCEPT !.mode = m, !.own = g, !.act = a, !.age = n] \in Rows
  BY DEF Rows
<1> QED BY <1>1, <1>2, <1>3, <1>4

LEMMA Values == /\ 0 \in Gens /\ 0 \in Ages /\ 0..1 \subseteq Ages
                /\ {"idle", "active", "exited", "blocked"} \subseteq Acts
BY Bounds DEF Gens, Ages, Acts, Sticky

LEMMA SpawnedTyped ==
  ASSUME Typed, NEW g \in Gens
  PROVE  Spawned(g) \in Rows
<1>1. row \in Rows
  BY DEF Typed
<1> QED BY <1>1, Values, Records DEF Spawned

LEMMA AgentsTyped ==
  ASSUME Typed, Agents \/ Tick
  PROVE  Typed'
<1>1. term.by \in Launches /\ (chat # 0 => chat \in Launches)
  BY Bounds DEF Typed, Terms, Gens, Launches
<1>2. CASE Works
  <2>1. hooks' \subseteq Hooks /\ IsFiniteSet(hooks') /\ Cardinality(hooks') <= MaxHooks
    BY <1>1, <1>2, HooksEmit DEF Works
  <2> QED BY <1>2, <2>1 DEF Works, Typed, Named, procs
<1>6. CASE AgentExits
  <2>1. hooks' \subseteq Hooks /\ IsFiniteSet(hooks') /\ Cardinality(hooks') <= MaxHooks
    BY <1>1, <1>6, HooksEmit DEF AgentExits, Events
  <2>2. term' \in Terms /\ chat' \in Gens
    BY <1>6, Values DEF AgentExits, Typed, Terms
  <2> QED BY <1>6, <2>1, <2>2 DEF AgentExits, Typed, Named
<1>3. CASE RuntimeDies
  BY <1>3 DEF RuntimeDies, Typed, Named, Terms
<1>4. CASE Loses
  <2>1. hooks' \subseteq Hooks /\ IsFiniteSet(hooks') /\ Cardinality(hooks') <= MaxHooks
    BY <1>4, HooksTake DEF Loses
  <2> QED BY <1>4, <2>1 DEF Loses, Typed, Named, procs
<1>5. CASE Tick
  <2>1. row' \in Rows
    BY <1>5 DEF Tick, Typed, Rows, Ages
  <2>2. reaper' \in Reapers
    BY <1>5 DEF Tick, Typed, Reapers
  <2> QED BY <1>5, <2>1, <2>2 DEF Tick, Typed, Named, procs
<1> QED BY <1>2, <1>3, <1>4, <1>5, <1>6 DEF Agents

LEMMA SignalTyped ==
  ASSUME Typed, Signal \/ ScreenRead \/ ScreenSignal
  PROVE  Typed'
<1>1. CASE Signal
  <2>1. PICK h \in hooks : /\ hooks' = hooks \ {h}
                           /\ \/ Write([row EXCEPT !.act = After(h.ev), !.age = 0])
                              \/ UNCHANGED <<row, seen>>
    BY <1>1 DEF Signal
  <2>2. hooks' \subseteq Hooks /\ IsFiniteSet(hooks') /\ Cardinality(hooks') <= MaxHooks
    BY <2>1, HooksTake
  <2>3. After(h.ev) \in Acts
    BY DEF Typed, Hooks, Events, After, Acts, Sticky
  <2>4. [row EXCEPT !.act = After(h.ev), !.age = 0] \in Rows
    <3>1. row \in Rows
      BY DEF Typed
    <3> QED BY <2>3, <3>1, Values, Records
  <2>5. row' \in Rows /\ seen' \subseteq Slots \cup {"reaper", "screen"}
    BY <2>1, <2>4, WriteTyped DEF Typed
  <2> QED BY <1>1, <2>2, <2>5 DEF Signal, Typed, Named, procs
<1>2. CASE ScreenRead
  BY <1>2 DEF ScreenRead, Typed, Named, procs
<1>3. CASE ScreenSignal
  <2>1. [row EXCEPT !.act = "idle", !.age = 0] \in Rows
    <3>1. row \in Rows
      BY DEF Typed
    <3> QED BY <3>1, Values, Records
  <2>2. row' \in Rows /\ seen' \subseteq Slots \cup {"reaper", "screen"}
    BY <1>3, <2>1, WriteTyped DEF ScreenSignal, Typed
  <2> QED BY <1>3, <2>2 DEF ScreenSignal, Typed, Named, procs
<1> QED BY <1>1, <1>2, <1>3

LEMMA ReaperTyped ==
  ASSUME Typed, Reaper \/ ReaperProbe \/ ReaperDoubts
  PROVE  Typed'
<1>1. Asleep \in Reapers
  BY Bounds DEF Asleep, Reapers, Gens
<1>2. CASE ReaperList
  <2>1. [Asleep EXCEPT !.pc = "probe", !.gen = row.own] \in Reapers
    BY <1>1 DEF Typed, Rows, Reapers
  <2> QED BY <1>2, <2>1 DEF ReaperList, Typed, Named, procs
<1>3. CASE ReaperProbe \/ ReaperDoubts
  <2>1. reaper' \in Reapers
    BY <1>3 DEF ReaperProbe, ReaperDoubts, Typed, Reapers
  <2> QED BY <1>3, <2>1 DEF ReaperProbe, ReaperDoubts, Typed, Named, procs
<1>4. \A w \in 0..1 : /\ [row EXCEPT !.act = "exited", !.age = w] \in Rows
                      /\ [row EXCEPT !.over = TRUE, !.act = "exited", !.age = w] \in Rows
  <2>1. row \in Rows
    BY DEF Typed
  <2> QED BY <2>1, Values, Records
<1>5. reaper.wait \in 0..1
  BY DEF Typed, Reapers
<1>6. CASE ReaperApply
  <2>1. row' \in Rows /\ seen' \subseteq Slots \cup {"reaper", "screen"}
    BY <1>4, <1>5, <1>6, WriteTyped DEF ReaperApply, Typed
  <2>2. reaper' \in Reapers
    BY <1>1, <1>6 DEF ReaperApply, Typed, Reapers
  <2> QED BY <1>6, <2>1, <2>2 DEF ReaperApply, Typed, Named, procs
<1>7. CASE ReaperFinal
  <2>1. row' \in Rows /\ seen' \subseteq Slots \cup {"reaper", "screen"}
    BY <1>4, <1>5, <1>7, WriteTyped DEF ReaperFinal, Typed
  <2> QED BY <1>1, <1>7, <2>1 DEF ReaperFinal, Typed, Named, procs
<1> QED BY <1>2, <1>3, <1>6, <1>7 DEF Reaper

LEMMA DeadTyped == Typed => Dead \in Terms /\ Dead.by = term.by /\ ~Dead.up /\ ~Dead.work
BY DEF Typed, Dead, Terms

LEMMA BeginTyped ==
  ASSUME Typed, KillBegin \/ RelaunchBegin \/ MoveBegin
  PROVE  Typed'
<1> DEFINE kill   == [Idle EXCEPT !.pc = "stop", !.kind = "kill"]
           start  == [Idle EXCEPT !.pc = "start", !.kind = "relaunch"]
           there  == [Idle EXCEPT !.pc = "stop", !.kind = "there"]
<1>1. {kill, start, there} \subseteq Ops /\ kill.pc = "stop" /\ start.pc = "start" /\ there.pc = "stop"
  BY IdleOp DEF Idle, Ops, Pcs
<1>2. "main" \in Slots /\ "move" \in Slots
  BY DEF Slots
<1>3. op' \in [Slots -> Ops] /\ Named'
  <2>1. \/ op' = [op EXCEPT !["main"] = kill] \/ op' = [op EXCEPT !["main"] = start]
        \/ op' = [op EXCEPT !["move"] = there]
    BY DEF KillBegin, RelaunchBegin, MoveBegin
  <2> HIDE DEF kill, start, there
  <2> QED BY <1>1, <1>2, <2>1, OpStep
<1>4. kills' \in 0..MaxKills
  BY Bounds DEF KillBegin, RelaunchBegin, MoveBegin, Typed
<1>5. killed' \in BOOLEAN
  BY DEF KillBegin, RelaunchBegin, MoveBegin, Typed
<1> QED BY <1>3, <1>4, <1>5 DEF KillBegin, RelaunchBegin, MoveBegin, Typed, procs

LEMMA StopTyped ==
  ASSUME Typed, KillStop \/ KillFree \/ MoveStop
  PROVE  Typed'
<1>1. "main" \in Slots /\ "move" \in Slots /\ {"free", "read", "epoch"} \subseteq Pcs
  BY DEF Slots, Pcs
<1>2. op' \in [Slots -> Ops] /\ Named'
  BY <1>1, OpGoes, OpEnds DEF KillStop, KillFree, MoveStop
<1>3. term' \in Terms /\ chat' \in Gens
  BY DeadTyped, Values DEF KillStop, KillFree, MoveStop, procs, Typed
<1> QED BY <1>2, <1>3 DEF KillStop, KillFree, MoveStop, Typed

LEMMA MarkTyped ==
  ASSUME Typed, NEW s \in Slots, MarkRead(s) \/ MarkWrite(s)
  PROVE  Typed'
<1>1. killed' \in BOOLEAN
  BY DEF MarkRead, MarkWrite, Done, Typed
<1>2. CASE MarkRead(s)
  <2> DEFINE o == [op[s] EXCEPT !.pc = "mark", !.gen = row.own]
  <2>1. op[s] \in Ops /\ row.own \in Gens
    BY DEF Typed, Rows
  <2>2. o \in Ops /\ o.pc = "mark"
    BY <2>1 DEF Ops, Pcs
  <2>3. op' = [op EXCEPT ![s] = o] \/ End(s)
    BY <1>2 DEF MarkRead, Done
  <2>4. op' \in [Slots -> Ops] /\ Named'
    <3> HIDE DEF o
    <3> QED BY <2>2, <2>3, OpStep, OpEnds
  <2>5. seen' \subseteq Slots \cup {"reaper", "screen"}
    BY <1>2 DEF MarkRead, Typed
  <2> QED BY <1>1, <1>2, <2>4, <2>5 DEF MarkRead, Typed, procs
<1>3. CASE MarkWrite(s)
  <2>1. End(s) \/ Go(s, "read")
    BY <1>3 DEF MarkWrite, Done
  <2>2. op' \in [Slots -> Ops] /\ Named'
    BY <2>1, OpGoes, OpEnds DEF Pcs
  <2>3. row \in Rows
    BY DEF Typed
  <2>4. [row EXCEPT !.over = TRUE, !.act = "exited", !.age = 0] \in Rows
    BY <2>3, Values, Records
  <2>5. row' \in Rows /\ seen' \subseteq Slots \cup {"reaper", "screen"}
    BY <1>3, <2>4, WriteTyped DEF MarkWrite, Typed
  <2> QED BY <1>1, <1>3, <2>2, <2>5 DEF MarkWrite, Typed, procs
<1> QED BY <1>2, <1>3

LEMMA LaunchTyped ==
  ASSUME Typed, NEW s \in Slots, Prepare(s) \/ Create(s) \/ Spawn(s) \/ ChatStart(s)
  PROVE  Typed'
<1>1. op[s] \in Ops /\ op[s].gen \in Gens
  BY DEF Typed, Ops
<1>2. made < MaxLaunches => made + 1 \in Gens /\ made + 1 # 0
  BY Bounds DEF Typed, Gens
<1>3. CASE Prepare(s)
  <2> DEFINE o == [op[s] EXCEPT !.pc = "create", !.gen = made']
  <2>1. Fail(s) \/ (made' \in Gens /\ made' # 0 /\ op' = [op EXCEPT ![s] = o])
    BY <1>2, <1>3 DEF Prepare
  <2>2. made' \in Gens => o \in Ops /\ o.pc = "create" /\ o.gen = made'
    BY <1>1 DEF Ops, Pcs
  <2>3. op' \in [Slots -> Ops] /\ Named'
    <3> HIDE DEF o
    <3> QED BY <2>1, <2>2, OpStep, OpEnds
  <2>4. made' \in Gens /\ pending' \in Gens
    BY <1>2, <1>3 DEF Prepare, Typed
  <2> QED BY <1>3, <2>3, <2>4 DEF Prepare, Typed, procs
<1>4. CASE Create(s)
  <2>1. op' \in [Slots -> Ops] /\ Named'
    BY <1>4, OpGoes, OpEnds DEF Create, Pcs
  <2>2. op[s].gen \in Launches
    BY <1>1, <1>4 DEF Create, Typed, Named, Gens, Launches
  <2>3. term' \in Terms
    <3>1. [by |-> op[s].gen, up |-> TRUE, work |-> TRUE] \in Terms
      BY <2>2 DEF Terms
    <3> QED BY <1>4, <3>1, DeadTyped DEF Create, Typed
  <2>4. pending' \in Gens
    BY <1>4, Values DEF Create, Typed
  <2> QED BY <1>4, <2>1, <2>3, <2>4 DEF Create, Typed
<1>5. CASE Spawn(s)
  <2>1. op' \in [Slots -> Ops] /\ Named'
    BY <1>5, OpGoes, OpEnds DEF Spawn, Pcs
  <2>2. row' \in Rows /\ seen' \subseteq Slots \cup {"reaper", "screen"}
    BY <1>1, <1>5, SpawnedTyped, WriteTyped DEF Spawn, Typed
  <2>3. term' \in Terms /\ pending' \in Gens
    BY <1>5, DeadTyped, Values DEF Spawn, Typed
  <2> QED BY <1>5, <2>1, <2>2, <2>3 DEF Spawn, Typed
<1>6. CASE ChatStart(s)
  <2>1. op' \in [Slots -> Ops] /\ Named'
    BY <1>6, OpEnds DEF ChatStart
  <2>2. row' \in Rows /\ seen' \subseteq Slots \cup {"reaper", "screen"}
    BY <1>2, <1>6, SpawnedTyped, WriteTyped DEF ChatStart, Typed
  <2>3. made' \in Gens /\ chat' \in Gens
    BY <1>2, <1>6 DEF ChatStart, Typed
  <2> QED BY <1>6, <2>1, <2>2, <2>3 DEF ChatStart, Typed
<1> QED BY <1>3, <1>4, <1>5, <1>6

LEMMA EpochTyped ==
  ASSUME Typed, MoveEpoch
  PROVE  Typed'
<1> DEFINE back == [op["move"] EXCEPT !.pc = "start", !.kind = "back"]
<1>1. "move" \in Slots /\ "start" \in Pcs /\ op["move"] \in Ops /\ row \in Rows
  BY DEF Slots, Pcs, Typed
<1>2. back \in Ops /\ back.pc = "start"
  BY <1>1 DEF Ops
<1>3. Go("move", "start") \/ End("move") \/ op' = [op EXCEPT !["move"] = back]
  BY DEF MoveEpoch
<1>4. op' \in [Slots -> Ops] /\ Named'
  <2> HIDE DEF back
  <2> QED BY <1>1, <1>2, <1>3, OpGoes, OpEnds, OpStep
<1>5. Other(row.mode) \in {"tui", "chat"}
  BY DEF Other
<1>6. [row EXCEPT !.mode = Other(@), !.own = 0, !.act = "idle", !.age = 0] \in Rows
  BY <1>1, <1>5, Values, Records
<1>7. row' \in Rows /\ seen' \subseteq Slots \cup {"reaper", "screen"}
  BY <1>6, WriteTyped DEF MoveEpoch, Typed
<1> QED BY <1>4, <1>7 DEF MoveEpoch, Typed, procs

LEMMA TypedStep == Typed /\ [Next]_vars => Typed'
<1> SUFFICES ASSUME Typed, [Next]_vars PROVE Typed'
  OBVIOUS
<1>1. CASE UNCHANGED vars
  BY <1>1 DEF vars, Typed, Named
<1> QED BY <1>1, AgentsTyped, SignalTyped, ReaperTyped, BeginTyped, StopTyped, MarkTyped,
           LaunchTyped, EpochTyped DEF Next, Running

\* Every reachable state is well typed, with no more hooks on their way than allowed.
THEOREM LifecycleTyped == Spec => []TypeOK
<1> QED BY TypedInit, TypedStep, TypedIsType, PTL DEF Spec

-----------------------------------------------------------------------------
(* A killed session stays dead, unless a handoff may start beside the kill. *)

Main == op["main"]
Move == op["move"]

KillInv ==
  /\ Main.pc = "idle" \/ Move.pc = "idle"
  /\ Main.kind = "kill" => Main.pc \in {"stop", "free", "read", "mark"}
  /\ Move.kind # "kill"
  /\ killed => /\ row.over /\ Move.pc = "idle"
               /\ Main.pc = "idle" \/ Main.kind = "kill"

LEMMA KillInit == Init => KillInv
BY DEF Init, KillInv, Main, Move, Idle, Slots

\* What becomes of the operation in the slot of a step.
LEMMA SlotStep ==
  ASSUME Typed, NEW s \in Slots
  PROVE  /\ \A pc \in Pcs : Go(s, pc) => /\ op'[s].pc = pc /\ op'[s].kind = op[s].kind
                                         /\ op'[s].gen = op[s].gen
         /\ End(s) => op'[s] = Idle
         /\ Fail(s) => /\ op'[s].pc \in {"idle", "restore"} /\ op'[s].kind \in {"none", "back"}
                       /\ op'[s].pc = "restore" => op[s].kind = "there"
                       /\ op'[s].kind = "none" <=> op'[s].pc = "idle"
<1>1. op[s] \in Ops /\ op \in [Slots -> Ops]
  BY DEF Typed
<1>2. \A pc \in Pcs : Go(s, pc) => /\ op'[s].pc = pc /\ op'[s].kind = op[s].kind
                                   /\ op'[s].gen = op[s].gen
  BY <1>1 DEF Go, Ops
<1>3. End(s) => op'[s] = Idle
  BY <1>1 DEF End
<1>4. ASSUME Fail(s)
      PROVE  /\ op'[s].pc \in {"idle", "restore"} /\ op'[s].kind \in {"none", "back"}
             /\ op'[s].pc = "restore" => op[s].kind = "there"
             /\ op'[s].kind = "none" <=> op'[s].pc = "idle"
  <2>1. CASE op[s].kind = "there"
    BY <1>1, <1>4, <2>1 DEF Fail, Idle
  <2>2. CASE op[s].kind # "there"
    BY <1>1, <1>4, <2>2 DEF Fail, Idle
  <2> QED BY <2>1, <2>2
<1> QED BY <1>2, <1>3, <1>4

LEMMA OtherSlots ==
  ASSUME Typed, NEW s \in Slots, NEW r \in Slots \ {s}
  PROVE  /\ \A pc : Go(s, pc) => op'[r] = op[r]
         /\ End(s) => op'[r] = op[r]
         /\ Fail(s) => op'[r] = op[r]
<1>1. op \in [Slots -> Ops]
  BY DEF Typed
<1> QED BY <1>1 DEF Go, End, Fail

\* A step that begins or ends no operation, and revives no session.
LEMMA KillKept ==
  ASSUME KillInv, UNCHANGED killed, row.over => row'.over,
         Main'.pc = "idle" <=> Main.pc = "idle", Main'.kind = Main.kind,
         Main'.kind = "kill" => Main'.pc \in {"stop", "free", "read", "mark"},
         Move'.pc = "idle" <=> Move.pc = "idle", Move'.kind # "kill"
  PROVE  KillInv'
BY DEF KillInv

\* The step of a slot that is neither a kill's, nor there while a kill is.
LEMMA KillOther ==
  ASSUME Typed, KillInv, NEW s \in Slots, UNCHANGED killed,
         op[s].pc # "idle", op[s].kind # "kill", op'[s].kind # "kill",
         \A r \in Slots \ {s} : op'[r] = op[r]
  PROVE  KillInv'
<1>1. CASE s = "main"
  <2>1. Move' = Move /\ Move.pc = "idle" /\ ~killed
    BY <1>1 DEF KillInv, Main, Move, Slots
  <2> QED BY <1>1, <2>1 DEF KillInv, Main, Move
<1>2. CASE s = "move"
  <2>1. Main' = Main /\ Main.pc = "idle" /\ ~killed
    BY <1>2 DEF KillInv, Main, Move, Slots
  <2> QED BY <1>2, <2>1 DEF KillInv, Main, Move
<1> QED BY <1>1, <1>2 DEF Slots

LEMMA KillQuiet ==
  ASSUME Typed, KillInv,
         \/ Agents \/ Tick \/ Signal \/ ScreenRead \/ ScreenSignal
         \/ Reaper \/ ReaperProbe \/ ReaperDoubts \/ UNCHANGED vars
  PROVE  KillInv'
<1>1. UNCHANGED <<op, killed>>
  BY DEF Agents, Works, AgentExits, RuntimeDies, Loses, Tick, Signal, ScreenRead, ScreenSignal,
         Reaper, ReaperList, ReaperApply, ReaperFinal, ReaperProbe, ReaperDoubts, vars
<1>2. row \in Rows
  BY DEF Typed
<1>3. /\ \A a, n : [row EXCEPT !.act = a, !.age = n].over = row.over
      /\ \A n : [row EXCEPT !.age = n].over = row.over
      /\ \A a, n : [row EXCEPT !.over = TRUE, !.act = a, !.age = n].over = TRUE
  BY <1>2 DEF Rows
<1>4. row.over => row'.over
  <2>1. CASE Agents \/ ScreenRead \/ ReaperProbe \/ ReaperDoubts
             \/ UNCHANGED vars
    BY <2>1 DEF Agents, Works, AgentExits, RuntimeDies, Loses, ScreenRead, ReaperProbe,
                ReaperDoubts, vars
  <2>2. CASE Tick
    <3>1. PICK n : row' = [row EXCEPT !.age = n]
      BY <2>2 DEF Tick
    <3> QED BY <1>3, <3>1
  <2>3. CASE Signal
    <3>1. UNCHANGED row \/ \E a, n : row' = [row EXCEPT !.act = a, !.age = n]
      BY <2>3 DEF Signal, Write
    <3>2. CASE UNCHANGED row
      BY <3>2
    <3>3. CASE \E a, n : row' = [row EXCEPT !.act = a, !.age = n]
      <4>1. PICK a, n : row' = [row EXCEPT !.act = a, !.age = n]
        BY <3>3
      <4> QED BY <1>3, <4>1
    <3> QED BY <3>1, <3>2, <3>3
  <2>4. CASE ScreenSignal
    <3>1. UNCHANGED row \/ \E a, n : row' = [row EXCEPT !.act = a, !.age = n]
      BY <2>4 DEF ScreenSignal, Write
    <3>2. CASE UNCHANGED row
      BY <3>2
    <3>3. CASE \E a, n : row' = [row EXCEPT !.act = a, !.age = n]
      <4>1. PICK a, n : row' = [row EXCEPT !.act = a, !.age = n]
        BY <3>3
      <4> QED BY <1>3, <4>1
    <3> QED BY <3>1, <3>2, <3>3
  <2>5. CASE Reaper
    <3>1. \/ UNCHANGED row
          \/ \E a, n : \/ row' = [row EXCEPT !.act = a, !.age = n]
                       \/ row' = [row EXCEPT !.over = TRUE, !.act = a, !.age = n]
      BY <2>5 DEF Reaper, ReaperList, ReaperApply, ReaperFinal, Write
    <3>2. CASE UNCHANGED row
      BY <3>2
    <3>3. CASE \E a, n : \/ row' = [row EXCEPT !.act = a, !.age = n]
                         \/ row' = [row EXCEPT !.over = TRUE, !.act = a, !.age = n]
      <4>1. PICK a, n : \/ row' = [row EXCEPT !.act = a, !.age = n]
                        \/ row' = [row EXCEPT !.over = TRUE, !.act = a, !.age = n]
        BY <3>3
      <4>2. CASE row' = [row EXCEPT !.act = a, !.age = n]
        BY <1>3, <4>2
      <4>3. CASE row' = [row EXCEPT !.over = TRUE, !.act = a, !.age = n]
        BY <1>3, <4>3
      <4> QED BY <4>1, <4>2, <4>3
    <3> QED BY <3>1, <3>2, <3>3
  <2> QED BY <2>1, <2>2, <2>3, <2>4, <2>5
<1> QED BY <1>1, <1>4, KillKept DEF KillInv, Main, Move

LEMMA KillBegins ==
  ASSUME Typed, KillInv, ~Overlap, KillBegin \/ RelaunchBegin \/ MoveBegin
  PROVE  KillInv'
<1>1. op \in [Slots -> Ops] /\ "main" \in Slots /\ "move" \in Slots
  BY DEF Typed, Slots
<1>2. CASE KillBegin
  BY <1>1, <1>2 DEF KillBegin, KillInv, Main, Move, Idle
<1>3. CASE RelaunchBegin
  BY <1>1, <1>3 DEF RelaunchBegin, KillInv, Main, Move, Idle
<1>4. CASE MoveBegin
  BY <1>1, <1>4 DEF MoveBegin, KillInv, Main, Move, Idle
<1> QED BY <1>2, <1>3, <1>4

LEMMA KillStops ==
  ASSUME Typed, KillInv, KillStop \/ KillFree
  PROVE  KillInv'
<1>1. "main" \in Slots /\ "move" \in Slots \ {"main"} /\ {"free", "read"} \subseteq Pcs
  BY DEF Slots, Pcs
<1>2. UNCHANGED <<row, killed>> /\ Main.pc # "idle"
  BY DEF KillStop, KillFree, Main
<1>3. Move' = Move
  BY <1>1, OtherSlots DEF KillStop, KillFree, Move
<1>4. Main' = Idle \/ (Main'.pc \in {"free", "read"} /\ Main'.kind = Main.kind)
  BY <1>1, SlotStep DEF KillStop, KillFree, Main
<1> QED BY <1>2, <1>3, <1>4 DEF KillInv, Idle

LEMMA KillMoves ==
  ASSUME Typed, KillInv, MoveStop \/ MoveEpoch
  PROVE  KillInv'
<1>1. "move" \in Slots /\ "main" \in Slots \ {"move"} /\ {"epoch", "start"} \subseteq Pcs
  BY DEF Slots, Pcs
<1>2. op["move"].pc # "idle" /\ op["move"].kind # "kill" /\ UNCHANGED killed
  BY DEF MoveStop, MoveEpoch, KillInv, Move
<1>3. op[ "move"] \in Ops /\ op \in [Slots -> Ops]
  BY DEF Typed, Slots
<1>4. op'["main"] = op["main"] /\ op'["move"].kind # "kill"
  <2> DEFINE back == [op["move"] EXCEPT !.pc = "start", !.kind = "back"]
  <2>1. CASE op' = [op EXCEPT !["move"] = back]
    BY <1>1, <1>3, <2>1 DEF Ops
  <2>2. CASE Go("move", "epoch") \/ Go("move", "start") \/ End("move")
    BY <1>1, <1>2, <2>2, OtherSlots, SlotStep DEF Idle
  <2> QED BY <2>1, <2>2 DEF MoveStop, MoveEpoch
<1> QED BY <1>1, <1>2, <1>4, KillOther DEF Slots

\* A kill ends with the session terminated, and only while nothing moves it.
LEMMA KillMarks ==
  ASSUME Typed, KillInv, NEW s \in Slots, MarkRead(s) \/ MarkWrite(s)
  PROVE  KillInv'
<1>1. {"read"} \subseteq Pcs /\ op[s].pc # "idle" /\ op[s] \in Ops /\ op \in [Slots -> Ops]
  BY DEF MarkRead, MarkWrite, Pcs, Typed
<1>2. row.over => row'.over
  <2>1. row \in Rows
    BY DEF Typed
  <2>2. [row EXCEPT !.over = TRUE, !.act = "exited", !.age = 0].over = TRUE
    BY <2>1 DEF Rows
  <2> QED BY <2>2 DEF MarkRead, MarkWrite, Write
<1>3. \A r \in Slots \ {s} : op'[r] = op[r]
  <2>1. CASE MarkRead(s)
    BY <1>1, <2>1, OtherSlots DEF MarkRead, Done
  <2>2. CASE MarkWrite(s)
    BY <2>2, OtherSlots DEF MarkWrite, Done
  <2> QED BY <2>1, <2>2
<1>4. /\ op'[s] = Idle \/ (op'[s].kind = op[s].kind /\ op'[s].pc \in {"read", "mark"})
      /\ UNCHANGED killed \/ (op'[s] = Idle /\ row'.over /\ killed' = (killed \/ op[s].kind = "kill"))
  <2>1. CASE MarkRead(s)
    BY <1>1, <2>1, SlotStep DEF MarkRead, Done, Ops
  <2>2. CASE MarkWrite(s)
    <3>1. row \in Rows /\ [row EXCEPT !.over = TRUE, !.act = "exited", !.age = 0].over = TRUE
      BY DEF Typed, Rows
    <3> QED BY <1>1, <2>2, <3>1, SlotStep DEF MarkWrite, Done, Write
  <2> QED BY <2>1, <2>2
<1>5. CASE s = "move"
  <2>1. killed' = killed /\ op'[s].kind # "kill" /\ op[s].kind # "kill"
    BY <1>4, <1>5 DEF KillInv, Move, Idle, Typed
  <2> QED BY <1>1, <1>3, <2>1, KillOther
<1>6. CASE s = "main"
  <2>1. Move' = Move /\ Move.pc = "idle"
    BY <1>1, <1>3, <1>6 DEF KillInv, Main, Move, Slots
  <2> QED BY <1>1, <1>2, <1>4, <1>6, <2>1 DEF KillInv, Main, Idle
<1> QED BY <1>5, <1>6 DEF Slots

LEMMA KillLaunches ==
  ASSUME Typed, KillInv, NEW s \in Slots, Prepare(s) \/ Create(s) \/ Spawn(s) \/ ChatStart(s)
  PROVE  KillInv'
<1>1. op[s].pc \in {"start", "create", "spawn"} /\ UNCHANGED killed /\ {"spawn", "read"} \subseteq Pcs
  BY DEF Prepare, Create, Spawn, ChatStart, Pcs
<1>2. op[s].kind # "kill"
  BY <1>1 DEF KillInv, Main, Move, Slots
<1>3. op[s] \in Ops /\ op \in [Slots -> Ops]
  BY DEF Typed
<1>4. op'[s].kind # "kill" /\ \A r \in Slots \ {s} : op'[r] = op[r]
  <2>1. CASE Fail(s) \/ End(s) \/ Go(s, "spawn") \/ Go(s, "read")
    BY <1>1, <1>2, <2>1, SlotStep, OtherSlots DEF Idle
  <2>2. CASE op' = [op EXCEPT ![s].pc = "create", ![s].gen = made']
    BY <1>2, <1>3, <2>2 DEF Ops
  <2> QED BY <2>1, <2>2 DEF Prepare, Create, Spawn, ChatStart
<1> QED BY <1>1, <1>2, <1>4, KillOther

LEMMA KillStep == ~Overlap /\ Typed /\ KillInv /\ [Next]_vars => KillInv'
BY KillQuiet, KillBegins, KillStops, KillMoves, KillMarks, KillLaunches DEF Next, Running

\* A killed session stays dead until somebody relaunches it, in any number of kills,
\* launches and late hooks, as long as no handoff starts beside a kill.
THEOREM KilledAlways == ~Overlap => (Spec => []KilledStaysDead)
<1> SUFFICES ASSUME ~Overlap
             PROVE  Spec => []KilledStaysDead
  OBVIOUS
<1>1. KillInv => KilledStaysDead
  BY DEF KillInv, KilledStaysDead
<1>2. Typed /\ KillInv /\ [Next]_vars => KillInv'
  BY KillStep
<1> QED BY <1>1, <1>2, TypedInit, TypedStep, KillInit, PTL DEF Spec

-----------------------------------------------------------------------------
(* A launch whose end was seen does not come back.                          *)

\* Names are given out in order, and one launch at a time waits for its runtime.
Launching(s) == op[s].pc \in {"create", "spawn"}
Drawn ==
  /\ row.own <= made /\ term.by <= made /\ chat <= made /\ reaper.gen <= made /\ pending <= made
  /\ \A h \in hooks : h.gen <= made
  /\ \A s \in Slots : Launching(s) => op[s].gen = pending
  /\ ~(Launching("main") /\ Launching("move"))

\* What is known of a launch is not known of one that has no runtime yet.
Coming(g) == \E s \in Slots : op[s].pc = "create" /\ op[s].gen = g
Known ==
  /\ ~Coming(row.own) /\ ~Coming(term.by) /\ ~Coming(chat) /\ ~Coming(reaper.gen)
  /\ \A h \in hooks : ~Coming(h.gen)

\* A launch whose end somebody has seen does not run.
Ended(g) == ~(term.by = g /\ term.work)
Gone(g)  == ~(term.by = g /\ term.up)
Endings ==
  /\ term.work => term.up
  /\ chat # 0 => Ended(chat)
  /\ \A h \in hooks : h.ev = "exit" => Ended(h.gen)
  /\ reaper.fact = "gone" => Ended(reaper.gen)
  /\ reaper.fact = "dead" => Gone(reaper.gen)

Fresh == Drawn /\ Known /\ Endings

\* No operation gets a launch in the step.
Settles == \A s \in Slots : Launching(s)' => /\ Launching(s) /\ op'[s].gen = op[s].gen
                                             /\ op'[s].pc = "create" => op[s].pc = "create"

LEMMA FreshInit == Init => Fresh /\ ExitedIsReal
<1> SUFFICES ASSUME Init PROVE Fresh /\ ExitedIsReal
  OBVIOUS
<1>1. PICK mode \in {"tui", "chat"} :
        /\ row = [mode |-> mode, own |-> 1, over |-> FALSE, act |-> "idle", age |-> 0]
        /\ term = [by |-> 1, up |-> mode = "tui", work |-> mode = "tui"]
        /\ chat = IF mode = "chat" THEN 1 ELSE 0
  BY DEF Init
<1>2. row.own = 1 /\ row.act = "idle" /\ term.by = 1
  BY <1>1
<1>3. term.work = (mode = "tui") /\ term.up = (mode = "tui")
  BY <1>1
<1>4. (term.work => term.up) /\ (chat # 0 => ~term.work) /\ chat \in {0, 1}
  BY <1>1, <1>3
<1>5. /\ made = 1 /\ pending = 0 /\ hooks = {} /\ \A s \in Slots : op[s].pc = "idle"
      /\ reaper.gen = 0 /\ reaper.fact = "none"
  BY DEF Init, Idle, Asleep
<1>6. Drawn
  BY <1>2, <1>4, <1>5 DEF Drawn, Launching, Slots
<1>7. Known
  BY <1>5 DEF Known, Coming
<1>8. Endings /\ ExitedIsReal
  BY <1>2, <1>4, <1>5 DEF Endings, ExitedIsReal, Ended
<1> QED BY <1>6, <1>7, <1>8 DEF Fresh

LEMMA Numbers ==
  ASSUME Typed
  PROVE  /\ made \in Nat /\ row.own \in Nat /\ term.by \in Nat /\ term.by # 0 /\ chat \in Nat
         /\ reaper.gen \in Nat /\ pending \in Nat
         /\ \A h \in hooks : h.gen \in Nat
         /\ \A s \in Slots : op[s].gen \in Nat
BY Bounds DEF Typed, Gens, Launches, Rows, Terms, Reapers, Hooks, Ops

LEMMA ComingSettles ==
  ASSUME Settles
  PROVE  \A g : ~Coming(g) => \A s \in Slots : ~(op'[s].pc = "create" /\ op'[s].gen = g)
BY DEF Settles, Coming, Launching

LEMMA NoneComing == Typed => ~Coming(0)
BY DEF Typed, Named, Coming

LEMMA OpSettles ==
  ASSUME Typed, NEW s \in Slots,
         \/ End(s) \/ Fail(s) \/ \E pc \in Pcs \ {"create", "spawn"} : Go(s, pc)
         \/ op[s].pc = "create" /\ Go(s, "spawn")
  PROVE  Settles
<1>1. \A r \in Slots \ {s} : op'[r] = op[r]
  BY OtherSlots
<1>2. CASE End(s) \/ Fail(s) \/ \E pc \in Pcs \ {"create", "spawn"} : Go(s, pc)
  <2>1. op'[s].pc \notin {"create", "spawn"}
    BY <1>2, SlotStep DEF Idle
  <2> QED BY <1>1, <2>1 DEF Settles, Launching
<1>3. CASE op[s].pc = "create" /\ Go(s, "spawn")
  <2>1. op'[s].pc = "spawn" /\ op'[s].gen = op[s].gen
    BY <1>3, SlotStep DEF Pcs
  <2> QED BY <1>1, <1>3, <2>1 DEF Settles, Launching
<1> QED BY <1>2, <1>3

\* A step that names no launch, starts nothing and believes only what is so.
LEMMA QuietStep ==
  ASSUME Typed, Drawn, Known, Endings, Settles, UNCHANGED made,
         pending' \in {pending, 0}, \A s \in Slots : Launching(s)' => pending' = pending,
         row'.own \in {row.own, 0} \/ (row'.own <= made /\ ~Coming(row'.own)),
         term'.by = term.by, term'.work => term.work, term'.up => term.up, term'.work => term'.up,
         chat' \in {chat, 0},
         \A h \in hooks' : \/ h \in hooks
                           \/ h.gen \in {term.by, chat} /\ (h.ev = "exit" => Ended(h.gen)'),
         reaper'.gen \in {reaper.gen, row.own, 0},
         reaper'.fact = "gone" => Ended(reaper.gen)',
         reaper'.fact = "dead" => Gone(reaper.gen)'
  PROVE  Drawn' /\ Known' /\ Endings'
<1>1. Drawn'
  <2>1. row'.own <= made /\ term'.by <= made /\ chat' <= made /\ reaper'.gen <= made
    BY Numbers DEF Drawn
  <2>2. \A h \in hooks' : h.gen <= made
    BY Numbers DEF Drawn
  <2>3. \A s \in Slots : Launching(s)' => op'[s].gen = pending'
    BY DEF Drawn, Settles
  <2>5. pending' <= made
    BY Numbers DEF Drawn
  <2>4. ~(Launching("main")' /\ Launching("move")')
    BY DEF Drawn, Settles, Slots
  <2> QED BY <2>1, <2>2, <2>3, <2>4, <2>5 DEF Drawn
<1>2. Known'
  <2>1. ~Coming(row.own)' /\ ~Coming(term.by)' /\ ~Coming(chat)' /\ ~Coming(reaper.gen)'
    <3>1. \A g \in {row'.own, term'.by, chat', reaper'.gen} : ~Coming(g)
      BY NoneComing DEF Known
    <3> QED BY <3>1, ComingSettles DEF Coming
  <2>2. \A h \in hooks' : ~Coming(h.gen)'
    <3>1. \A h \in hooks' : ~Coming(h.gen)
      BY DEF Known
    <3> QED BY <3>1, ComingSettles DEF Coming
  <2> QED BY <2>1, <2>2 DEF Known
<1>3. \A g : Ended(g) => ~(term'.by = g /\ term'.work)
  BY DEF Ended
<1>4. Endings'
  <2>1. chat' # 0 => Ended(chat)'
    BY <1>3 DEF Endings, Ended
  <2>2. \A h \in hooks' : h.ev = "exit" => Ended(h.gen)'
    BY <1>3 DEF Endings, Ended
  <2> QED BY <2>1, <2>2 DEF Endings
<1> QED BY <1>1, <1>2, <1>4

LEMMA AgentsFresh ==
  ASSUME Typed, Fresh, Agents \/ Tick
  PROVE  Fresh'
<1>1. Settles /\ UNCHANGED <<pending, made>>
  BY DEF Agents, Works, AgentExits, RuntimeDies, Loses, Tick, Settles, Launching
<1>2. row \in Rows /\ term \in Terms /\ reaper \in Reapers
  BY DEF Typed
<1>3. CASE Works
  <2>1. UNCHANGED <<row, term, chat, reaper>>
    BY <1>3 DEF Works, procs
  <2>2. \A h \in hooks' : h \in hooks \/ (h.gen \in {term.by, chat} /\ h.ev # "exit")
    BY <1>3 DEF Works, Emit
  <2> QED BY <1>1, <2>1, <2>2, QuietStep DEF Fresh, Endings, Ended, Gone
<1>4. CASE AgentExits
  <2>1. /\ UNCHANGED <<row, reaper>> /\ chat' \in {chat, 0}
        /\ term' = term \/ term' = [term EXCEPT !.work = FALSE]
    BY <1>4 DEF AgentExits
  <2>2. /\ term'.by = term.by /\ term'.up = term.up /\ (term'.work => term.work)
        /\ term' = [term EXCEPT !.work = FALSE] => ~term'.work
    BY <1>2, <2>1 DEF Terms
  <2>3. \A h \in hooks' : h \in hooks \/ (h.gen \in {term.by, chat} /\ Ended(h.gen)')
    <3>1. CASE chat # 0 /\ Emit(chat, "exit") /\ UNCHANGED term
      BY <3>1 DEF Emit, Fresh, Endings, Ended
    <3>2. CASE Emit(term.by, "exit") /\ term' = [term EXCEPT !.work = FALSE]
      BY <2>2, <3>2 DEF Emit, Ended
    <3> QED BY <1>4, <3>1, <3>2 DEF AgentExits
  <2> QED BY <1>1, <2>1, <2>2, <2>3, QuietStep DEF Fresh, Endings, Ended, Gone
<1>5. CASE RuntimeDies
  <2>1. UNCHANGED <<row, chat, hooks, reaper>> /\ term' = [term EXCEPT !.up = FALSE, !.work = FALSE]
    BY <1>5 DEF RuntimeDies
  <2>2. term'.by = term.by /\ ~term'.up /\ ~term'.work
    BY <1>2, <2>1 DEF Terms
  <2> QED BY <1>1, <2>1, <2>2, QuietStep DEF Fresh, Ended, Gone
<1>6. CASE Loses
  <2>1. UNCHANGED <<row, term, chat, reaper>> /\ hooks' \subseteq hooks
    BY <1>6 DEF Loses, procs
  <2> QED BY <1>1, <2>1, QuietStep DEF Fresh, Endings, Ended, Gone
<1>7. CASE Tick
  <2>1. /\ UNCHANGED <<term, chat, hooks>> /\ row'.own = row.own
        /\ reaper'.gen = reaper.gen /\ reaper'.fact = reaper.fact
    <3>1. PICK n : row' = [row EXCEPT !.age = n]
      BY <1>7 DEF Tick
    <3>2. reaper' = reaper \/ reaper' = [reaper EXCEPT !.wait = 1]
      BY <1>7 DEF Tick
    <3>3. row'.own = row.own
      BY <1>2, <3>1 DEF Rows
    <3>4. reaper'.gen = reaper.gen /\ reaper'.fact = reaper.fact
      BY <1>2, <3>2 DEF Reapers
    <3> QED BY <1>7, <3>3, <3>4 DEF Tick, procs
  <2> QED BY <1>1, <2>1, QuietStep DEF Fresh, Endings, Ended, Gone
<1> QED BY <1>3, <1>4, <1>5, <1>6, <1>7 DEF Agents

LEMMA SignalFresh ==
  ASSUME Typed, Fresh, Signal \/ ScreenRead \/ ScreenSignal
  PROVE  Fresh'
<1>1. Settles /\ UNCHANGED <<pending, made, term, chat, reaper>> /\ hooks' \subseteq hooks
  BY DEF Signal, ScreenRead, ScreenSignal, Settles, Launching, procs
<1>2. row'.own = row.own
  <2>1. row \in Rows /\ (UNCHANGED row \/ \E a, n : row' = [row EXCEPT !.act = a, !.age = n])
    BY DEF Signal, ScreenRead, ScreenSignal, Write, Typed
  <2> QED BY <2>1 DEF Rows
<1> QED BY <1>1, <1>2, QuietStep DEF Fresh, Endings, Ended, Gone

LEMMA ReaperFresh ==
  ASSUME Typed, Fresh, Reaper \/ ReaperProbe \/ ReaperDoubts
  PROVE  Fresh'
<1>1. Settles /\ UNCHANGED <<pending, made, term, chat, hooks>>
  BY DEF Reaper, ReaperList, ReaperApply, ReaperFinal, ReaperProbe, ReaperDoubts, Settles,
         Launching, procs
<1>2. row \in Rows /\ reaper \in Reapers
  BY DEF Typed
<1>3. row'.own = row.own
  <2>1. \/ UNCHANGED row
        \/ \E a, n : \/ row' = [row EXCEPT !.act = a, !.age = n]
                     \/ row' = [row EXCEPT !.over = TRUE, !.act = a, !.age = n]
    BY DEF Reaper, ReaperList, ReaperApply, ReaperFinal, ReaperProbe, ReaperDoubts, Write
  <2> QED BY <1>2, <2>1 DEF Rows
<1>4. CASE Reaper
  <2>1. \/ reaper' = Asleep
        \/ reaper' = [Asleep EXCEPT !.pc = "probe", !.gen = row.own]
        \/ reaper' = [reaper EXCEPT !.pc = "final"]
    BY <1>4 DEF Reaper, ReaperList, ReaperApply, ReaperFinal
  <2>2. \/ reaper'.gen \in {0, row.own} /\ reaper'.fact = "none"
        \/ reaper'.gen = reaper.gen /\ reaper'.fact = reaper.fact
    <3>1. CASE reaper' = Asleep
      BY <3>1 DEF Asleep
    <3>2. CASE reaper' = [Asleep EXCEPT !.pc = "probe", !.gen = row.own]
      BY <3>2 DEF Asleep
    <3>3. CASE reaper' = [reaper EXCEPT !.pc = "final"]
      BY <1>2, <3>3 DEF Reapers
    <3> QED BY <2>1, <3>1, <3>2, <3>3
  <2> QED BY <1>1, <1>3, <2>2, QuietStep DEF Fresh, Endings, Ended, Gone
<1>5. CASE ReaperProbe
  <2>1. reaper'.gen = reaper.gen
        /\ reaper'.fact = (IF ~term.up THEN "dead"
                           ELSE IF term.work /\ term.by = reaper.gen THEN "alive" ELSE "gone")
    BY <1>2, <1>5 DEF ReaperProbe, Reapers
  <2> QED BY <1>1, <1>3, <2>1, QuietStep DEF Fresh, Endings, Ended, Gone
<1>6. CASE ReaperDoubts
  <2>1. reaper'.gen = reaper.gen /\ reaper'.fact = "failed"
    BY <1>2, <1>6 DEF ReaperDoubts, Reapers
  <2> QED BY <1>1, <1>3, <2>1, QuietStep DEF Fresh, Endings
<1> QED BY <1>4, <1>5, <1>6

LEMMA BeginFresh ==
  ASSUME Typed, Fresh, KillBegin \/ RelaunchBegin \/ MoveBegin
  PROVE  Fresh'
<1>1. UNCHANGED <<row, term, chat, pending, hooks, reaper, made>>
  BY DEF KillBegin, RelaunchBegin, MoveBegin, procs
<1>2. Settles
  <2>1. op \in [Slots -> Ops]
    BY DEF Typed
  <2>2. PICK m \in Slots, pc \in {"stop", "start"}, k \in {"kill", "relaunch", "there"} :
          op' = [op EXCEPT ![m] = [Idle EXCEPT !.pc = pc, !.kind = k]]
    BY DEF KillBegin, RelaunchBegin, MoveBegin, Slots
  <2>3. op'[m].pc = pc /\ \A r \in Slots \ {m} : op'[r] = op[r]
    BY <2>1, <2>2 DEF Idle
  <2> QED BY <2>3 DEF Settles, Launching
<1> QED BY <1>1, <1>2, QuietStep DEF Fresh, Endings, Ended, Gone

LEMMA StopFresh ==
  ASSUME Typed, Fresh, KillStop \/ KillFree \/ MoveStop
  PROVE  Fresh'
<1>1. UNCHANGED <<row, pending, hooks, reaper, made>> /\ chat' \in {chat, 0} /\ term' \in {term, Dead}
  BY DEF KillStop, KillFree, MoveStop, procs
<1>2. Settles
  <2>1. "main" \in Slots /\ "move" \in Slots /\ {"free", "read", "epoch"} \subseteq Pcs \ {"create", "spawn"}
    BY DEF Slots, Pcs
  <2> QED BY <2>1, OpSettles DEF KillStop, KillFree, MoveStop
<1>3. term'.by = term.by /\ (term'.work => term.work) /\ (term'.up => term.up)
      /\ (term' = term \/ ~term'.work)
  BY <1>1, DeadTyped
<1> QED BY <1>1, <1>2, <1>3, QuietStep DEF Fresh, Endings, Ended, Gone

LEMMA MarkFresh ==
  ASSUME Typed, Fresh, NEW s \in Slots, MarkRead(s) \/ MarkWrite(s)
  PROVE  Fresh'
<1>1. UNCHANGED <<term, chat, pending, hooks, reaper, made>>
  BY DEF MarkRead, MarkWrite, procs
<1>2. Settles
  <2>1. \/ End(s) \/ Go(s, "read")
        \/ op' = [op EXCEPT ![s].pc = "mark", ![s].gen = row.own]
    BY DEF MarkRead, MarkWrite, Done
  <2>2. CASE End(s) \/ Go(s, "read")
    BY <2>2, OpSettles DEF Pcs
  <2>3. CASE op' = [op EXCEPT ![s].pc = "mark", ![s].gen = row.own]
    <3>1. op \in [Slots -> Ops]
      BY DEF Typed
    <3>2. op'[s].pc = "mark" /\ \A r \in Slots \ {s} : op'[r] = op[r]
      BY <2>3, <3>1 DEF Ops
    <3> QED BY <3>2 DEF Settles, Launching
  <2> QED BY <2>1, <2>2, <2>3
<1>3. row'.own = row.own
  <2>1. row \in Rows /\ (UNCHANGED row \/ \E a, n : row' = [row EXCEPT !.over = TRUE, !.act = a, !.age = n])
    BY DEF MarkRead, MarkWrite, Write, Typed
  <2> QED BY <2>1 DEF Rows
<1> QED BY <1>1, <1>2, <1>3, QuietStep DEF Fresh, Endings, Ended, Gone

LEMMA EpochFresh ==
  ASSUME Typed, Fresh, MoveEpoch
  PROVE  Fresh'
<1>1. UNCHANGED <<term, chat, pending, hooks, reaper, made>>
  BY DEF MoveEpoch, procs
<1>2. Settles
  <2>1. "move" \in Slots /\ op \in [Slots -> Ops]
    BY DEF Slots, Typed
  <2>2. \/ End("move") \/ Go("move", "start")
        \/ op' = [op EXCEPT !["move"] = [op["move"] EXCEPT !.pc = "start", !.kind = "back"]]
    BY DEF MoveEpoch
  <2>3. CASE End("move") \/ Go("move", "start")
    BY <2>1, <2>3, OpSettles DEF Pcs
  <2>4. CASE op' = [op EXCEPT !["move"] = [op["move"] EXCEPT !.pc = "start", !.kind = "back"]]
    <3>1. op'["move"].pc = "start" /\ \A r \in Slots \ {"move"} : op'[r] = op[r]
      BY <2>1, <2>4 DEF Ops
    <3> QED BY <3>1 DEF Settles, Launching
  <2> QED BY <2>2, <2>3, <2>4
<1>3. row'.own \in {row.own, 0}
  <2>1. row \in Rows
        /\ (UNCHANGED row
            \/ row' = [row EXCEPT !.mode = Other(@), !.own = 0, !.act = "idle", !.age = 0])
    BY DEF MoveEpoch, Write, Typed
  <2> QED BY <2>1 DEF Rows
<1> QED BY <1>1, <1>2, <1>3, QuietStep DEF Fresh, Endings, Ended, Gone

LEMMA PrepareFresh ==
  ASSUME Typed, Fresh, NEW s \in Slots, Prepare(s)
  PROVE  Fresh'
<1>1. UNCHANGED <<row, term, chat, hooks, reaper>>
  BY DEF Prepare, procs
<1>2. CASE Fail(s) /\ UNCHANGED <<pending, made>>
  BY <1>1, <1>2, OpSettles, QuietStep DEF Fresh, Endings, Ended, Gone
<1>3. CASE /\ pending = 0 /\ made < MaxLaunches /\ made' = made + 1 /\ pending' = made'
           /\ op' = [op EXCEPT ![s].pc = "create", ![s].gen = made']
  <2>1. op \in [Slots -> Ops]
    BY DEF Typed
  <2>2. op'[s].pc = "create" /\ op'[s].gen = made' /\ \A r \in Slots \ {s} : op'[r] = op[r]
    BY <1>3, <2>1 DEF Ops
  <2>3. \A r \in Slots : ~Launching(r)
    BY <1>3 DEF Fresh, Drawn, Launching, Typed, Named
  <2>4. \A g : Coming(g)' => g = made'
    BY <2>2, <2>3 DEF Coming, Launching
  <2>5. Drawn'
    <3>1. row'.own <= made' /\ term'.by <= made' /\ chat' <= made' /\ reaper'.gen <= made'
          /\ pending' <= made' /\ \A h \in hooks' : h.gen <= made'
      BY <1>1, <1>3, Numbers DEF Fresh, Drawn
    <3>2. \A r \in Slots \ {s} : ~Launching(r)'
      BY <2>2, <2>3 DEF Launching
    <3>3. \A r \in Slots : Launching(r)' => op'[r].gen = pending'
      BY <1>3, <2>2, <3>2
    <3>4. ~(Launching("main")' /\ Launching("move")')
      BY <3>2 DEF Slots
    <3> QED BY <3>1, <3>3, <3>4 DEF Drawn
  <2>6. Known'
    <3>1. \A g \in {row'.own, term'.by, chat', reaper'.gen} : g # made'
      BY <1>1, <1>3, Numbers DEF Fresh, Drawn
    <3>2. \A h \in hooks' : h.gen # made'
      BY <1>1, <1>3, Numbers DEF Fresh, Drawn
    <3>3. ~Coming(row.own)' /\ ~Coming(term.by)' /\ ~Coming(chat)' /\ ~Coming(reaper.gen)'
      BY <2>2, <2>3, <3>1 DEF Coming, Launching
    <3>4. \A h \in hooks' : ~Coming(h.gen)'
      BY <2>4, <3>2
    <3> QED BY <3>3, <3>4 DEF Known
  <2>7. Endings'
    BY <1>1 DEF Fresh, Endings, Ended, Gone
  <2> QED BY <2>5, <2>6, <2>7 DEF Fresh
<1> QED BY <1>2, <1>3 DEF Prepare

LEMMA CreateFresh ==
  ASSUME Typed, Fresh, NEW s \in Slots, Create(s)
  PROVE  Fresh'
<1>1. UNCHANGED <<row, chat, hooks, reaper, made>> /\ op[s].pc = "create"
  BY DEF Create
<1>2. \A r \in Slots \ {s} : ~Launching(r)
  BY <1>1 DEF Fresh, Drawn, Launching, Slots
<1>3. CASE term' \in {term, Dead} /\ pending' = 0 /\ Fail(s)
  <2>1. Settles
    BY <1>3, OpSettles
  <2>2. \A r \in Slots : ~Launching(r)'
    <3>1. ~Launching(s)'
      BY <1>3, SlotStep DEF Launching
    <3> QED BY <1>2, <2>1, <3>1 DEF Settles
  <2>3. term'.by = term.by /\ (term'.work => term.work) /\ (term'.up => term.up)
        /\ (term' = term \/ ~term'.work)
    BY <1>3, DeadTyped
  <2> QED BY <1>1, <1>3, <2>1, <2>2, <2>3, QuietStep DEF Fresh, Endings, Ended, Gone
<1>4. CASE /\ term' = [by |-> op[s].gen, up |-> TRUE, work |-> TRUE]
           /\ Go(s, "spawn") /\ UNCHANGED pending
  <2>1. /\ op'[s].pc = "spawn" /\ op'[s].gen = op[s].gen
        /\ \A r \in Slots \ {s} : op'[r] = op[r]
    BY <1>4, SlotStep, OtherSlots DEF Pcs
  <2>2. \A g : ~Coming(g)'
    BY <1>2, <2>1 DEF Coming, Launching
  <2>3. term'.by = op[s].gen /\ term'.up /\ term'.work /\ op[s].gen = pending
    BY <1>1, <1>4 DEF Fresh, Drawn, Launching
  <2>4. Drawn'
    <3>1. \A r \in Slots : Launching(r)' => op'[r].gen = pending'
      BY <1>2, <1>4, <2>1, <2>3 DEF Launching
    <3>2. ~(Launching("main")' /\ Launching("move")')
      BY <1>2, <2>1 DEF Launching, Slots
    <3> QED BY <1>1, <1>4, <2>3, <3>1, <3>2 DEF Fresh, Drawn
  <2>5. Known'
    <3>1. \A r \in Slots : op'[r].pc # "create"
      BY <1>2, <2>1 DEF Launching
    <3> QED BY <3>1 DEF Known, Coming
  <2>6. Endings'
    <3>1. \A g : ~Coming(g) => g # term'.by
      BY <1>1, <2>3 DEF Coming
    <3>2. chat' # 0 => Ended(chat)'
      BY <1>1, <3>1 DEF Fresh, Known, Ended
    <3>3. \A h \in hooks' : Ended(h.gen)'
      BY <1>1, <3>1 DEF Fresh, Known, Ended
    <3>4. Ended(reaper.gen)' /\ Gone(reaper.gen)'
      BY <1>1, <3>1 DEF Fresh, Known, Ended, Gone
    <3> QED BY <2>3, <3>2, <3>3, <3>4 DEF Endings
  <2> QED BY <2>4, <2>5, <2>6 DEF Fresh
<1> QED BY <1>3, <1>4 DEF Create

LEMMA SpawnedRow ==
  ASSUME Typed, NEW g
  PROVE  Spawned(g).own = g /\ ~Spawned(g).over /\ Spawned(g).act = "idle" /\ Spawned(g).mode = row.mode
<1>1. row \in Rows
  BY DEF Typed
<1> QED BY <1>1 DEF Spawned, Rows

LEMMA SpawnFresh ==
  ASSUME Typed, Fresh, NEW s \in Slots, Spawn(s)
  PROVE  Fresh'
<1>1. UNCHANGED <<chat, hooks, reaper, made>> /\ op[s].pc = "spawn" /\ pending' = 0
      /\ term' \in {term, Dead} /\ (End(s) \/ Go(s, "read") \/ Fail(s))
      /\ (row' = row \/ row' = Spawned(op[s].gen))
  BY DEF Spawn, Write
<1>2. Settles
  BY <1>1, OpSettles DEF Pcs
<1>3. \A r \in Slots \ {s} : ~Launching(r)
  BY <1>1 DEF Fresh, Drawn, Launching, Slots
<1>4. \A r \in Slots : ~Launching(r)'
  <2>1. op'[s].pc \notin {"create", "spawn"}
    BY <1>1, SlotStep DEF Idle, Pcs
  <2> QED BY <1>2, <1>3, <2>1 DEF Settles, Launching
<1>5. op[s].gen <= made /\ ~Coming(op[s].gen)
  BY <1>1, <1>3 DEF Fresh, Drawn, Launching, Coming
<1>6. row'.own = row.own \/ row'.own = op[s].gen
  BY <1>1, SpawnedRow
<1>7. term'.by = term.by /\ (term'.work => term.work) /\ (term'.up => term.up)
      /\ (term' = term \/ ~term'.work)
  BY <1>1, DeadTyped
<1> QED BY <1>1, <1>2, <1>4, <1>5, <1>6, <1>7, QuietStep DEF Fresh, Endings, Ended, Gone

LEMMA ChatFresh ==
  ASSUME Typed, Fresh, NEW s \in Slots, ChatStart(s)
  PROVE  Fresh'
<1>1. UNCHANGED <<term, pending, hooks, reaper>>
  BY DEF ChatStart
<1>2. Settles
  BY OpSettles DEF ChatStart
<1>3. CASE UNCHANGED <<row, chat, made>>
  BY <1>1, <1>2, <1>3, QuietStep DEF Fresh, Endings, Ended, Gone
<1>4. CASE made < MaxLaunches /\ made' = made + 1 /\ chat' = made' /\ Write(Spawned(made'))
  <2>1. row'.own = made' /\ made' \in Nat /\ made' # 0
    BY <1>4, SpawnedRow, Numbers DEF Write
  <2>2. Drawn'
    <3>1. term'.by <= made' /\ reaper'.gen <= made' /\ pending' <= made'
          /\ \A h \in hooks' : h.gen <= made'
      BY <1>1, <1>4, Numbers DEF Fresh, Drawn
    <3>2. \A r \in Slots : Launching(r)' => op'[r].gen = pending'
      BY <1>1, <1>2 DEF Fresh, Drawn, Settles
    <3>3. ~(Launching("main")' /\ Launching("move")')
      BY <1>2 DEF Fresh, Drawn, Settles, Slots
    <3> QED BY <1>4, <2>1, <3>1, <3>2, <3>3 DEF Drawn
  <2>3. Known'
    <3>1. ~Coming(made')
      BY <1>4, Numbers DEF Fresh, Drawn, Coming, Launching
    <3>2. \A g \in {row'.own, term'.by, chat', reaper'.gen} : ~Coming(g)
      BY <1>1, <1>4, <2>1, <3>1 DEF Fresh, Known
    <3>3. ~Coming(row.own)' /\ ~Coming(term.by)' /\ ~Coming(chat)' /\ ~Coming(reaper.gen)'
      BY <1>2, <3>2, ComingSettles DEF Coming
    <3>4. \A h \in hooks' : ~Coming(h.gen)
      BY <1>1 DEF Fresh, Known
    <3>5. \A h \in hooks' : ~Coming(h.gen)'
      BY <1>2, <3>4, ComingSettles DEF Coming
    <3> QED BY <3>3, <3>5 DEF Known
  <2>4. Endings'
    <3>1. term.by # made'
      BY <1>4, Numbers DEF Fresh, Drawn
    <3>2. Ended(chat)'
      BY <1>1, <1>4, <3>1 DEF Ended
    <3> QED BY <1>1, <3>2 DEF Fresh, Endings, Ended, Gone
  <2> QED BY <2>2, <2>3, <2>4 DEF Fresh
<1> QED BY <1>3, <1>4 DEF ChatStart

LEMMA FreshStep == Typed /\ Fresh /\ [Next]_vars => Fresh'
<1> SUFFICES ASSUME Typed, Fresh, [Next]_vars PROVE Fresh'
  OBVIOUS
<1>1. CASE UNCHANGED vars
  BY <1>1 DEF vars, Fresh, Drawn, Known, Endings, Launching, Coming, Ended, Gone
<1> QED BY <1>1, AgentsFresh, SignalFresh, ReaperFresh, BeginFresh, StopFresh, MarkFresh,
           EpochFresh, PrepareFresh, CreateFresh, SpawnFresh, ChatFresh DEF Next, Running

\* An owner that does not run does not come to run, unless it is being started.
LEMMA EndedKept ==
  ASSUME Typed, Fresh, [Next]_vars, Ended(row.own)
  PROVE  ~(term'.by = row.own /\ term'.work)
<1>1. CASE \E s \in Slots : Create(s) /\ term' = [by |-> op[s].gen, up |-> TRUE, work |-> TRUE]
  BY <1>1 DEF Create, Fresh, Known, Coming
<1>2. CASE term' = term \/ term' = [term EXCEPT !.work = FALSE]
           \/ term' = [term EXCEPT !.up = FALSE, !.work = FALSE] \/ term' = Dead
  <2>1. term'.by = term.by /\ (term'.work => term.work)
    <3>1. term \in Terms
      BY DEF Typed
    <3> QED BY <1>2, <3>1, DeadTyped DEF Terms
  <2> QED BY <2>1 DEF Ended
<1>3. \/ \E s \in Slots : Create(s) /\ term' = [by |-> op[s].gen, up |-> TRUE, work |-> TRUE]
      \/ term' = term \/ term' = [term EXCEPT !.work = FALSE]
      \/ term' = [term EXCEPT !.up = FALSE, !.work = FALSE] \/ term' = Dead
  <2>1. CASE UNCHANGED vars
    BY <2>1 DEF vars
  <2>2. CASE Agents \/ Tick \/ Signal \/ ScreenRead \/ ScreenSignal
    BY <2>2 DEF Agents, Works, AgentExits, RuntimeDies, Loses, Tick, Signal, ScreenRead,
                ScreenSignal, procs
  <2>3. CASE Reaper \/ ReaperProbe \/ ReaperDoubts \/ KillBegin \/ RelaunchBegin \/ MoveBegin
    BY <2>3 DEF Reaper, ReaperList, ReaperApply, ReaperFinal, ReaperProbe, ReaperDoubts,
                KillBegin, RelaunchBegin, MoveBegin, procs
  <2>4. CASE KillStop \/ KillFree \/ MoveStop \/ MoveEpoch
    BY <2>4 DEF KillStop, KillFree, MoveStop, MoveEpoch, procs
  <2>5. CASE \E s \in Slots : MarkRead(s) \/ MarkWrite(s) \/ Prepare(s)
                              \/ Create(s) \/ Spawn(s) \/ ChatStart(s)
    BY <2>5 DEF MarkRead, MarkWrite, Prepare, Create, Spawn, ChatStart, procs
  <2> QED BY <2>1, <2>2, <2>3, <2>4, <2>5 DEF Next, Running
<1> QED BY <1>1, <1>2, <1>3

\* What the row says after a step: as before, that its session has begun anew, that it
\* is terminated, or that its owner, whose end was seen, has exited.
LEMMA RowStep ==
  ASSUME Typed, Fresh, [Next]_vars
  PROVE  \/ row'.own = row.own /\ (Owned' => Owned) /\ row'.act = row.act
         \/ row'.act # "exited" \/ row'.over
         \/ row'.own = row.own /\ Ended(row.own)
<1>1. row \in Rows
  BY DEF Typed
<1>2. CASE UNCHANGED row
  BY <1>2 DEF Owned
<1>3. CASE Tick
  <2>1. PICK n : row' = [row EXCEPT !.age = n]
    BY <1>3 DEF Tick
  <2>2. row'.own = row.own /\ row'.act = row.act /\ row'.over = row.over /\ row'.mode = row.mode
    BY <1>1, <2>1 DEF Rows
  <2> QED BY <2>2 DEF Owned
<1>4. CASE Signal /\ ~UNCHANGED row
  <2>1. PICK h \in hooks : Owns(h) /\ row' = [row EXCEPT !.act = After(h.ev), !.age = 0]
    BY <1>4 DEF Signal, Write
  <2>2. row'.own = row.own /\ row'.act = After(h.ev)
    BY <1>1, <2>1 DEF Rows
  <2>3. After(h.ev) = "exited" => h.ev = "exit"
    BY DEF After, Typed, Hooks, Events
  <2> QED BY <2>1, <2>2, <2>3 DEF Owns, Fresh, Endings
<1>5. CASE ScreenSignal /\ ~UNCHANGED row
  <2>1. row' = [row EXCEPT !.act = "idle", !.age = 0]
    BY <1>5 DEF ScreenSignal, Write
  <2> QED BY <1>1, <2>1 DEF Rows
<1>6. CASE ReaperApply /\ ~UNCHANGED row
  <2>1. Exits /\ row' = [row EXCEPT !.act = "exited", !.age = reaper.wait]
    BY <1>6 DEF ReaperApply, Write
  <2>2. row'.own = row.own
    BY <1>1, <2>1 DEF Rows
  <2>3. reaper.gen = row.own /\ reaper.fact = "gone"
    BY <2>1 DEF Exits, Matches
  <2> QED BY <2>2, <2>3 DEF Fresh, Endings
<1>7. CASE (ReaperFinal \/ \E s \in Slots : MarkWrite(s)) /\ ~UNCHANGED row
  <2>1. \E n : row' = [row EXCEPT !.over = TRUE, !.act = "exited", !.age = n]
    BY <1>7 DEF ReaperFinal, MarkWrite, Write
  <2> QED BY <1>1, <2>1 DEF Rows
<1>8. CASE MoveEpoch /\ ~UNCHANGED row
  <2>1. row' = [row EXCEPT !.mode = Other(@), !.own = 0, !.act = "idle", !.age = 0]
    BY <1>8 DEF MoveEpoch, Write
  <2> QED BY <1>1, <2>1 DEF Rows
<1>9. CASE (\E s \in Slots : Spawn(s) \/ ChatStart(s)) /\ ~UNCHANGED row
  <2>1. \E g : row' = Spawned(g)
    BY <1>9 DEF Spawn, ChatStart, Write
  <2> QED BY <2>1, SpawnedRow
<1>10. \/ UNCHANGED row \/ Tick \/ Signal \/ ScreenSignal \/ ReaperApply \/ ReaperFinal \/ MoveEpoch
       \/ \E s \in Slots : MarkWrite(s) \/ Spawn(s) \/ ChatStart(s)
  <2>1. CASE Agents \/ ScreenRead \/ ReaperList \/ ReaperProbe \/ ReaperDoubts \/ UNCHANGED vars
    BY <2>1 DEF Agents, Works, AgentExits, RuntimeDies, Loses, ScreenRead, ReaperList,
                ReaperProbe, ReaperDoubts, vars
  <2>2. CASE KillBegin \/ RelaunchBegin \/ MoveBegin \/ KillStop \/ KillFree \/ MoveStop
    BY <2>2 DEF KillBegin, RelaunchBegin, MoveBegin, KillStop, KillFree, MoveStop
  <2>3. CASE \E s \in Slots : MarkRead(s) \/ Prepare(s) \/ Create(s)
    BY <2>3 DEF MarkRead, Prepare, Create
  <2> QED BY <2>1, <2>2, <2>3 DEF Next, Running, Reaper
<1> QED BY <1>2, <1>3, <1>4, <1>5, <1>6, <1>7, <1>8, <1>9, <1>10

\* No late hook, probe or screen reading makes a working agent look exited, in any number
\* of launches and with any number of hooks on their way.
THEOREM ExitedAlways == Spec => []ExitedIsReal
<1>1. Typed /\ Fresh /\ ExitedIsReal /\ [Next]_vars => ExitedIsReal'
  <2> SUFFICES ASSUME Typed, Fresh, ExitedIsReal, [Next]_vars, Owned', row'.act = "exited"
               PROVE  ~Runs'
    BY DEF ExitedIsReal
  <2>1. row'.own = row.own /\ Ended(row.own)
    BY RowStep DEF Owned, ExitedIsReal, Ended, Runs
  <2> QED BY <2>1, EndedKept DEF Runs
<1> QED BY <1>1, TypedInit, TypedStep, FreshInit, FreshStep, PTL DEF Spec

\* The reaper terminates a session only when the runtime of the launch that owns it is
\* gone, however late its answer comes.
THEOREM DeadAlways == Spec => DeadIsDead
<1>1. Typed /\ Fresh /\ [Next]_vars
      => (row.mode = "tui" /\ reaper.pc = "final" /\ ~row.over /\ row'.over /\ reaper'.pc = "idle"
          => ~(term.up /\ term.by = row.own))
  <2> SUFFICES ASSUME Typed, Fresh, [Next]_vars, row.mode = "tui", reaper.pc = "final",
                      ~row.over, row'.over, reaper'.pc = "idle"
               PROVE  ~(term.up /\ term.by = row.own)
    OBVIOUS
  <2>1. ReaperFinal /\ Dies
    <3>1. row' # row /\ reaper' # reaper
      OBVIOUS
    <3>2. CASE Tick
      <4>1. reaper' = [reaper EXCEPT !.wait = 1]
        BY <3>2 DEF Tick
      <4>2. reaper \in Reapers
        BY DEF Typed
      <4> QED BY <4>1, <4>2 DEF Reapers
    <3>3. Tick \/ ReaperList \/ ReaperProbe \/ ReaperDoubts \/ ReaperApply \/ ReaperFinal
      <4>1. CASE Agents \/ Signal \/ ScreenRead \/ ScreenSignal \/ UNCHANGED vars
        BY <3>1, <4>1 DEF Agents, Works, AgentExits, RuntimeDies, Loses, Signal, ScreenRead,
                          ScreenSignal, vars
      <4>2. CASE KillBegin \/ RelaunchBegin \/ MoveBegin \/ KillStop \/ KillFree \/ MoveStop
                 \/ MoveEpoch
        BY <3>1, <4>2 DEF KillBegin, RelaunchBegin, MoveBegin, KillStop, KillFree, MoveStop,
                          MoveEpoch
      <4>3. CASE \E s \in Slots : MarkRead(s) \/ MarkWrite(s) \/ Prepare(s)
                                  \/ Create(s) \/ Spawn(s) \/ ChatStart(s)
        BY <3>1, <4>3 DEF MarkRead, MarkWrite, Prepare, Create, Spawn, ChatStart
      <4> QED BY <4>1, <4>2, <4>3 DEF Next, Running, Reaper
    <3>4. ReaperFinal
      BY <3>2, <3>3 DEF ReaperList, ReaperProbe, ReaperDoubts, ReaperApply
    <3> QED BY <3>1, <3>4 DEF ReaperFinal
  <2>2. CASE row.own = 0
    BY <2>2, Numbers
  <2>3. CASE reaper.gen = row.own
    BY <2>1, <2>3 DEF Dies, ClearlyDead, Fresh, Endings, Gone
  <2> QED BY <2>1, <2>2, <2>3 DEF Dies, Matches
<1>2. Spec => [](Typed /\ Fresh)
  BY TypedInit, TypedStep, FreshInit, FreshStep, PTL DEF Spec
<1>3. Spec => [][Next]_vars
  BY DEF Spec
<1>4. Typed /\ Fresh /\ [Next]_vars
      => [row.mode = "tui" /\ reaper.pc = "final" /\ ~row.over /\ row'.over /\ reaper'.pc = "idle"
          => ~(term.up /\ term.by = row.own)]_vars
  BY <1>1
<1> QED BY <1>2, <1>3, <1>4, PTL DEF DeadIsDead

-----------------------------------------------------------------------------
(* The second part: one launch, its tools, and the hooks on their way.      *)

Reports        == [ev : Kinds, tool : Tools \cup {None}]
Places(m)      == 1..Len(m)
Told(m, ev, t) == \E i \in Places(m) : m[i].ev = ev /\ m[i].tool = t

\* F!TypeOK without the bound of the count.
FlightTyped ==
  /\ world \in [lose : SUBSET Kinds, restarts : BOOLEAN] /\ world \in Worlds
  /\ kind \in AgentKinds /\ name \in [Tools -> Names]
  /\ turn \in [no : 0..MaxTurns, on : BOOLEAN] /\ run \subseteq Tools /\ dialog \subseteq run
  /\ over \in [done : SUBSET Tools, refused : SUBSET Tools, asked : SUBSET Tools]
  /\ mail \in Seq(Reports) /\ Len(mail) <= MaxMail
  /\ act \in {"idle", "active", "blocked"} /\ inflight \subseteq Tools
  /\ candidate \in Tools \cup {None} /\ cursorPending \in [Names -> Nat] /\ shown \subseteq Tools

\* What is known or on its way is of tools at work or done; outside a turn none works.
Alive ==
  /\ ~turn.on => run = {}
  /\ run \cap over.done = {} /\ over.refused \subseteq over.done
  /\ \A i \in Places(mail) : /\ mail[i].tool = None <=> Boundary(mail[i])
                             /\ mail[i].tool # None => mail[i].tool \in run \cup over.done
  /\ shown \subseteq run \cup over.done /\ inflight \subseteq run \cup over.done
  /\ kind # "cursor" => /\ shown \subseteq over.asked /\ dialog \subseteq over.asked
                       /\ \A i \in Places(mail) : mail[i].ev = "ask" => mail[i].tool \in over.asked

\* A boundary on its way parts the tools before it from those behind it.
Apart ==
  \A k \in Places(mail) : Boundary(mail[k]) =>
    /\ \A j \in Places(mail) : k < j /\ ~Boundary(mail[j]) =>
         /\ mail[j].tool \notin shown /\ mail[j].tool \notin inflight
         /\ \A i \in Places(mail) : i < k => mail[i].tool # mail[j].tool
    /\ \A t \in run :
         t \notin shown /\ t \notin inflight /\ \A i \in Places(mail) : i < k => mail[i].tool # t

\* Of one tool: its beginning first, its question next, its end last.
InOrder ==
  /\ \A i, j \in Places(mail) : i < j /\ mail[i].tool = mail[j].tool /\ mail[i].tool # None =>
       mail[j].ev # "pre" /\ mail[i].ev # "post" /\ (mail[j].ev = "ask" => mail[i].ev = "pre")
  /\ \A i \in Places(mail) : mail[i].ev = "post" => mail[i].tool \notin run
  /\ kind # "cursor" =>
       \A i \in Places(mail) : mail[i].tool \in run /\ mail[i].tool \notin over.asked => mail[i].ev = "pre"
  /\ kind = "cursor" => \A i \in Places(mail) : mail[i].tool \in run => mail[i].ev = "ask"

\* What is on its way has not arrived before.
Once ==
  \A i \in Places(mail) : /\ mail[i].ev = "ask" => mail[i].tool \notin shown
                          /\ mail[i].ev = "pre" => mail[i].tool \notin inflight

\* A proof to wait for, or a question to count, means that the session is blocked; Cursor
\* has only the count, the others only the proof.
Paused ==
  /\ candidate # None \/ (\E n \in Names : cursorPending[n] > 0) => act = "blocked"
  /\ kind = "cursor" => /\ candidate = None /\ inflight = {}
                       /\ \A i \in Places(mail) : mail[i].ev # "pre"
  /\ kind # "cursor" => \A n \in Names : cursorPending[n] = 0

\* The tool is at work, was refused, or its end is on its way.
EndComes(r, o, m, t) == t \in r \/ t \in o.refused \/ Told(m, "post", t)

\* With no hook lost, the reducer waits for nothing that cannot come.
Awaited ==
  world.lose = {} =>
    /\ \A t \in inflight : EndComes(run, over, mail, t)
    /\ candidate # None => EndComes(run, over, mail, candidate)
    /\ \A t : Told(mail, "pre", t) => EndComes(run, over, mail, t)

\* At the cap nothing is beginning.  So it is with no more tools than the cap.
Room       == Cardinality(inflight) >= MaxInflight => \A t : ~Told(mail, "pre", t)
RoomForAll == Cardinality(Tools) <= MaxInflight

\* A tool at work is known or about to be, so a unique name is the dialog's own tool;
\* there is one dialog, and once its question is taken no other is on its way.
Heeded ==
  Heard /\ kind # "cursor" =>
    /\ \A t \in run : t \in inflight \/ Told(mail, "pre", t)
    /\ \A t \in dialog : dialog = {t}
    /\ \A i, j \in Places(mail) :
         i < j /\ mail[i].ev = "ask" /\ mail[i].tool \in dialog => mail[j].ev # "ask"
    /\ \A t \in dialog : t \in shown =>
         act = "blocked" /\ candidate \in {t, None} /\ \A i \in Places(mail) : mail[i].ev # "ask"

\* Cursor's uses of a name whose question has been taken and whose end has not.
Open(sh, r, m, n) == {t \in sh : name[t] = n /\ (t \in r \/ Told(m, "post", t))}

\* The count of a name covers them, and no end overtakes its question.
Owed ==
  Heard /\ kind = "cursor" =>
    /\ \A n \in Names : Cardinality(Open(shown, run, mail, n)) <= cursorPending[n]
    /\ \A t \in Tools : t \in run \/ Told(mail, "post", t) => t \in shown \/ Told(mail, "ask", t)

\* A question is taken once, so no name is asked for more often than there are tools.
Bearers(sh, n) == {t \in sh : name[t] = n}
AskedFor == \A n \in Names : cursorPending[n] <= Cardinality(Bearers(shown, n))

\* After a turn either its end is still on its way, last of all, or nothing is left of it.
Closed ==
  world.lose = {} /\ ~turn.on /\ turn.no > 0 =>
    \/ /\ mail = <<>> /\ act = "idle" /\ inflight = {} /\ candidate = None
       /\ \A n \in Names : cursorPending[n] = 0
    \/ Len(mail) \in Places(mail) /\ mail[Len(mail)].ev = "stop"

\* Before the first turn nothing has been refused.
Begun == turn.no = 0 => ~turn.on /\ over.refused = {}

-----------------------------------------------------------------------------
(* What a step makes of the mail.                                           *)

\* e has been sent.
Longer(e) ==
  /\ mail' \in Seq(Reports) /\ Len(mail') <= MaxMail
  /\ \A i \in Places(mail) : i \in Places(mail') /\ mail'[i] = mail[i] /\ i < Len(mail')
  /\ Len(mail') \in Places(mail') /\ mail'[Len(mail')] = e
  /\ \A i \in Places(mail') : i \in Places(mail) \/ i = Len(mail')
  /\ \A ev, t : Told(mail', ev, t) <=> Told(mail, ev, t) \/ (e.ev = ev /\ e.tool = t)

\* What was at place k is gone; up says where the rest has come from.
Shorter(k, up) ==
  /\ mail' \in Seq(Reports) /\ Len(mail') <= MaxMail
  /\ \A i \in Places(mail') : up[i] \in Places(mail) /\ up[i] # k /\ mail'[i] = mail[up[i]]
  /\ \A i, j \in Places(mail') : i < j => up[i] < up[j]
  /\ \A ev, t : Told(mail', ev, t) => Told(mail, ev, t)
  /\ \A ev, t : Told(mail, ev, t) => Told(mail', ev, t) \/ (mail[k].ev = ev /\ mail[k].tool = t)

LEMMA FlightBounds ==
  /\ IsFiniteSet(Tools) /\ None \notin Tools /\ MaxInflight \in Nat \ {0}
  /\ MaxTurns \in Nat /\ MaxMail \in Nat
  /\ Worlds \subseteq [lose : SUBSET Kinds, restarts : BOOLEAN]
BY FlightAssumption DEF FlightAssumption

LEMMA PlacesNat == \A m : Len(m) \in Nat => Places(m) \subseteq Nat \ {0}
BY DEF Places

LEMMA MailTyped ==
  ASSUME FlightTyped
  PROVE  /\ \A i \in Places(mail) : /\ mail[i] \in Reports /\ mail[i].ev \in Kinds
                                    /\ mail[i].tool \in Tools \cup {None}
         /\ Places(mail) \subseteq Nat /\ Len(mail) \in Nat
<1>1. mail \in Seq(Reports) /\ Len(mail) \in Nat
  BY LenProperties DEF FlightTyped
<1>2. \A i \in Places(mail) : mail[i] \in Reports
  BY <1>1, ElementOfSeq DEF Places
<1> QED BY <1>1, <1>2 DEF Places, Reports

LEMMA Sent ==
  ASSUME FlightTyped, NEW ev \in Kinds, NEW t \in Tools \cup {None},
         Send(ev, t)
  PROVE  Longer([ev |-> ev, tool |-> t])
<1> DEFINE e == [ev |-> ev, tool |-> t]
<1>1. e \in Reports /\ mail \in Seq(Reports) /\ mail' = Append(mail, e) /\ Len(mail) < MaxMail
      /\ MaxMail \in Nat
  BY FlightBounds DEF Send, Reports, FlightTyped
<1> HIDE DEF e
<1>2. /\ mail' \in Seq(Reports) /\ Len(mail') = Len(mail) + 1
      /\ \A i \in 1..Len(mail) : mail'[i] = mail[i]
      /\ mail'[Len(mail) + 1] = e
  BY <1>1, AppendProperties
<1>3. Len(mail) \in Nat
  BY <1>1, LenProperties
<1>4. /\ \A i \in Places(mail) : i \in Places(mail') /\ mail'[i] = mail[i] /\ i < Len(mail')
      /\ Len(mail') \in Places(mail') /\ mail'[Len(mail')] = e
      /\ \A i \in Places(mail') : i \in Places(mail) \/ i = Len(mail')
  BY <1>2, <1>3 DEF Places
<1>5. \A v, u : Told(mail', v, u) <=> Told(mail, v, u) \/ (e.ev = v /\ e.tool = u)
  BY <1>4 DEF Told
<1>6. Len(mail') <= MaxMail
  BY <1>1, <1>2, <1>3
<1> QED BY <1>2, <1>4, <1>5, <1>6 DEF Longer, e

\* RemoveAt and Tail keep the order of the rest.
LEMMA OneGone ==
  ASSUME NEW m \in Seq(Reports), NEW k \in 1..Len(m)
  PROVE  /\ RemoveAt(m, k) \in Seq(Reports) /\ Len(RemoveAt(m, k)) = Len(m) - 1
         /\ \A i \in 1..Len(m) - 1 : RemoveAt(m, k)[i] = IF i < k THEN m[i] ELSE m[i + 1]
<1> DEFINE a == SubSeq(m, 1, k - 1)
           b == SubSeq(m, k + 1, Len(m))
<1>1. Len(m) \in Nat /\ k \in Nat /\ k >= 1 /\ k <= Len(m)
  BY LenProperties
<1>2. a \in Seq(Reports) /\ Len(a) = k - 1 /\ \A i \in 1..k - 1 : a[i] = m[i]
  BY <1>1, SubSeqProperties
<1>3. b \in Seq(Reports) /\ Len(b) = Len(m) - k /\ \A i \in 1..Len(m) - k : b[i] = m[k + i]
  BY <1>1, SubSeqProperties
<1>4. RemoveAt(m, k) = a \o b
  BY DEF RemoveAt
<1> HIDE DEF a, b
<1>5. /\ a \o b \in Seq(Reports) /\ Len(a \o b) = Len(a) + Len(b)
      /\ \A i \in 1..Len(a) + Len(b) : (a \o b)[i] = IF i <= Len(a) THEN a[i] ELSE b[i - Len(a)]
  BY <1>2, <1>3, ConcatProperties
<1>6. Len(a \o b) = Len(m) - 1
  BY <1>1, <1>2, <1>3, <1>5
<1>7. ASSUME NEW i \in 1..Len(m) - 1
      PROVE  (a \o b)[i] = IF i < k THEN m[i] ELSE m[i + 1]
  <2>1. (a \o b)[i] = IF i <= k - 1 THEN a[i] ELSE b[i - (k - 1)]
    BY <1>1, <1>2, <1>3, <1>5
  <2>2. CASE i < k
    BY <2>1, <2>2, <1>1, <1>2
  <2>3. CASE ~(i < k)
    <3>1. i - (k - 1) \in 1..Len(m) - k /\ k + (i - (k - 1)) = i + 1
      BY <2>3, <1>1
    <3>2. b[i - (k - 1)] = m[i + 1]
      BY <3>1, <1>3
    <3> QED BY <3>2, <2>1, <2>3, <1>1
  <2> QED BY <2>2, <2>3
<1> QED BY <1>4, <1>5, <1>6, <1>7

LEMMA TakenOut ==
  ASSUME FlightTyped, NEW k \in Places(mail),
         mail' = RemoveAt(mail, k) \/ (k = 1 /\ mail' = Tail(mail))
  PROVE  \E up : Shorter(k, up) /\ Len(mail') = Len(mail) - 1
                 /\ (k < Len(mail) => Len(mail') \in Places(mail') /\ mail'[Len(mail')] = mail[Len(mail)])
<1> DEFINE up == [i \in 1..Len(mail') |-> IF i < k THEN i ELSE i + 1]
<1>1. /\ mail \in Seq(Reports) /\ k \in 1..Len(mail) /\ Len(mail) \in Nat /\ Len(mail) <= MaxMail
      /\ MaxMail \in Nat
  BY LenProperties, FlightBounds DEF FlightTyped, Places
<1>2. /\ mail' \in Seq(Reports) /\ Len(mail') = Len(mail) - 1
      /\ \A i \in 1..Len(mail') : mail'[i] = IF i < k THEN mail[i] ELSE mail[i + 1]
  <2>1. CASE mail' = RemoveAt(mail, k)
    BY <2>1, <1>1, OneGone
  <2>2. CASE k = 1 /\ mail' = Tail(mail)
    <3>1. mail # <<>>
      BY <1>1, EmptySeq
    <3>2. mail' \in Seq(Reports) /\ Len(mail') = Len(mail) - 1
          /\ \A i \in 1..Len(mail') : mail'[i] = mail[i + 1]
      BY <3>1, <2>2, <1>1, HeadTailProperties
    <3> QED BY <3>2, <2>2, <1>1
  <2> QED BY <2>1, <2>2
<1>3. \A i \in 1..Len(mail') : up[i] \in 1..Len(mail) /\ up[i] # k /\ mail'[i] = mail[up[i]]
  BY <1>1, <1>2
<1>4. \A i, j \in 1..Len(mail') : i < j => up[i] < up[j]
  BY <1>1, <1>2
<1>5. \A i \in 1..Len(mail) : i # k => \E j \in 1..Len(mail') : up[j] = i
  <2> SUFFICES ASSUME NEW i \in 1..Len(mail), i # k PROVE \E j \in 1..Len(mail') : up[j] = i
    OBVIOUS
  <2>1. CASE i < k
    BY <2>1, <1>1, <1>2
  <2>2. CASE i > k
    <3>1. i - 1 \in 1..Len(mail') /\ ~(i - 1 < k) /\ (i - 1) + 1 = i
      BY <2>2, <1>1, <1>2
    <3>2. up[i - 1] = i
      BY <3>1
    <3> QED BY <3>1, <3>2
  <2> QED BY <2>1, <2>2, <1>1
<1> HIDE DEF up
<1>6. \A ev, t : Told(mail', ev, t) => Told(mail, ev, t)
  BY <1>3 DEF Told, Places
<1>7. \A ev, t : Told(mail, ev, t) => Told(mail', ev, t) \/ (mail[k].ev = ev /\ mail[k].tool = t)
  <2> SUFFICES ASSUME NEW ev, NEW t, Told(mail, ev, t), ~(mail[k].ev = ev /\ mail[k].tool = t)
               PROVE  Told(mail', ev, t)
    OBVIOUS
  <2>1. PICK i \in 1..Len(mail) : mail[i].ev = ev /\ mail[i].tool = t
    BY DEF Told, Places
  <2>2. PICK j \in 1..Len(mail') : up[j] = i
    BY <2>1, <1>5
  <2> QED BY <2>1, <2>2, <1>3 DEF Told, Places
<1>8. k < Len(mail) => Len(mail') \in Places(mail') /\ mail'[Len(mail')] = mail[Len(mail)]
  <2> SUFFICES ASSUME k < Len(mail) PROVE Len(mail') \in 1..Len(mail') /\ mail'[Len(mail')] = mail[Len(mail)]
    BY DEF Places
  <2>1. Len(mail') \in 1..Len(mail') /\ ~(Len(mail') < k) /\ Len(mail') + 1 = Len(mail)
    BY <1>1, <1>2
  <2> QED BY <2>1, <1>2
<1>9. Len(mail') <= MaxMail
  BY <1>1, <1>2
<1>10. Shorter(k, up)
  BY <1>2, <1>3, <1>4, <1>6, <1>7, <1>9 DEF Shorter, Places
<1> QED BY <1>10, <1>8, <1>2

\* The hook at place k has arrived: nothing before it was its tool's or a boundary.
Arrived(k, up) ==
  /\ k \in Places(mail) /\ Shorter(k, up)
  /\ Len(mail') = Len(mail) - 1
  /\ k < Len(mail) => Len(mail') \in Places(mail') /\ mail'[Len(mail')] = mail[Len(mail)]
  /\ \A j \in Places(mail) : j < k => Overtakes(mail[k], mail[j])
  /\ Reduce(mail[k])
  /\ shown' = IF mail[k].ev = "ask" THEN shown \cup {mail[k].tool} ELSE shown
  /\ UNCHANGED <<world, kind, name, agent>>

LEMMA Arrives ==
  ASSUME FlightTyped, Deliver
  PROVE  \E k, up : Arrived(k, up)
<1>1. PICK k \in Arriving : /\ mail' = RemoveAt(mail, k) /\ Reduce(mail[k])
                            /\ shown' = IF mail[k].ev = "ask" THEN shown \cup {mail[k].tool} ELSE shown
  BY DEF Deliver
<1>2. k \in Places(mail) /\ \A j \in 1..k - 1 : Overtakes(mail[k], mail[j])
  BY DEF Arriving, Places
<1>3. \A j \in Places(mail) : j < k => j \in 1..k - 1
  BY <1>2, MailTyped DEF Places
<1>4. PICK up : Shorter(k, up) /\ Len(mail') = Len(mail) - 1
                /\ (k < Len(mail) => Len(mail') \in Places(mail') /\ mail'[Len(mail')] = mail[Len(mail)])
  BY <1>1, <1>2, TakenOut
<1>5. UNCHANGED <<world, kind, name, agent>>
  BY DEF Deliver
<1>6. Arrived(k, up)
  BY <1>1, <1>2, <1>3, <1>4, <1>5 DEF Arrived
<1> QED BY <1>6

\* What has been lost was the oldest.
Lost(up) ==
  /\ 1 \in Places(mail) /\ Shorter(1, up) /\ mail[1].ev \in world.lose
  /\ UNCHANGED <<world, kind, name, agent, act, flight, shown>>

LEMMA LosesOldest ==
  ASSUME FlightTyped, Lose
  PROVE  \E up : Lost(up)
<1>1. mail \in Seq(Reports) /\ mail # <<>> /\ Len(mail) \in Nat
  BY LenProperties DEF Lose, FlightTyped
<1>2. 1 \in Places(mail) /\ Head(mail) = mail[1]
  BY <1>1, EmptySeq, HeadTailProperties DEF Places
<1>3. mail' = Tail(mail)
  BY DEF Lose
<1>4. PICK up : Shorter(1, up)
  BY <1>2, <1>3, TakenOut
<1>5. Lost(up)
  BY <1>2, <1>4 DEF Lost, Lose
<1> QED BY <1>5

-----------------------------------------------------------------------------
(* Types.                                                                   *)

LEMMA FlightTypedInit == FlightInit => FlightTyped
BY FlightBounds DEF FlightInit, FlightTyped, AgentKinds, Reports

\* The agent leaves the reducer alone.
Kept == UNCHANGED <<world, kind, name, act, inflight, candidate, cursorPending, shown>>

LEMMA AgentTyped ==
  ASSUME FlightTyped, Agent
  PROVE  FlightTyped'
<1> USE DEF Kinds
<1>1. Kept /\ turn' \in [no : 0..MaxTurns, on : BOOLEAN]
  <2>1. MaxTurns \in Nat /\ turn \in [no : 0..MaxTurns, on : BOOLEAN]
    BY FlightBounds DEF FlightTyped
  <2>2. CASE Prompt
    BY <2>1, <2>2 DEF Prompt, ByAgent, Kept, flight
  <2>3. CASE ~Prompt
    BY <2>1, <2>3 DEF Agent, Begin, Ask, Remind, Allow, Refuse, Finish, Stop,
         ByAgent, Kept, flight
  <2> QED BY <2>2, <2>3
<1>2. mail' \in Seq(Reports) /\ Len(mail') <= MaxMail
  <2>1. mail' = mail \/ \E ev \in Kinds, t \in Tools \cup {None} : Send(ev, t)
    BY DEF Agent, Prompt, Begin, Ask, Remind, Allow, Refuse, Finish, Stop
  <2> QED BY <2>1, Sent DEF Longer, FlightTyped
<1>3. run' \subseteq Tools /\ dialog' \subseteq run'
  BY DEF FlightTyped, Agent, Prompt, Begin, Ask, Remind, Allow, Refuse, Finish, Stop
<1>4. over' \in [done : SUBSET Tools, refused : SUBSET Tools, asked : SUBSET Tools]
  <2>1. over \in [done : SUBSET Tools, refused : SUBSET Tools, asked : SUBSET Tools]
    BY DEF FlightTyped
  <2>2. over' = over \/ \E t \in Tools : \/ over' = [over EXCEPT !.asked = @ \cup {t}]
                                        \/ over' = [over EXCEPT !.done = @ \cup {t}]
                                        \/ over' = [over EXCEPT !.done = @ \cup {t}, !.refused = @ \cup {t}]
    BY DEF Agent, Prompt, Begin, Ask, Remind, Allow, Refuse, Finish, Stop
  <2> QED BY <2>1, <2>2
<1> QED BY <1>1, <1>2, <1>3, <1>4 DEF FlightTyped, Kept

LEMMA ProofOfUses ==
  ASSUME NEW e, NEW uses
  PROVE  Proof(e, uses) \in uses \cup {None}
<1> DEFINE named == {t \in uses : name[t] = name[e.tool]}
<1>1. CASE Cardinality(named) = 1
  <2>1. CASE named # {}
    <3>1. (CHOOSE t \in named : TRUE) \in uses
      BY <2>1
    <3> QED BY <3>1 DEF Proof
  <2>2. CASE named = {}
    <3>1. Cardinality(named) = 0
      BY <2>2, FS_EmptySet
    <3> QED BY <1>1, <3>1
  <2> QED BY <2>1, <2>2
<1>2. CASE Cardinality(named) # 1
  BY <1>2 DEF Proof
<1> QED BY <1>1, <1>2

LEMMA ReduceTyped ==
  ASSUME FlightTyped, NEW e \in Reports, Reduce(e),
         e.ev \in {"pre", "post", "ask", "again"} => e.tool \in Tools
  PROVE  /\ act' \in {"idle", "active", "blocked"} /\ inflight' \subseteq Tools
         /\ candidate' \in Tools \cup {None} /\ cursorPending' \in [Names -> Nat]
<1>1. act' \in {"idle", "active", "blocked"}
  BY DEF Reduce, Asked, Reminded, Proved, Counted, Suppressed, Bounded, Worked,
       FlightTyped
<1>2. inflight' \subseteq Tools
  BY DEF Reduce, Asked, Reminded, Proved, Counted, Suppressed, Bounded, Worked,
       FlightTyped, Forget,
         Tracks, Tracked, flight
<1>3. candidate' \in Tools \cup {None}
  BY ProofOfUses DEF Reduce, Asked, Reminded, Proved, Counted, Suppressed, Bounded,
       Worked, FlightTyped, Forget,
         flight
<1>4. cursorPending' \in [Names -> Nat]
  <2>1. cursorPending \in [Names -> Nat] /\ name \in [Tools -> Names]
    BY DEF FlightTyped
  <2>2. CASE Asked(e)
    BY <2>1, <2>2 DEF Asked
  <2>3. CASE Counted(e)
    BY <2>1, <2>3 DEF Counted, Counts
  <2>4. CASE Bounded(e)
    BY <2>1, <2>4 DEF Bounded, Forget
  <2> QED BY <2>1, <2>2, <2>3, <2>4 DEF Reduce, Reminded, Proved, Suppressed, Worked,
         flight
<1> QED BY <1>1, <1>2, <1>3, <1>4

LEMMA StepTyped ==
  ASSUME FlightTyped, Alive, [FlightNext]_flightVars
  PROVE  FlightTyped'
<1>1. CASE Agent
  BY <1>1, AgentTyped
<1>2. CASE Deliver
  <2>1. PICK k, up : Arrived(k, up)
    BY <1>2, Arrives
  <2>2. mail' \in Seq(Reports) /\ Len(mail') <= MaxMail
    BY <2>1 DEF Arrived, Shorter
  <2>3. mail[k] \in Reports /\ (mail[k].ev \in {"pre", "post", "ask", "again"} => mail[k].tool \in Tools)
    BY <2>1, MailTyped DEF Arrived, Alive, Boundary
  <2>4. /\ act' \in {"idle", "active", "blocked"} /\ inflight' \subseteq Tools
        /\ candidate' \in Tools \cup {None} /\ cursorPending' \in [Names -> Nat]
    BY <2>1, <2>3, ReduceTyped DEF Arrived
  <2>5. shown' \subseteq Tools
    BY <2>1, <2>3 DEF Arrived, FlightTyped
  <2> QED BY <2>1, <2>2, <2>4, <2>5 DEF Arrived, FlightTyped, agent
<1>3. CASE Lose
  <2>1. PICK up : Lost(up)
    BY <1>3, LosesOldest
  <2> QED BY <2>1 DEF Lost, Shorter, FlightTyped, agent, flight
<1>4. CASE Restart
  BY <1>4 DEF Restart, Forget, FlightTyped, agent
<1>5. CASE UNCHANGED flightVars
  BY <1>5 DEF flightVars, FlightTyped, agent, flight
<1> QED BY <1>1, <1>2, <1>3, <1>4, <1>5 DEF FlightNext

-----------------------------------------------------------------------------
(* The agent's order, and what arrives of it.                               *)

Rep(ev, t) == [ev |-> ev, tool |-> t]

LEMMA RepFields == \A ev, t : Rep(ev, t).ev = ev /\ Rep(ev, t).tool = t
BY DEF Rep

\* What each of the agent's steps tells.
LEMMA Says ==
  ASSUME FlightTyped
  PROVE  /\ Prompt => Longer(Rep("prompt", None)) /\ Kept
         /\ Stop => Longer(Rep("stop", None)) /\ Kept
         /\ \A t \in Tools :
              /\ Begin(t) => Longer(Rep(IF kind = "cursor" THEN "ask" ELSE "pre", t)) /\ Kept
              /\ Ask(t) => Longer(Rep("ask", t)) /\ Kept
              /\ Remind(t) => Longer(Rep("again", t)) /\ Kept
              /\ Allow(t) => Kept /\ mail' = mail
              /\ Refuse(t) => Kept /\ IF kind = "cursor" THEN Longer(Rep("post", t)) ELSE mail' = mail
              /\ Finish(t) => Longer(Rep("post", t)) /\ Kept
<1> USE Sent DEF Rep, Kept, ByAgent, flight, Kinds
<1>1. (Prompt => Longer(Rep("prompt", None)) /\ Kept) /\ (Stop => Longer(Rep("stop", None)) /\ Kept)
  BY DEF Prompt, Stop
<1>2. ASSUME NEW t \in Tools
      PROVE  /\ Begin(t) => Longer(Rep(IF kind = "cursor" THEN "ask" ELSE "pre", t)) /\ Kept
             /\ Ask(t) => Longer(Rep("ask", t)) /\ Kept
             /\ Remind(t) => Longer(Rep("again", t)) /\ Kept
  BY DEF Begin, Ask, Remind
<1>3. ASSUME NEW t \in Tools
      PROVE  /\ Allow(t) => Kept /\ mail' = mail
             /\ Refuse(t) => Kept /\ IF kind = "cursor" THEN Longer(Rep("post", t)) ELSE mail' = mail
             /\ Finish(t) => Longer(Rep("post", t)) /\ Kept
  BY DEF Allow, Refuse, Finish
<1> QED BY <1>1, <1>2, <1>3

\* What a step makes of the sets of uses that are over.
LEMMA Ends ==
  ASSUME FlightTyped, NEW t \in Tools
  PROVE  /\ Ask(t) => /\ over'.asked = over.asked \cup {t} /\ over'.done = over.done
                      /\ over'.refused = over.refused
         /\ Refuse(t) => /\ over'.asked = over.asked /\ over'.done = over.done \cup {t}
                         /\ over'.refused = over.refused \cup {t}
         /\ Finish(t) => /\ over'.asked = over.asked /\ over'.done = over.done \cup {t}
                      /\ over'.refused = over.refused
<1>1. over \in [done : SUBSET Tools, refused : SUBSET Tools, asked : SUBSET Tools]
  BY DEF FlightTyped
<1>2. Ask(t) => over' = [over EXCEPT !.asked = @ \cup {t}]
  BY DEF Ask
<1>3. Refuse(t) => over' = [over EXCEPT !.done = @ \cup {t}, !.refused = @ \cup {t}]
  BY DEF Refuse
<1>4. Finish(t) => over' = [over EXCEPT !.done = @ \cup {t}]
  BY DEF Finish
<1> QED BY <1>1, <1>2, <1>3, <1>4

LEMMA AgentAlive ==
  ASSUME FlightTyped, Alive, Agent
  PROVE  Alive'
<1> USE MailTyped, RepFields DEF Alive, Longer, Boundary, Kept
<1>0. /\ over \in [done : SUBSET Tools, refused : SUBSET Tools, asked : SUBSET Tools]
      /\ turn \in [no : 0..MaxTurns, on : BOOLEAN] /\ None \notin Tools
      /\ run \subseteq Tools /\ dialog \subseteq run
  BY FlightBounds DEF FlightTyped
<1>1. CASE Prompt
  BY <1>0, <1>1, Says DEF Prompt
<1>2. CASE Stop
  BY <1>0, <1>2, Says DEF Stop
<1>3. ASSUME NEW t \in Tools, Begin(t) PROVE Alive'
  BY <1>0, <1>3, Says DEF Begin
<1>4. ASSUME NEW t \in Tools, Ask(t) PROVE Alive'
  <2>1. Kept /\ Longer(Rep("ask", t))
    BY <1>4, Says
  <2>2. run' = run /\ dialog' = {t} /\ turn' = turn /\ kind # "cursor" /\ t \in run
    BY <1>0, <1>4 DEF Ask
  <2>3. run \cup over.done \subseteq run' \cup over'.done
    BY <2>2, <1>4, Ends
  <2>4. \A i \in Places(mail') : /\ mail'[i].tool = None <=> Boundary(mail'[i])
                                 /\ mail'[i].tool # None => mail'[i].tool \in run' \cup over'.done
    BY <1>0, <2>1, <2>2, <2>3
  <2>5. (~turn'.on => run' = {}) /\ run' \cap over'.done = {} /\ over'.refused \subseteq over'.done
    BY <1>0, <2>2, <1>4, Ends
  <2>6. kind' # "cursor" => /\ shown' \subseteq over'.asked /\ dialog' \subseteq over'.asked
                            /\ \A i \in Places(mail') : mail'[i].ev = "ask" => mail'[i].tool \in over'.asked
    BY <1>0, <2>1, <2>2, <1>4, Ends
  <2> QED BY <2>1, <2>3, <2>4, <2>5, <2>6
<1>5. ASSUME NEW t \in Tools, Remind(t) PROVE Alive'
  BY <1>0, <1>5, Says DEF Remind
<1>6. ASSUME NEW t \in Tools, Allow(t) PROVE Alive'
  BY <1>0, <1>6, Says DEF Allow
<1>7. ASSUME NEW t \in Tools, Refuse(t) PROVE Alive'
  <2>1. Kept /\ IF kind = "cursor" THEN Longer(Rep("post", t)) ELSE mail' = mail
    BY <1>7, Says
  <2>2. run' = run \ {t} /\ dialog' \subseteq dialog /\ turn' = turn /\ t \in run
    BY <1>0, <1>7 DEF Refuse
  <2>3. run \cup over.done \subseteq run' \cup over'.done
    BY <2>2, <1>7, Ends
  <2>4. \A i \in Places(mail') : /\ mail'[i].tool = None <=> Boundary(mail'[i])
                                 /\ mail'[i].tool # None => mail'[i].tool \in run' \cup over'.done
    BY <1>0, <2>1, <2>2, <2>3
  <2>5. (~turn'.on => run' = {}) /\ run' \cap over'.done = {} /\ over'.refused \subseteq over'.done
    BY <1>0, <2>2, <1>7, Ends
  <2>6. kind' # "cursor" => /\ shown' \subseteq over'.asked /\ dialog' \subseteq over'.asked
                            /\ \A i \in Places(mail') : mail'[i].ev = "ask" => mail'[i].tool \in over'.asked
    BY <1>0, <2>1, <2>2, <1>7, Ends
  <2> QED BY <2>1, <2>3, <2>4, <2>5, <2>6
<1>8. ASSUME NEW t \in Tools, Finish(t) PROVE Alive'
  <2>1. Kept /\ Longer(Rep("post", t))
    BY <1>8, Says
  <2>2. run' = run \ {t} /\ dialog' = dialog /\ turn' = turn /\ t \in run
    BY <1>0, <1>8 DEF Finish
  <2>3. run \cup over.done \subseteq run' \cup over'.done
    BY <2>2, <1>8, Ends
  <2>4. \A i \in Places(mail') : /\ mail'[i].tool = None <=> Boundary(mail'[i])
                                 /\ mail'[i].tool # None => mail'[i].tool \in run' \cup over'.done
    BY <1>0, <2>1, <2>2, <2>3
  <2>5. (~turn'.on => run' = {}) /\ run' \cap over'.done = {} /\ over'.refused \subseteq over'.done
    BY <1>0, <2>2, <1>8, Ends
  <2>6. kind' # "cursor" => /\ shown' \subseteq over'.asked /\ dialog' \subseteq over'.asked
                            /\ \A i \in Places(mail') : mail'[i].ev = "ask" => mail'[i].tool \in over'.asked
    BY <1>0, <2>1, <2>2, <1>8, Ends
  <2> QED BY <2>1, <2>3, <2>4, <2>5, <2>6
<1> QED BY <1>1, <1>2, <1>3, <1>4, <1>5, <1>6, <1>7, <1>8 DEF Agent

LEMMA ReduceInflight ==
  ASSUME FlightTyped, NEW e, Reduce(e)
  PROVE  /\ inflight' \subseteq inflight \/ (e.ev = "pre" /\ inflight' \subseteq inflight \cup {e.tool})
         /\ e.ev = "post" /\ kind # "cursor" => e.tool \notin inflight'
<1>1. CASE e.ev \in {"pre", "post"}
  BY <1>1 DEF Reduce, Asked, Reminded, Proved, Counted, Suppressed, Bounded,
       Worked, Tracks, Tracked, Boundary, Counts
<1>2. CASE e.ev \notin {"pre", "post"}
  BY <1>2 DEF Reduce, Asked, Reminded, Proved, Counted, Suppressed, Bounded,
       Worked, Tracks, Tracked, Boundary,
              Proves, Counts, Forget, flight
<1> QED BY <1>1, <1>2

LEMMA AliveStep ==
  ASSUME FlightTyped, Alive, [FlightNext]_flightVars
  PROVE  Alive'
<1>1. CASE Agent
  BY <1>1, AgentAlive
<1>2. CASE Deliver
  <2>1. PICK k, up : Arrived(k, up)
    BY <1>2, Arrives
  <2>2. \/ inflight' \subseteq inflight
        \/ mail[k].ev = "pre" /\ inflight' \subseteq inflight \cup {mail[k].tool}
    BY <2>1, ReduceInflight DEF Arrived
  <2>3. UNCHANGED <<kind, turn, run, dialog, over>> /\ k \in Places(mail) /\ Shorter(k, up)
        /\ shown' = IF mail[k].ev = "ask" THEN shown \cup {mail[k].tool} ELSE shown
    BY <2>1 DEF Arrived, agent
  <2>4. mail[k].ev \in {"pre", "ask"} => mail[k].tool \in run \cup over.done
    BY <2>3 DEF Alive, Boundary
  <2>5. kind # "cursor" /\ mail[k].ev = "ask" => mail[k].tool \in over.asked
    BY <2>3 DEF Alive
  <2>6. \A i \in Places(mail') : up[i] \in Places(mail) /\ mail'[i] = mail[up[i]]
    BY <2>3 DEF Shorter
  <2> QED BY <2>2, <2>3, <2>4, <2>5, <2>6 DEF Alive, Boundary
<1>3. CASE Lose
  <2>1. PICK up : Lost(up)
    BY <1>3, LosesOldest
  <2> QED BY <2>1 DEF Lost, Shorter, Alive, agent, flight, Boundary
<1>4. CASE Restart
  BY <1>4 DEF Restart, Forget, Alive, agent, Boundary
<1>5. CASE UNCHANGED flightVars
  BY <1>5 DEF flightVars, Alive, agent, flight, Boundary
<1> QED BY <1>1, <1>2, <1>3, <1>4, <1>5 DEF FlightNext

LEMMA AgentApart ==
  ASSUME FlightTyped, Alive, Apart, Agent
  PROVE  Apart'
<1> USE MailTyped, RepFields DEF Apart, Longer, Boundary, Kept
<1>0. /\ None \notin Tools /\ run \subseteq Tools /\ dialog \subseteq run
      /\ shown \subseteq run \cup over.done /\ inflight \subseteq run \cup over.done
      /\ \A i \in Places(mail) : mail[i].tool # None => mail[i].tool \in run \cup over.done
      /\ ~turn.on => run = {}
      /\ Places(mail') \subseteq Nat
  BY StepTyped, PlacesNat, LenProperties, FlightBounds DEF FlightTyped, Alive, FlightNext
<1>1. CASE Prompt
  BY <1>0, <1>1, Says DEF Prompt
<1>2. CASE Stop
  BY <1>0, <1>2, Says DEF Stop
<1>3. ASSUME NEW t \in Tools, Begin(t) PROVE Apart'
  BY <1>0, <1>3, Says DEF Begin
<1>4. ASSUME NEW t \in Tools, Ask(t) PROVE Apart'
  <2>1. Kept /\ Longer(Rep("ask", t))
    BY <1>4, Says
  <2>2. run' = run /\ t \in run
    BY <1>0, <1>4 DEF Ask
  <2> QED BY <1>0, <2>1, <2>2
<1>5. ASSUME NEW t \in Tools, Remind(t) PROVE Apart'
  BY <1>0, <1>5, Says DEF Remind
<1>6. ASSUME NEW t \in Tools, Allow(t) PROVE Apart'
  BY <1>0, <1>6, Says DEF Allow
<1>7. ASSUME NEW t \in Tools, Refuse(t) PROVE Apart'
  <2>1. Kept /\ IF kind = "cursor" THEN Longer(Rep("post", t)) ELSE mail' = mail
    BY <1>7, Says
  <2>2. run' \subseteq run /\ t \in run
    BY <1>0, <1>7 DEF Refuse
  <2> QED BY <1>0, <2>1, <2>2
<1>8. ASSUME NEW t \in Tools, Finish(t) PROVE Apart'
  <2>1. Kept /\ Longer(Rep("post", t))
    BY <1>8, Says
  <2>2. run' \subseteq run /\ t \in run
    BY <1>0, <1>8 DEF Finish
  <2> QED BY <1>0, <2>1, <2>2
<1> QED BY <1>1, <1>2, <1>3, <1>4, <1>5, <1>6, <1>7, <1>8 DEF Agent

LEMMA ApartStep ==
  ASSUME FlightTyped, Alive, Apart, [FlightNext]_flightVars
  PROVE  Apart'
<1>1. CASE Agent
  BY <1>1, AgentApart
<1>2. CASE Deliver
  <2>1. PICK k, up : Arrived(k, up)
    BY <1>2, Arrives
  <2>2. \/ inflight' \subseteq inflight
        \/ ~Boundary(mail[k]) /\ inflight' \subseteq inflight \cup {mail[k].tool}
    BY <2>1, ReduceInflight DEF Arrived, Boundary
  <2>3. run' = run /\ k \in Places(mail) /\ Shorter(k, up)
        /\ \/ shown' = shown
           \/ ~Boundary(mail[k]) /\ shown' = shown \cup {mail[k].tool}
    BY <2>1 DEF Arrived, agent, Boundary
  <2>4. \A j \in Places(mail) : Boundary(mail[j]) /\ j # k => k < j
    BY <2>1, MailTyped DEF Arrived, Overtakes
  <2>5. \A i \in Places(mail') : up[i] \in Places(mail) /\ up[i] # k /\ mail'[i] = mail[up[i]]
    BY <2>3 DEF Shorter
  <2>6. \A i, j \in Places(mail') : i < j => up[i] < up[j]
    BY <2>3 DEF Shorter
  <2>7. ASSUME NEW b \in Places(mail'), Boundary(mail'[b]), NEW j \in Places(mail'), b < j,
              ~Boundary(mail'[j])
        PROVE  /\ mail'[j].tool \notin shown' /\ mail'[j].tool \notin inflight'
               /\ \A i \in Places(mail') : i < b => mail'[i].tool # mail'[j].tool
    BY <2>2, <2>3, <2>4, <2>5, <2>6, <2>7 DEF Apart
  <2>8. ASSUME NEW b \in Places(mail'), Boundary(mail'[b]), NEW t \in run'
        PROVE  t \notin shown' /\ t \notin inflight' /\ \A i \in Places(mail') : i < b => mail'[i].tool # t
    BY <2>2, <2>3, <2>4, <2>5, <2>6, <2>8 DEF Apart
  <2> QED BY <2>7, <2>8 DEF Apart, Boundary
<1>3. CASE Lose
  <2>1. PICK up : Lost(up)
    BY <1>3, LosesOldest
  <2> QED BY <2>1 DEF Lost, Shorter, Apart, agent, flight, Boundary
<1>4. CASE Restart
  BY <1>4 DEF Restart, Forget, Apart, agent, Boundary
<1>5. CASE UNCHANGED flightVars
  BY <1>5 DEF flightVars, Apart, agent, flight, Boundary
<1> QED BY <1>1, <1>2, <1>3, <1>4, <1>5 DEF FlightNext

LEMMA AgentInOrder ==
  ASSUME FlightTyped, Alive, InOrder, Agent
  PROVE  InOrder'
<1> USE MailTyped, RepFields DEF InOrder, Longer, Boundary, Kept
<1>0. /\ None \notin Tools /\ run \subseteq Tools /\ dialog \subseteq run
      /\ \A i \in Places(mail) : mail[i].tool # None => mail[i].tool \in run \cup over.done
      /\ kind # "cursor" => dialog \subseteq over.asked
      /\ ~turn.on => run = {}
  BY FlightBounds DEF FlightTyped, Alive
<1>1. CASE Prompt
  BY <1>0, <1>1, Says DEF Prompt
<1>2. CASE Stop
  BY <1>0, <1>2, Says DEF Stop
<1>3. ASSUME NEW t \in Tools, Begin(t) PROVE InOrder'
  <2>1. Kept /\ Longer(Rep(IF kind = "cursor" THEN "ask" ELSE "pre", t))
    BY <1>3, Says
  <2>2. run' = run \cup {t} /\ t \notin run /\ t \notin over.done /\ over' = over
    BY <1>0, <1>3 DEF Begin
  <2> QED BY <1>0, <2>1, <2>2
<1>4. ASSUME NEW t \in Tools, Ask(t) PROVE InOrder'
  <2>1. Kept /\ Longer(Rep("ask", t))
    BY <1>4, Says
  <2>2. run' = run /\ t \in run /\ t \notin over.asked
    BY <1>0, <1>4 DEF Ask
  <2>3. over'.asked = over.asked \cup {t} /\ kind # "cursor"
    BY <1>4, Ends DEF Ask
  <2> QED BY <1>0, <2>1, <2>2, <2>3
<1>5. ASSUME NEW t \in Tools, Remind(t) PROVE InOrder'
  <2>1. Kept /\ Longer(Rep("again", t))
    BY <1>5, Says
  <2>2. run' = run /\ t \in run /\ t \in over.asked /\ kind # "cursor" /\ over' = over
    BY <1>0, <1>5 DEF Remind
  <2> QED BY <1>0, <2>1, <2>2
<1>6. ASSUME NEW t \in Tools, Allow(t) PROVE InOrder'
  <2>1. Kept /\ mail' = mail
    BY <1>6, Says
  <2>2. run' = run /\ over' = over
    BY <1>0, <1>6 DEF Allow
  <2> QED BY <1>0, <2>1, <2>2
<1>7. ASSUME NEW t \in Tools, Refuse(t) PROVE InOrder'
  <2>1. Kept /\ IF kind = "cursor" THEN Longer(Rep("post", t)) ELSE mail' = mail
    BY <1>7, Says
  <2>2. run' = run \ {t} /\ t \in run
    BY <1>0, <1>7 DEF Refuse
  <2>3. over'.asked = over.asked
    BY <1>7, Ends DEF Refuse
  <2> QED BY <1>0, <2>1, <2>2, <2>3
<1>8. ASSUME NEW t \in Tools, Finish(t) PROVE InOrder'
  <2>1. Kept /\ Longer(Rep("post", t))
    BY <1>8, Says
  <2>2. run' = run \ {t} /\ t \in run
    BY <1>0, <1>8 DEF Finish
  <2>3. over'.asked = over.asked
    BY <1>8, Ends DEF Finish
  <2> QED BY <1>0, <2>1, <2>2, <2>3
<1> QED BY <1>1, <1>2, <1>3, <1>4, <1>5, <1>6, <1>7, <1>8 DEF Agent

LEMMA AgentOnce ==
  ASSUME FlightTyped, Alive, Once, Agent
  PROVE  Once'
<1> USE MailTyped, RepFields DEF Once, Longer, Boundary, Kept
<1>0. /\ None \notin Tools /\ run \subseteq Tools /\ dialog \subseteq run
      /\ shown \subseteq run \cup over.done /\ inflight \subseteq run \cup over.done
      /\ kind # "cursor" => shown \subseteq over.asked /\ dialog \subseteq over.asked
  BY FlightBounds DEF FlightTyped, Alive
<1>1. CASE Prompt
  BY <1>0, <1>1, Says DEF Prompt
<1>2. CASE Stop
  BY <1>0, <1>2, Says DEF Stop
<1>3. ASSUME NEW t \in Tools, Begin(t) PROVE Once'
  <2>1. Kept /\ Longer(Rep(IF kind = "cursor" THEN "ask" ELSE "pre", t))
    BY <1>3, Says
  <2>2. run' = run \cup {t} /\ t \notin run /\ t \notin over.done /\ over' = over
    BY <1>0, <1>3 DEF Begin
  <2> QED BY <1>0, <2>1, <2>2
<1>4. ASSUME NEW t \in Tools, Ask(t) PROVE Once'
  <2>1. Kept /\ Longer(Rep("ask", t))
    BY <1>4, Says
  <2>2. run' = run /\ t \in run /\ t \notin over.asked
    BY <1>0, <1>4 DEF Ask
  <2>3. over'.asked = over.asked \cup {t} /\ kind # "cursor"
    BY <1>4, Ends DEF Ask
  <2> QED BY <1>0, <2>1, <2>2, <2>3
<1>5. ASSUME NEW t \in Tools, Remind(t) PROVE Once'
  <2>1. Kept /\ Longer(Rep("again", t))
    BY <1>5, Says
  <2>2. run' = run /\ t \in run /\ t \in over.asked /\ kind # "cursor" /\ over' = over
    BY <1>0, <1>5 DEF Remind
  <2> QED BY <1>0, <2>1, <2>2
<1>6. ASSUME NEW t \in Tools, Allow(t) PROVE Once'
  <2>1. Kept /\ mail' = mail
    BY <1>6, Says
  <2>2. run' = run /\ over' = over
    BY <1>0, <1>6 DEF Allow
  <2> QED BY <1>0, <2>1, <2>2
<1>7. ASSUME NEW t \in Tools, Refuse(t) PROVE Once'
  <2>1. Kept /\ IF kind = "cursor" THEN Longer(Rep("post", t)) ELSE mail' = mail
    BY <1>7, Says
  <2>2. run' = run \ {t} /\ t \in run
    BY <1>0, <1>7 DEF Refuse
  <2>3. over'.asked = over.asked
    BY <1>7, Ends DEF Refuse
  <2> QED BY <1>0, <2>1, <2>2, <2>3
<1>8. ASSUME NEW t \in Tools, Finish(t) PROVE Once'
  <2>1. Kept /\ Longer(Rep("post", t))
    BY <1>8, Says
  <2>2. run' = run \ {t} /\ t \in run
    BY <1>0, <1>8 DEF Finish
  <2>3. over'.asked = over.asked
    BY <1>8, Ends DEF Finish
  <2> QED BY <1>0, <2>1, <2>2, <2>3
<1> QED BY <1>1, <1>2, <1>3, <1>4, <1>5, <1>6, <1>7, <1>8 DEF Agent


LEMMA InOrderStep ==
  ASSUME FlightTyped, Alive, InOrder, [FlightNext]_flightVars
  PROVE  InOrder'
<1>1. CASE Agent
  BY <1>1, AgentInOrder
<1>2. CASE Deliver
  <2>1. PICK k, up : Arrived(k, up)
    BY <1>2, Arrives
  <2> QED BY <2>1 DEF Arrived, Shorter, InOrder, agent
<1>3. CASE Lose
  <2>1. PICK up : Lost(up)
    BY <1>3, LosesOldest
  <2> QED BY <2>1 DEF Lost, Shorter, InOrder, agent
<1>4. CASE Restart
  BY <1>4 DEF Restart, InOrder, agent
<1>5. CASE UNCHANGED flightVars
  BY <1>5 DEF flightVars, InOrder, agent
<1> QED BY <1>1, <1>2, <1>3, <1>4, <1>5 DEF FlightNext

LEMMA OnceStep ==
  ASSUME FlightTyped, Alive, InOrder, Once, [FlightNext]_flightVars
  PROVE  Once'
<1>1. CASE Agent
  BY <1>1, AgentOnce
<1>2. CASE Deliver
  <2>1. PICK k, up : Arrived(k, up)
    BY <1>2, Arrives
  <2>2. \/ inflight' \subseteq inflight
        \/ mail[k].ev = "pre" /\ inflight' \subseteq inflight \cup {mail[k].tool}
    BY <2>1, ReduceInflight DEF Arrived
  <2>3. k \in Places(mail) /\ shown' = IF mail[k].ev = "ask" THEN shown \cup {mail[k].tool} ELSE shown
    BY <2>1 DEF Arrived
  <2>4. \A i \in Places(mail') : up[i] \in Places(mail) /\ up[i] # k /\ mail'[i] = mail[up[i]]
    BY <2>1 DEF Arrived, Shorter
  <2>5. ASSUME NEW i \in Places(mail), i # k, mail[i].ev = mail[k].ev, mail[k].ev \in {"pre", "ask"}
        PROVE  mail[i].tool # mail[k].tool
    <3>1. i < k \/ k < i
      BY <2>3, <2>5, MailTyped
    <3>2. mail[k].tool # None
      BY <2>3, <2>5 DEF Alive, Boundary
    <3> QED BY <2>3, <2>5, <3>1, <3>2 DEF InOrder
  <2> QED BY <2>2, <2>3, <2>4, <2>5 DEF Once
<1>3. CASE Lose
  <2>1. PICK up : Lost(up)
    BY <1>3, LosesOldest
  <2> QED BY <2>1 DEF Lost, Shorter, Once, flight
<1>4. CASE Restart
  BY <1>4 DEF Restart, Forget, Once
<1>5. CASE UNCHANGED flightVars
  BY <1>5 DEF flightVars, Once, flight
<1> QED BY <1>1, <1>2, <1>3, <1>4, <1>5 DEF FlightNext

LEMMA AgentPaused ==
  ASSUME FlightTyped, Paused, Agent
  PROVE  Paused'
<1> USE MailTyped, RepFields DEF Paused, Longer, Kept
<1>1. CASE Prompt
  BY <1>1, Says
<1>2. CASE Stop
  BY <1>2, Says
<1>3. ASSUME NEW t \in Tools, Begin(t) PROVE Paused'
  BY <1>3, Says
<1>4. ASSUME NEW t \in Tools, Ask(t) PROVE Paused'
  BY <1>4, Says
<1>5. ASSUME NEW t \in Tools, Remind(t) PROVE Paused'
  BY <1>5, Says
<1>6. ASSUME NEW t \in Tools, Allow(t) PROVE Paused'
  BY <1>6, Says
<1>7. ASSUME NEW t \in Tools, Refuse(t) PROVE Paused'
  BY <1>7, Says
<1>8. ASSUME NEW t \in Tools, Finish(t) PROVE Paused'
  BY <1>8, Says
<1> QED BY <1>1, <1>2, <1>3, <1>4, <1>5, <1>6, <1>7, <1>8 DEF Agent

LEMMA ReducePaused ==
  ASSUME FlightTyped, Paused, NEW e \in Reports, Reduce(e), UNCHANGED kind
  PROVE  /\ candidate' # None \/ (\E n \in Names : cursorPending'[n] > 0) => act' = "blocked"
         /\ kind = "cursor" => candidate' = None
         /\ kind # "cursor" => \A n \in Names : cursorPending'[n] = 0
<1> USE DEF Paused
<1>0. cursorPending \in [Names -> Nat] /\ act \in {"idle", "active", "blocked"}
  BY DEF FlightTyped
<1>1. CASE Asked(e)
  BY <1>0, <1>1 DEF Asked
<1>2. CASE Reminded(e)
  BY <1>0, <1>2 DEF Reminded, flight
<1>3. CASE Proved(e)
  BY <1>0, <1>3 DEF Proved, Proves
<1>4. CASE Counted(e)
  BY <1>0, <1>4 DEF Counted, Counts
<1>5. CASE Suppressed(e)
  BY <1>0, <1>5 DEF Suppressed
<1>6. CASE Bounded(e)
  BY <1>0, <1>6 DEF Bounded, Forget
<1>7. CASE Worked(e)
  BY <1>0, <1>7 DEF Worked
<1> QED BY <1>1, <1>2, <1>3, <1>4, <1>5, <1>6, <1>7 DEF Reduce

LEMMA PausedStep ==
  ASSUME FlightTyped, Alive, Paused, [FlightNext]_flightVars
  PROVE  Paused'
<1>1. CASE Agent
  BY <1>1, AgentPaused
<1>2. CASE Deliver
  <2>1. PICK k, up : Arrived(k, up)
    BY <1>2, Arrives
  <2>2. k \in Places(mail) /\ mail[k] \in Reports /\ Reduce(mail[k]) /\ UNCHANGED kind
    BY <2>1, MailTyped DEF Arrived
  <2>3. /\ candidate' # None \/ (\E n \in Names : cursorPending'[n] > 0) => act' = "blocked"
        /\ kind = "cursor" => candidate' = None
        /\ kind # "cursor" => \A n \in Names : cursorPending'[n] = 0
    BY <2>2, ReducePaused
  <2>4. kind = "cursor" => inflight' = {} /\ \A i \in Places(mail') : mail'[i].ev # "pre"
    BY <2>1, <2>2, ReduceInflight DEF Paused, Arrived, Shorter
  <2> QED BY <2>2, <2>3, <2>4 DEF Paused
<1>3. CASE Lose
  <2>1. PICK up : Lost(up)
    BY <1>3, LosesOldest
  <2> QED BY <2>1 DEF Lost, Shorter, Paused, flight
<1>4. CASE Restart
  BY <1>4 DEF Restart, Forget, Paused
<1>5. CASE UNCHANGED flightVars
  BY <1>5 DEF flightVars, Paused, flight
<1> QED BY <1>1, <1>2, <1>3, <1>4, <1>5 DEF FlightNext

-----------------------------------------------------------------------------
(* What is waited for.                                                      *)

LEMMA AgentComing ==
  ASSUME FlightTyped, InOrder, Agent, NEW u, EndComes(run, over, mail, u)
  PROVE  EndComes(run', over', mail', u)
<1> USE RepFields DEF EndComes, Longer, Kept
<1>1. CASE Prompt
  BY <1>1, Says DEF Prompt
<1>2. CASE Stop
  BY <1>2, Says DEF Stop
<1>3. ASSUME NEW t \in Tools, Begin(t) PROVE EndComes(run', over', mail', u)
  BY <1>3, Says DEF Begin
<1>4. ASSUME NEW t \in Tools, Ask(t) PROVE EndComes(run', over', mail', u)
  BY <1>4, Says, Ends DEF Ask
<1>5. ASSUME NEW t \in Tools, Remind(t) PROVE EndComes(run', over', mail', u)
  BY <1>5, Says DEF Remind
<1>6. ASSUME NEW t \in Tools, Allow(t) PROVE EndComes(run', over', mail', u)
  BY <1>6, Says DEF Allow
<1>7. ASSUME NEW t \in Tools, Refuse(t) PROVE EndComes(run', over', mail', u)
  <2>1. over'.refused = over.refused \cup {t} /\ run' = run \ {t}
    BY <1>7, Ends DEF Refuse
  <2>2. Told(mail, "post", u) => Told(mail', "post", u)
    BY <1>7, Says
  <2> QED BY <2>1, <2>2
<1>8. ASSUME NEW t \in Tools, Finish(t) PROVE EndComes(run', over', mail', u)
  <2>1. over'.refused = over.refused /\ run' = run \ {t}
    BY <1>8, Ends DEF Finish
  <2>2. (Told(mail, "post", u) => Told(mail', "post", u)) /\ Told(mail', "post", t)
    BY <1>8, Says
  <2> QED BY <2>1, <2>2
<1> QED BY <1>1, <1>2, <1>3, <1>4, <1>5, <1>6, <1>7, <1>8 DEF Agent

LEMMA AgentPre ==
  ASSUME FlightTyped, Agent, NEW u, Told(mail', "pre", u)
  PROVE  Told(mail, "pre", u) \/ u \in run'
<1> USE RepFields DEF Longer, Kept
<1>1. CASE Prompt
  BY <1>1, Says
<1>2. CASE Stop
  BY <1>2, Says
<1>3. ASSUME NEW t \in Tools, Begin(t) PROVE Told(mail, "pre", u) \/ u \in run'
  BY <1>3, Says DEF Begin
<1>4. ASSUME NEW t \in Tools, Ask(t) PROVE Told(mail, "pre", u)
  BY <1>4, Says
<1>5. ASSUME NEW t \in Tools, Remind(t) PROVE Told(mail, "pre", u)
  BY <1>5, Says
<1>6. ASSUME NEW t \in Tools, Allow(t) PROVE Told(mail, "pre", u)
  BY <1>6, Says
<1>7. ASSUME NEW t \in Tools, Refuse(t) PROVE Told(mail, "pre", u)
  BY <1>7, Says
<1>8. ASSUME NEW t \in Tools, Finish(t) PROVE Told(mail, "pre", u)
  BY <1>8, Says
<1> QED BY <1>1, <1>2, <1>3, <1>4, <1>5, <1>6, <1>7, <1>8 DEF Agent

\* What the reducer waits for afterwards.
LEMMA ReduceAwaits ==
  ASSUME FlightTyped, Paused, NEW e, Reduce(e)
  PROVE  /\ candidate' # None => candidate' = candidate \/ candidate' \in inflight
         /\ e.ev = "post" /\ candidate' # None => candidate' # e.tool
<1>1. CASE Asked(e)
  BY <1>1, ProofOfUses DEF Asked
<1>2. CASE ~Asked(e)
  <2>1. candidate' = candidate \/ candidate' = None
    BY <1>2 DEF Reduce, Reminded, Proved, Counted, Suppressed, Bounded, Worked,
         Forget, flight
  <2>2. e.ev = "post" /\ candidate' # None => candidate' # e.tool
    BY <1>2, <2>1 DEF Reduce, Asked, Reminded, Proved, Counted, Suppressed, Bounded,
         Worked, Boundary, Proves, Counts, Paused
  <2> QED BY <2>1, <2>2
<1> QED BY <1>1, <1>2

LEMMA AwaitedStep ==
  ASSUME FlightTyped, Alive, InOrder, Paused, Awaited, [FlightNext]_flightVars
  PROVE  Awaited'
<1> SUFFICES ASSUME world'.lose = {}
             PROVE  /\ \A t \in inflight' : EndComes(run', over', mail', t)
                    /\ candidate' # None => EndComes(run', over', mail', candidate')
                    /\ \A t : Told(mail', "pre", t) => EndComes(run', over', mail', t)
  BY DEF Awaited
<1>0. world' = world /\ world.lose = {}
  BY DEF FlightNext, Agent, Prompt, Stop, Begin, Ask, Remind, Allow, Refuse, Finish,
       ByAgent, Deliver, Lose, Restart, flightVars
<1>1. CASE Agent
  <2>1. Kept
    BY <1>1, Says DEF Agent
  <2>2. \A t : EndComes(run, over, mail, t) => EndComes(run', over', mail', t)
    BY <1>1, AgentComing
  <2>3. \A t : Told(mail', "pre", t) => Told(mail, "pre", t) \/ t \in run'
    BY <1>1, AgentPre
  <2> QED BY <1>0, <2>1, <2>2, <2>3 DEF Awaited, Kept, EndComes
<1>2. CASE Deliver
  <2>1. PICK k, up : Arrived(k, up)
    BY <1>2, Arrives
  <2>2. /\ k \in Places(mail) /\ Reduce(mail[k]) /\ run' = run /\ over' = over
        /\ \A ev, t : Told(mail', ev, t) => Told(mail, ev, t)
        /\ \A ev, t : Told(mail, ev, t) => Told(mail', ev, t) \/ (mail[k].ev = ev /\ mail[k].tool = t)
    BY <2>1 DEF Arrived, agent, Shorter
  <2>3. ASSUME NEW t, EndComes(run, over, mail, t), ~(mail[k].ev = "post" /\ mail[k].tool = t)
        PROVE  EndComes(run', over', mail', t)
    <3>1. Told(mail, "post", t) => Told(mail', "post", t)
      BY <2>2, <2>3
    <3> QED BY <2>2, <2>3, <3>1 DEF EndComes
  <2>4. ASSUME NEW t \in inflight' PROVE EndComes(run', over', mail', t)
    <3>1. t \in inflight \/ Told(mail, "pre", t)
      BY <2>2, ReduceInflight DEF Told
    <3>2. ~(mail[k].ev = "post" /\ mail[k].tool = t)
      BY <2>2, ReduceInflight DEF Paused
    <3> QED BY <1>0, <3>1, <3>2, <2>3 DEF Awaited
  <2>5. ASSUME candidate' # None PROVE EndComes(run', over', mail', candidate')
    <3>1. candidate' = candidate \/ candidate' \in inflight
      BY <2>2, <2>5, ReduceAwaits
    <3>2. EndComes(run, over, mail, candidate')
      BY <1>0, <2>5, <3>1 DEF Awaited
    <3> QED BY <2>2, <2>3, <2>5, <3>2, ReduceAwaits
  <2>6. ASSUME NEW t, Told(mail', "pre", t) PROVE EndComes(run', over', mail', t)
    <3>1. PICK i \in Places(mail') : mail'[i].ev = "pre" /\ mail'[i].tool = t
      BY <2>6 DEF Told
    <3>2. up[i] \in Places(mail) /\ up[i] # k /\ mail[up[i]].ev = "pre" /\ mail[up[i]].tool = t
      BY <2>1, <3>1 DEF Arrived, Shorter
    <3>3. t # None
      BY <3>2 DEF Alive, Boundary
    <3>4. ~(mail[k].ev = "post" /\ mail[k].tool = t)
      <4>1. up[i] < k \/ k < up[i]
        BY <2>2, <3>2, MailTyped
      <4>2. up[i] < k => mail[k].tool # t
        BY <2>1, <3>2 DEF Arrived, Overtakes
      <4> QED BY <2>2, <3>2, <3>3, <4>1, <4>2 DEF InOrder
    <3>5. EndComes(run, over, mail, t)
      BY <1>0, <2>2, <2>6 DEF Awaited
    <3> QED BY <2>3, <3>4, <3>5
  <2> QED BY <2>4, <2>5, <2>6
<1>3. CASE Lose
  BY <1>0, <1>3 DEF Lose
<1>4. CASE Restart
  BY <1>0, <1>4 DEF Restart, Forget, Awaited, EndComes, agent
<1>5. CASE UNCHANGED flightVars
  BY <1>0, <1>5 DEF flightVars, Awaited, EndComes, agent, flight
<1> QED BY <1>1, <1>2, <1>3, <1>4, <1>5 DEF FlightNext

LEMMA ClosedStep ==
  ASSUME FlightTyped, Alive, Closed, [FlightNext]_flightVars
  PROVE  Closed'
<1> SUFFICES ASSUME world'.lose = {}, ~turn'.on, turn'.no > 0
             PROVE  \/ /\ mail' = <<>> /\ act' = "idle" /\ inflight' = {} /\ candidate' = None
                       /\ \A n \in Names : cursorPending'[n] = 0
                    \/ Len(mail') \in Places(mail') /\ mail'[Len(mail')].ev = "stop"
  BY DEF Closed
<1>0. world' = world /\ world.lose = {}
  BY DEF FlightNext, Agent, Prompt, Stop, Begin, Ask, Remind, Allow, Refuse, Finish,
       ByAgent, Deliver, Lose, Restart, flightVars
<1>t. turn \in [no : 0..MaxTurns, on : BOOLEAN]
  BY DEF FlightTyped
<1>1. CASE Agent
  <2>0. ~Prompt
    BY <1>t DEF Prompt
  <2>1. CASE Stop
    BY <2>1, Says, RepFields DEF Longer
  <2>2. CASE ~Stop
    <3>1. run = {} \/ turn.on
      BY DEF Alive
    <3>2. turn' = turn
      BY <1>1, <2>0, <2>2 DEF Agent, Begin, Ask, Remind, Allow, Refuse, Finish
    <3>3. dialog \subseteq run
      BY DEF FlightTyped
    <3> QED BY <1>1, <2>0, <2>2, <3>1, <3>2, <3>3 DEF Agent, Begin, Ask, Remind, Allow,
           Refuse, Finish
  <2> QED BY <2>1, <2>2
<1>2. CASE Deliver
  <2>1. PICK k, up : Arrived(k, up)
    BY <1>2, Arrives
  <2>2. k \in Places(mail) /\ Len(mail) \in Nat /\ turn' = turn
    BY <2>1, MailTyped DEF Arrived, agent
  <2>3. Len(mail) \in Places(mail) /\ mail[Len(mail)].ev = "stop"
    <3>1. mail # <<>>
      BY <2>2 DEF Places
    <3> QED BY <1>0, <2>2, <3>1 DEF Closed
  <2>4. CASE k < Len(mail)
    BY <2>1, <2>3, <2>4 DEF Arrived
  <2>5. CASE k = Len(mail)
    <3>1. ~(1 < k)
      <4>1. 1 < k => 1 \in Places(mail)
        BY <2>2 DEF Places
      <4>2. ~Overtakes(mail[k], mail[1])
        BY <2>3, <2>5 DEF Overtakes, Boundary
      <4> QED BY <2>1, <4>1, <4>2 DEF Arrived
    <3>2. Len(mail') = 0 /\ mail' \in Seq(Reports)
      BY <2>1, <2>2, <2>5, <3>1 DEF Arrived, Shorter, Places
    <3>3. mail' = <<>>
      BY <3>2, EmptySeq
    <3>4. Bounded(mail[k])
      BY <2>1, <2>3, <2>5 DEF Arrived, Reduce, Asked, Reminded, Proved, Counted,
           Suppressed, Worked, Proves, Counts
    <3> QED BY <2>3, <2>5, <3>3, <3>4 DEF Bounded, Forget
  <2> QED BY <2>2, <2>4, <2>5 DEF Places
<1>3. CASE Lose
  BY <1>0, <1>3 DEF Lose
<1>4. CASE Restart
  BY <1>0, <1>4 DEF Restart, Forget, Closed, agent
<1>5. CASE UNCHANGED flightVars
  BY <1>0, <1>5 DEF flightVars, Closed, agent, flight
<1> QED BY <1>1, <1>2, <1>3, <1>4, <1>5 DEF FlightNext

-----------------------------------------------------------------------------
(* Agents that tell of a tool's beginning.                                  *)

LEMMA AgentHeeded ==
  ASSUME FlightTyped, Alive, InOrder, Heeded, Agent, Heard, kind # "cursor"
  PROVE  Heeded'
<1> USE RepFields DEF Longer, Kept
<1>0. /\ run \subseteq Tools /\ dialog \subseteq run /\ shown \subseteq over.asked
      /\ ~turn.on => run = {}
  BY DEF FlightTyped, Alive
<1>h. /\ \A t \in run : t \in inflight \/ Told(mail, "pre", t)
      /\ \A t \in dialog : dialog = {t}
      /\ \A i, j \in Places(mail) :
           i < j /\ mail[i].ev = "ask" /\ mail[i].tool \in dialog => mail[j].ev # "ask"
      /\ \A t \in dialog : t \in shown =>
           act = "blocked" /\ candidate \in {t, None} /\ \A i \in Places(mail) : mail[i].ev # "ask"
  BY DEF Heeded
<1>n. Places(mail') \subseteq Nat /\ Places(mail) \subseteq Nat
  BY StepTyped, PlacesNat, LenProperties, MailTyped DEF FlightTyped, FlightNext
<1>1. CASE Prompt
  BY <1>0, <1>h, <1>1, Says DEF Prompt, Heeded
<1>2. CASE Stop
  BY <1>0, <1>h, <1>2, Says DEF Stop, Heeded
<1>3. ASSUME NEW t \in Tools, Begin(t) PROVE Heeded'
  <2>1. Kept /\ Longer(Rep("pre", t)) /\ run' = run \cup {t} /\ dialog' = dialog
    BY <1>3, Says DEF Begin
  <2> QED BY <1>h, <2>1 DEF Heeded
<1>4. ASSUME NEW t \in Tools, Ask(t) PROVE Heeded'
  <2>1. Kept /\ Longer(Rep("ask", t)) /\ run' = run /\ dialog' = {t} /\ t \notin shown
    BY <1>0, <1>4, Says DEF Ask
  <2>2. \A i \in Places(mail) : mail[i].tool = t => mail[i].ev # "ask"
    BY <1>4 DEF Ask, InOrder
  <2>3. \A i, j \in Places(mail') :
          i < j /\ mail'[i].ev = "ask" /\ mail'[i].tool \in dialog' => mail'[j].ev # "ask"
    BY <2>1, <2>2, <1>n
  <2>4. \A u \in run' : u \in inflight' \/ Told(mail', "pre", u)
    BY <1>h, <2>1
  <2> QED BY <2>1, <2>3, <2>4 DEF Heeded
<1>5. ASSUME NEW t \in Tools, Remind(t) PROVE Heeded'
  <2>1. Kept /\ Longer(Rep("again", t)) /\ run' = run /\ dialog' = dialog
    BY <1>5, Says DEF Remind
  <2> QED BY <1>h, <2>1 DEF Heeded
<1>6. ASSUME NEW t \in Tools, Allow(t) PROVE Heeded'
  <2>1. Kept /\ mail' = mail /\ run' = run /\ dialog' = dialog \ {t}
    BY <1>6, Says DEF Allow
  <2> QED BY <1>h, <2>1 DEF Heeded
<1>7. ASSUME NEW t \in Tools, Refuse(t) PROVE Heeded'
  <2>1. Kept /\ mail' = mail /\ run' = run \ {t} /\ dialog' = dialog \ {t}
    BY <1>7, Says DEF Refuse
  <2> QED BY <1>h, <2>1 DEF Heeded
<1>8. ASSUME NEW t \in Tools, Finish(t) PROVE Heeded'
  <2>1. Kept /\ Longer(Rep("post", t)) /\ run' = run \ {t} /\ dialog' = dialog
    BY <1>8, Says DEF Finish
  <2> QED BY <1>h, <2>1 DEF Heeded
<1> QED BY <1>1, <1>2, <1>3, <1>4, <1>5, <1>6, <1>7, <1>8 DEF Agent

LEMMA HasRoom ==
  ASSUME FlightTyped, Alive, Once, RoomForAll
  PROVE  Room
<1> SUFFICES ASSUME Cardinality(inflight) >= MaxInflight, NEW i \in Places(mail), mail[i].ev = "pre",
                    mail[i].tool \in Tools
             PROVE  FALSE
  BY MailTyped DEF Room, Told, Alive, Boundary
<1>1. IsFiniteSet(Tools) /\ inflight \subseteq Tools /\ MaxInflight \in Nat
  BY FlightBounds DEF FlightTyped
<1>2. IsFiniteSet(inflight) /\ Cardinality(inflight) \in Nat /\ Cardinality(Tools) \in Nat
  BY <1>1, FS_Subset, FS_CardinalityType
<1>3. inflight # Tools
  BY DEF Once
<1>4. Cardinality(inflight) <= Cardinality(Tools) /\ Cardinality(inflight) # Cardinality(Tools)
  BY <1>1, <1>3, FS_Subset
<1> QED BY <1>1, <1>2, <1>4 DEF RoomForAll

\* With an open dialog of a tool that has been heard of, the only proof is its own.
LEMMA OwnProof ==
  ASSUME NEW e, NEW uses, IsFiniteSet(uses), e.tool \in uses
  PROVE  Proof(e, uses) \in {e.tool, None}
<1> DEFINE named == {t \in uses : name[t] = name[e.tool]}
<1>1. CASE Cardinality(named) = 1
  <2>1. e.tool \in named
    OBVIOUS
  <2>2. IsFiniteSet(named)
    BY FS_Subset
  <2>3. PICK x : named = {x}
    BY <1>1, <2>2, FS_Singleton
  <2>4. (CHOOSE t \in named : TRUE) = e.tool
    BY <2>1, <2>3
  <2> QED BY <2>4 DEF Proof
<1>2. CASE Cardinality(named) # 1
  BY <1>2 DEF Proof
<1> QED BY <1>1, <1>2

LEMMA DeliverHeeded ==
  ASSUME FlightTyped, Room, Alive, Apart, InOrder, Once, Paused, Heeded,
         Heard,
         kind # "cursor", NEW k, NEW up, Arrived(k, up)
  PROVE  Heeded'
<1> DEFINE e == mail[k]
<1>1. /\ k \in Places(mail) /\ Reduce(e) /\ run' = run /\ dialog' = dialog
      /\ shown' = IF e.ev = "ask" THEN shown \cup {e.tool} ELSE shown
      /\ \A ev, t : Told(mail, ev, t) => Told(mail', ev, t) \/ (e.ev = ev /\ e.tool = t)
      /\ \A i \in Places(mail') : up[i] \in Places(mail) /\ up[i] # k /\ mail'[i] = mail[up[i]]
      /\ \A i, j \in Places(mail') : i < j => up[i] < up[j]
  BY DEF Arrived, agent, Shorter
<1>2. \A j \in Places(mail) : j # k => k < j \/ (j < k /\ Overtakes(e, mail[j]))
  BY <1>1, MailTyped DEF Arrived
<1>h. /\ \A t \in run : t \in inflight \/ Told(mail, "pre", t)
      /\ \A t \in dialog : dialog = {t}
      /\ \A i, j \in Places(mail) :
           i < j /\ mail[i].ev = "ask" /\ mail[i].tool \in dialog => mail[j].ev # "ask"
      /\ \A t \in dialog : t \in shown =>
           act = "blocked" /\ candidate \in {t, None} /\ \A i \in Places(mail) : mail[i].ev # "ask"
  BY DEF Heeded
<1>t. e \in Reports /\ (e.tool = None <=> Boundary(e)) /\ dialog \subseteq run
  BY <1>1, MailTyped DEF Alive, FlightTyped
<1>3. ASSUME NEW t \in run PROVE t \in inflight' \/ Told(mail', "pre", t)
  <2>1. CASE e.ev = "pre"
    <3>1. Told(mail, "pre", e.tool)
      BY <1>1, <2>1 DEF Told
    <3>2. inflight' = inflight \cup {e.tool}
      BY <1>1, <2>1, <3>1 DEF Room, Reduce, Asked, Reminded, Proved,
           Counted, Suppressed, Bounded, Worked,
           Proves, Counts, Tracks, Tracked, Boundary
    <3> QED BY <1>1, <1>3, <1>h, <3>2
  <2>2. CASE e.ev = "post"
    <3>1. inflight' = inflight \ {e.tool}
      BY <1>1, <2>2 DEF Reduce, Asked, Reminded, Proved, Counted, Suppressed,
           Bounded, Worked,
           Proves, Counts, Tracks, Tracked, Boundary
    <3>2. e.tool # t
      BY <1>1, <1>3, <2>2 DEF InOrder
    <3> QED BY <1>1, <1>3, <1>h, <2>2, <3>1, <3>2
  <2>3. CASE Boundary(e)
    <3>1. t \notin inflight
      BY <1>1, <1>3, <2>3 DEF Apart
    <3> QED BY <1>1, <1>3, <1>h, <2>3, <3>1 DEF Boundary
  <2>4. CASE e.ev \in {"ask", "again"}
    <3>1. inflight' = inflight
      BY <1>1, <2>4 DEF Reduce, Asked, Reminded, Proved, Counted, Suppressed,
           Bounded, Worked,
           Proves, Counts, Boundary, flight
    <3> QED BY <1>1, <1>3, <1>h, <2>4, <3>1
  <2> QED BY <1>t, <2>1, <2>2, <2>3, <2>4 DEF Reports, Kinds, Boundary
<1>4. \A i, j \in Places(mail') :
        i < j /\ mail'[i].ev = "ask" /\ mail'[i].tool \in dialog => mail'[j].ev # "ask"
  BY <1>1, <1>h
<1>5. ASSUME NEW t \in dialog, t \in shown'
      PROVE  act' = "blocked" /\ candidate' \in {t, None} /\ \A i \in Places(mail') : mail'[i].ev # "ask"
  <2>1. CASE e.ev = "ask"
    <3>1. e.tool = t
      BY <1>1, <1>h, <1>5, <2>1
    <3>2. act' = "blocked" /\ candidate' = Proof(e, inflight)
      BY <1>1, <2>1 DEF Reduce, Asked, Reminded, Proved, Counted, Suppressed,
           Bounded, Worked,
           Proves, Counts, Boundary
    <3>3. t \in inflight
      <4>1. ASSUME Told(mail, "pre", t) PROVE FALSE
        <5>1. PICK j \in Places(mail) : mail[j].ev = "pre" /\ mail[j].tool = t
          BY <4>1 DEF Told
        <5>2. j # k
          BY <5>1, <2>1
        <5>3. ~(j < k /\ Overtakes(e, mail[j]))
          BY <3>1, <5>1 DEF Overtakes
        <5>4. ~(k < j)
          BY <1>1, <1>t, <3>1, <5>1, <2>1 DEF InOrder, Boundary
        <5> QED BY <1>2, <5>2, <5>3, <5>4
      <4> QED BY <4>1, <1>h, <1>t, <1>5
    <3>4. candidate' \in {t, None}
      <4>1. IsFiniteSet(inflight)
        BY FS_Subset, FlightBounds DEF FlightTyped
      <4> QED BY <3>1, <3>2, <3>3, <4>1, OwnProof
    <3>5. \A i \in Places(mail) : i # k => mail[i].ev # "ask"
      BY <1>1, <1>2, <1>h, <1>5, <2>1, <3>1 DEF Overtakes
    <3> QED BY <1>1, <3>2, <3>4, <3>5
  <2>2. CASE e.ev # "ask"
    <3>1. t \in shown /\ act = "blocked" /\ candidate \in {t, None} /\ t \in run /\ t # None
      BY <1>1, <1>h, <1>t, <1>5, <2>2, FlightBounds DEF FlightTyped
    <3>2. \A i \in Places(mail') : mail'[i].ev # "ask"
      BY <1>1, <1>h, <1>5, <3>1
    <3>3. ~Boundary(e)
      BY <1>1, <3>1 DEF Apart
    <3>4. e.ev = "post" => e.tool # t
      BY <1>1, <3>1 DEF InOrder
    <3>5. ~Proves(e)
      BY <3>1, <3>3, <3>4, <1>t DEF Proves, Boundary
    <3>6. act' = "blocked" /\ candidate' = candidate
      BY <1>1, <2>2, <3>1, <3>3, <3>5 DEF Reduce, Asked, Reminded, Proved, Counted,
           Suppressed, Bounded, Worked,
           Counts, flight
    <3> QED BY <3>1, <3>2, <3>6
  <2> QED BY <2>1, <2>2
<1> HIDE DEF e
<1> QED BY <1>1, <1>h, <1>3, <1>4, <1>5 DEF Heeded

LEMMA HeardStep ==
  ASSUME [FlightNext]_flightVars, Heard'
  PROVE  Heard /\ kind' = kind /\ ~world.restarts
<1>1. world' = world /\ kind' = kind
  BY DEF FlightNext, Agent, Prompt, Stop, Begin, Ask, Remind, Allow, Refuse, Finish,
       ByAgent, Deliver, Lose, Restart, flightVars
<1> QED BY <1>1 DEF Heard

LEMMA HeededStep ==
  ASSUME FlightTyped, Room, Alive, Apart, InOrder, Once, Paused, Heeded,
         [FlightNext]_flightVars
  PROVE  Heeded'
<1> SUFFICES ASSUME Heard', kind' # "cursor" PROVE Heeded'
  BY DEF Heeded
<1>0. Heard /\ kind # "cursor" /\ ~world.restarts /\ "pre" \notin world.lose
  BY HeardStep DEF Heard
<1>1. CASE Agent
  BY <1>0, <1>1, AgentHeeded
<1>2. CASE Deliver
  BY <1>0, <1>2, Arrives, DeliverHeeded
<1>3. CASE Lose
  <2>1. PICK up : Lost(up)
    BY <1>3, LosesOldest
  <2>2. /\ run' = run /\ dialog' = dialog /\ inflight' = inflight
        /\ act' = act /\ candidate' = candidate /\ shown' = shown
        /\ mail[1].ev # "pre"
        /\ \A ev, t : Told(mail, ev, t) => Told(mail', ev, t) \/ (mail[1].ev = ev /\ mail[1].tool = t)
        /\ \A i \in Places(mail') : up[i] \in Places(mail) /\ mail'[i] = mail[up[i]]
        /\ \A i, j \in Places(mail') : i < j => up[i] < up[j]
    BY <1>0, <2>1 DEF Lost, Shorter, agent, flight
  <2> QED BY <1>0, <2>2 DEF Heeded
<1>4. CASE Restart
  BY <1>0, <1>4 DEF Restart
<1>5. CASE UNCHANGED flightVars
  BY <1>0, <1>5 DEF flightVars, Heeded, agent, flight
<1> QED BY <1>1, <1>2, <1>3, <1>4, <1>5 DEF FlightNext

-----------------------------------------------------------------------------
(* Cursor.                                                                  *)

LEMMA FiniteShown ==
  ASSUME FlightTyped, NEW S, S \subseteq shown
  PROVE  IsFiniteSet(S) /\ Cardinality(S) \in Nat
BY FS_Subset, FS_CardinalityType, FlightBounds DEF FlightTyped

LEMMA AgentOpen ==
  ASSUME FlightTyped, Alive, Agent, kind = "cursor"
  PROVE  /\ Kept
         /\ \A t : t \in run' \/ Told(mail', "post", t) =>
              t \in run \/ Told(mail, "post", t) \/ (t \notin shown /\ Told(mail', "ask", t))
         /\ \A t : Told(mail, "ask", t) => Told(mail', "ask", t)
<1> USE RepFields DEF Longer
<1> DEFINE Goal == /\ Kept
                   /\ \A u : u \in run' \/ Told(mail', "post", u) =>
                        u \in run \/ Told(mail, "post", u) \/ (u \notin shown /\ Told(mail', "ask", u))
                   /\ \A u : Told(mail, "ask", u) => Told(mail', "ask", u)
<1>0. shown \subseteq run \cup over.done /\ dialog \subseteq run
  BY DEF Alive, FlightTyped
<1>1. CASE Prompt
  BY <1>1, Says DEF Prompt
<1>2. CASE Stop
  BY <1>2, Says DEF Stop
<1>3. ASSUME NEW t \in Tools, Begin(t) PROVE Goal
  <2>1. Kept /\ Longer(Rep("ask", t)) /\ run' = run \cup {t} /\ t \notin shown
    BY <1>0, <1>3, Says DEF Begin
  <2> QED BY <2>1
<1>4. ASSUME NEW t \in Tools, Ask(t) PROVE Goal
  BY <1>4 DEF Ask
<1>5. ASSUME NEW t \in Tools, Remind(t) PROVE Goal
  BY <1>5 DEF Remind
<1>6. ASSUME NEW t \in Tools, Allow(t) PROVE Goal
  BY <1>6, Says DEF Allow
<1>7. ASSUME NEW t \in Tools, Refuse(t) PROVE Goal
  <2>1. Kept /\ Longer(Rep("post", t)) /\ run' = run \ {t} /\ t \in run
    BY <1>0, <1>7, Says DEF Refuse
  <2> QED BY <2>1
<1>8. ASSUME NEW t \in Tools, Finish(t) PROVE Goal
  <2>1. Kept /\ Longer(Rep("post", t)) /\ run' = run \ {t} /\ t \in run
    BY <1>8, Says DEF Finish
  <2> QED BY <2>1
<1> QED BY <1>1, <1>2, <1>3, <1>4, <1>5, <1>6, <1>7, <1>8 DEF Agent

\* A set that grows by at most one tool counts at most one more.
LEMMA OneMore ==
  ASSUME NEW S, NEW R, NEW x, IsFiniteSet(R), S \subseteq R \cup {x}
  PROVE  Cardinality(S) \in Nat /\ Cardinality(R) \in Nat /\ Cardinality(S) <= Cardinality(R) + 1
<1>1. IsFiniteSet(R \cup {x}) /\ Cardinality(R) \in Nat
      /\ Cardinality(R \cup {x}) = IF x \in R THEN Cardinality(R) ELSE Cardinality(R) + 1
  BY FS_AddElement, FS_CardinalityType
<1>2. Cardinality(S) <= Cardinality(R \cup {x}) /\ IsFiniteSet(S)
  BY <1>1, FS_Subset
<1>3. Cardinality(S) \in Nat
  BY <1>2, FS_CardinalityType
<1> QED BY <1>1, <1>2, <1>3

LEMMA OneLess ==
  ASSUME NEW S, NEW R, NEW x \in R, IsFiniteSet(R), S \subseteq R \ {x}
  PROVE  Cardinality(S) \in Nat /\ Cardinality(R) \in Nat /\ Cardinality(S) <= Cardinality(R) - 1
<1>1. IsFiniteSet(R \ {x}) /\ Cardinality(R) \in Nat /\ Cardinality(R \ {x}) = Cardinality(R) - 1
  BY FS_RemoveElement, FS_CardinalityType
<1>2. Cardinality(S) <= Cardinality(R \ {x}) /\ IsFiniteSet(S)
  BY <1>1, FS_Subset
<1>3. Cardinality(S) \in Nat
  BY <1>2, FS_CardinalityType
<1> QED BY <1>1, <1>2, <1>3

LEMMA StillCovers ==
  ASSUME NEW a \in Nat, NEW b \in Nat, NEW c \in Nat, NEW d, b <= c
  PROVE  /\ a <= b + 1 /\ d = c + 1 => a <= d
         /\ a <= b - 1 /\ (d = IF c > 0 THEN c - 1 ELSE c) => a <= d
OBVIOUS

\* What the reducer's count of Cursor's questions becomes.
LEMMA ReduceCounts ==
  ASSUME FlightTyped, Paused, kind = "cursor", NEW e \in Reports, e.tool = None <=> Boundary(e),
         Reduce(e), NEW n \in Names
  PROVE  /\ e.ev = "ask" =>
              cursorPending'[n] = IF n = name[e.tool] THEN cursorPending[n] + 1 ELSE cursorPending[n]
         /\ e.ev = "post" =>
              cursorPending'[n] = IF n = name[e.tool] /\ cursorPending[n] > 0
                                  THEN cursorPending[n] - 1 ELSE cursorPending[n]
         /\ e.ev \in {"pre", "again"} => cursorPending'[n] = cursorPending[n]
         /\ Boundary(e) => cursorPending'[n] = 0
<1>0. cursorPending \in [Names -> Nat] /\ (~Boundary(e) => name[e.tool] \in Names)
  BY DEF FlightTyped, Reports
<1>1. CASE e.ev = "ask"
  BY <1>0, <1>1 DEF Reduce, Asked, Reminded, Proved, Counted, Suppressed, Bounded,
       Worked, Proves, Counts, Boundary
<1>2. CASE e.ev = "post"
  <2>1. CASE Counted(e)
    BY <1>0, <1>2, <2>1 DEF Counted, Counts, Boundary
  <2>2. CASE Suppressed(e)
    BY <1>0, <1>2, <2>2 DEF Suppressed, Counts, Boundary
  <2>3. CASE Worked(e)
    BY <1>0, <1>2, <2>3 DEF Worked, Paused, Boundary
  <2> QED BY <1>2, <2>1, <2>2, <2>3 DEF Reduce, Asked, Reminded, Proved, Proves,
         Bounded, Boundary
<1>3. CASE e.ev \in {"pre", "again"}
  BY <1>0, <1>3 DEF Reduce, Asked, Reminded, Proved, Counted, Suppressed, Bounded,
       Worked, Proves, Counts, Boundary, flight
<1>4. CASE Boundary(e)
  BY <1>0, <1>4 DEF Reduce, Asked, Reminded, Proved, Counted, Suppressed, Bounded,
       Worked, Proves, Counts, Boundary, Forget
<1> QED BY <1>1, <1>2, <1>3, <1>4 DEF Boundary

LEMMA DeliverOwed ==
  ASSUME FlightTyped, Alive, Apart, InOrder, Paused, Owed, Heard,
         kind = "cursor", NEW k, NEW up, Arrived(k, up)
  PROVE  Owed'
<1> DEFINE e == mail[k]
<1>1. /\ k \in Places(mail) /\ Reduce(e) /\ run' = run /\ name' = name
      /\ shown' = IF e.ev = "ask" THEN shown \cup {e.tool} ELSE shown
      /\ \A t : Told(mail', "post", t) => Told(mail, "post", t)
      /\ \A t : Told(mail, "ask", t) => Told(mail', "ask", t) \/ (e.ev = "ask" /\ e.tool = t)
      /\ \A i \in Places(mail') : up[i] \in Places(mail) /\ up[i] # k /\ mail'[i] = mail[up[i]]
  BY DEF Arrived, agent, Shorter
<1>2. \A j \in Places(mail) : j # k => k < j \/ (j < k /\ Overtakes(e, mail[j]))
  BY <1>1, MailTyped DEF Arrived
<1>h. /\ \A n \in Names : Cardinality(Open(shown, run, mail, n)) <= cursorPending[n]
      /\ \A t \in Tools : t \in run \/ Told(mail, "post", t) => t \in shown \/ Told(mail, "ask", t)
  BY DEF Owed
<1>t. e \in Reports /\ (e.tool = None <=> Boundary(e)) /\ cursorPending \in [Names -> Nat]
  BY <1>1, MailTyped DEF Alive, FlightTyped
<1>3. ASSUME NEW t \in Tools, t \in run \/ Told(mail', "post", t)
      PROVE  t \in shown' \/ Told(mail', "ask", t)
  BY <1>1, <1>h, <1>3
<1>4. ASSUME NEW n \in Names
      PROVE  Cardinality(Open(shown', run, mail', n)) <= cursorPending'[n]
  <2> DEFINE R == Open(shown, run, mail, n)
             S == Open(shown', run, mail', n)
  <2>1. /\ IsFiniteSet(R) /\ Cardinality(R) \in Nat
        /\ Cardinality(R) <= cursorPending[n] /\ cursorPending[n] \in Nat
    BY <1>h, <1>t, FiniteShown DEF Open
  <2>2. CASE e.ev = "ask" /\ n = name[e.tool]
    <3>1. S \subseteq R \cup {e.tool}
      BY <1>1, <2>2 DEF Open
    <3>2. cursorPending'[n] = cursorPending[n] + 1
      BY <1>1, <1>t, <2>2, ReduceCounts
    <3> HIDE DEF R, S
    <3>3. Cardinality(S) \in Nat /\ Cardinality(S) <= Cardinality(R) + 1
      BY <2>1, <3>1, OneMore
    <3>4. Cardinality(S) <= cursorPending'[n]
      BY <2>1, <3>2, <3>3, StillCovers
    <3> QED BY <3>4 DEF S
  <2>3. ASSUME S \subseteq R PROVE Cardinality(S) \in Nat /\ Cardinality(S) <= cursorPending[n]
    <3> HIDE DEF R, S
    <3>1. IsFiniteSet(S) /\ Cardinality(S) <= Cardinality(R)
      BY <2>1, <2>3, FS_Subset
    <3>2. Cardinality(S) \in Nat
      BY <3>1, FS_CardinalityType
    <3> QED BY <2>1, <3>1, <3>2
  <2>4. CASE e.ev = "ask" /\ n # name[e.tool]
    <3>1. S \subseteq R
      BY <1>1, <2>4 DEF Open
    <3>2. cursorPending'[n] = cursorPending[n]
      BY <1>1, <1>t, <2>4, ReduceCounts
    <3> QED BY <2>3, <3>1, <3>2
  <2>5. CASE e.ev = "post" /\ n = name[e.tool]
    <3>1. e.tool \in R
      <4>1. Told(mail, "post", e.tool) /\ e.tool \in Tools
        BY <1>1, <1>t, <2>5 DEF Told, Reports, Boundary
      <4>2. ~Told(mail, "ask", e.tool)
        <5> SUFFICES ASSUME NEW j \in Places(mail), mail[j].ev = "ask", mail[j].tool = e.tool PROVE FALSE
          BY DEF Told
        <5>1. j # k
          BY <2>5
        <5>2. ~(j < k /\ Overtakes(e, mail[j]))
          BY DEF Overtakes
        <5>3. ~(k < j)
          BY <1>1, <1>t, <2>5 DEF InOrder, Boundary
        <5> QED BY <1>2, <5>1, <5>2, <5>3
      <4> QED BY <1>h, <2>5, <4>1, <4>2 DEF Open
    <3>2. ~Told(mail', "post", e.tool)
      <4> SUFFICES ASSUME NEW i \in Places(mail'), mail'[i].ev = "post", mail'[i].tool = e.tool PROVE FALSE
        BY DEF Told
      <4>1. up[i] \in Places(mail) /\ up[i] # k /\ mail[up[i]].ev = "post" /\ mail[up[i]].tool = e.tool
        BY <1>1
      <4>2. ~(up[i] < k /\ Overtakes(e, mail[up[i]]))
        BY <4>1 DEF Overtakes
      <4>3. ~(k < up[i])
        BY <1>1, <1>t, <2>5, <4>1 DEF InOrder, Boundary
      <4> QED BY <1>2, <4>1, <4>2, <4>3
    <3>3. e.tool \notin run
      BY <1>1, <2>5 DEF InOrder
    <3>4. S \subseteq R \ {e.tool}
      BY <1>1, <2>5, <3>2, <3>3 DEF Open
    <3>5. cursorPending'[n] = IF cursorPending[n] > 0 THEN cursorPending[n] - 1 ELSE cursorPending[n]
      BY <1>1, <1>t, <2>5, ReduceCounts
    <3>6. Cardinality(S) \in Nat /\ Cardinality(S) <= Cardinality(R) - 1
      <4> HIDE DEF R, S, e
      <4> QED BY <2>1, <3>1, <3>4, OneLess
    <3> HIDE DEF R, S
    <3>7. Cardinality(S) <= cursorPending'[n]
      BY <2>1, <3>5, <3>6, StillCovers
    <3> QED BY <3>7 DEF S
  <2>6. CASE e.ev = "post" /\ n # name[e.tool]
    <3>1. S \subseteq R
      BY <1>1, <2>6 DEF Open
    <3>2. cursorPending'[n] = cursorPending[n]
      BY <1>1, <1>t, <2>6, ReduceCounts
    <3> QED BY <2>3, <3>1, <3>2
  <2>7. CASE e.ev \in {"pre", "again"}
    <3>1. S \subseteq R
      BY <1>1, <2>7 DEF Open
    <3>2. cursorPending'[n] = cursorPending[n]
      BY <1>1, <1>t, <2>7, ReduceCounts
    <3> QED BY <2>3, <3>1, <3>2
  <2>8. CASE Boundary(e)
    <3>1. ASSUME NEW t \in S PROVE FALSE
      <4>1. t \in shown /\ (t \in run \/ Told(mail', "post", t))
        BY <1>1, <2>8 DEF Open, Boundary
      <4>2. t \notin run
        BY <1>1, <2>8, <4>1 DEF Apart
      <4>3. PICK i \in Places(mail') : mail'[i].ev = "post" /\ mail'[i].tool = t
        BY <4>1, <4>2 DEF Told
      <4>4. up[i] \in Places(mail) /\ up[i] # k /\ mail[up[i]].ev = "post" /\ mail[up[i]].tool = t
        BY <1>1, <4>3
      <4>5. k < up[i]
        BY <1>2, <2>8, <4>4 DEF Overtakes
      <4> QED BY <1>1, <2>8, <4>1, <4>4, <4>5 DEF Apart, Boundary
    <3>2. Cardinality(S) = 0
      BY <3>1, FS_EmptySet
    <3>3. cursorPending'[n] = 0
      BY <1>1, <1>t, <2>8, ReduceCounts
    <3> QED BY <3>2, <3>3
  <2> QED BY <1>t, <2>2, <2>4, <2>5, <2>6, <2>7, <2>8 DEF Reports, Kinds, Boundary
<1>5. \A n \in Names : Open(shown, run, mail, n)' = Open(shown', run, mail', n)
  BY <1>1 DEF Open
<1> HIDE DEF e
<1> QED BY <1>1, <1>3, <1>4, <1>5 DEF Owed

LEMMA OwedStep ==
  ASSUME FlightTyped, Alive, Apart, InOrder, Paused, Owed, [FlightNext]_flightVars
  PROVE  Owed'
<1> SUFFICES ASSUME Heard', kind' = "cursor" PROVE Owed'
  BY DEF Owed
<1>0. Heard /\ kind = "cursor" /\ ~world.restarts /\ "ask" \notin world.lose
  BY HeardStep DEF Heard
<1>h. /\ \A n \in Names : Cardinality(Open(shown, run, mail, n)) <= cursorPending[n]
      /\ \A t \in Tools : t \in run \/ Told(mail, "post", t) => t \in shown \/ Told(mail, "ask", t)
  BY <1>0 DEF Owed
\* A step that leaves the reducer alone opens nothing that has been shown.
<1>q. ASSUME UNCHANGED <<name, cursorPending, shown>>,
             \A t : t \in run' \/ Told(mail', "post", t) =>
               t \in run \/ Told(mail, "post", t) \/ (t \notin shown /\ Told(mail', "ask", t)),
             \A t : Told(mail, "ask", t) => Told(mail', "ask", t)
      PROVE  Owed'
  <2>1. ASSUME NEW n \in Names PROVE Cardinality(Open(shown, run, mail, n)') <= cursorPending'[n]
    <3> DEFINE R == Open(shown, run, mail, n)
               S == Open(shown, run, mail, n)'
    <3>1. S \subseteq R /\ IsFiniteSet(R) /\ Cardinality(R) <= cursorPending[n] /\ Cardinality(R) \in Nat
          /\ cursorPending[n] \in Nat
      BY <1>h, <1>q, FiniteShown DEF Open, FlightTyped
    <3> HIDE DEF R, S
    <3>2. IsFiniteSet(S) /\ Cardinality(S) <= Cardinality(R)
      BY <3>1, FS_Subset
    <3>3. Cardinality(S) \in Nat
      BY <3>2, FS_CardinalityType
    <3>4. cursorPending'[n] = cursorPending[n]
      BY <1>q
    <3>5. Cardinality(S) <= cursorPending'[n]
      BY <3>1, <3>2, <3>3, <3>4
    <3> QED BY <3>5 DEF S
  <2>2. \A t \in Tools : t \in run' \/ Told(mail', "post", t) => t \in shown' \/ Told(mail', "ask", t)
    BY <1>h, <1>q
  <2> QED BY <2>1, <2>2 DEF Owed
<1>1. CASE Agent
  BY <1>0, <1>1, <1>q, AgentOpen DEF Kept
<1>2. CASE Deliver
  BY <1>0, <1>2, Arrives, DeliverOwed
<1>3. CASE Lose
  <2>1. PICK up : Lost(up)
    BY <1>3, LosesOldest
  <2>2. /\ UNCHANGED <<name, cursorPending, shown, run>>
        /\ mail[1].ev # "ask"
        /\ \A ev, t : Told(mail, ev, t) => Told(mail', ev, t) \/ (mail[1].ev = ev /\ mail[1].tool = t)
        /\ \A ev, t : Told(mail', ev, t) => Told(mail, ev, t)
    BY <1>0, <2>1 DEF Lost, Shorter, agent, flight
  <2>3. \A t : Told(mail, "ask", t) => Told(mail', "ask", t)
    BY <2>2
  <2> QED BY <2>2, <2>3, <1>q
<1>4. CASE Restart
  BY <1>0, <1>4 DEF Restart
<1>5. CASE UNCHANGED flightVars
  BY <1>q, <1>5 DEF flightVars, agent, flight
<1> QED BY <1>1, <1>2, <1>3, <1>4, <1>5 DEF FlightNext

-----------------------------------------------------------------------------
(* How far the count goes.                                                  *)

LEMMA DeliverAskedFor ==
  ASSUME FlightTyped, Alive, Once, Paused, AskedFor, NEW k, NEW up,
         Arrived(k, up), FlightTyped', Paused'
  PROVE  AskedFor'
<1> DEFINE e == mail[k]
<1>1. /\ k \in Places(mail) /\ e \in Reports /\ (e.tool = None <=> Boundary(e)) /\ Reduce(e)
      /\ name' = name /\ kind' = kind
      /\ shown' = IF e.ev = "ask" THEN shown \cup {e.tool} ELSE shown
  BY MailTyped DEF Arrived, Alive
<1> SUFFICES ASSUME NEW n \in Names PROVE cursorPending'[n] <= Cardinality(Bearers(shown', n))
  BY <1>1 DEF AskedFor, Bearers
<1> DEFINE R == Bearers(shown, n)
           S == Bearers(shown', n)
<1>2. /\ IsFiniteSet(R) /\ Cardinality(R) \in Nat
      /\ cursorPending[n] \in Nat /\ cursorPending[n] <= Cardinality(R)
      /\ shown \subseteq Tools /\ shown' \subseteq Tools /\ IsFiniteSet(Tools)
  BY FiniteShown, FlightBounds DEF Bearers, FlightTyped, AskedFor
<1>3. IsFiniteSet(S) /\ Cardinality(S) \in Nat /\ Cardinality(R) <= Cardinality(S) /\ R \subseteq S
  <2>1. R \subseteq S /\ S \subseteq Tools
    BY <1>1, <1>2 DEF Bearers
  <2> HIDE DEF R, S
  <2>2. IsFiniteSet(S)
    BY <1>2, <2>1, FS_Subset
  <2> QED BY <2>1, <2>2, FS_Subset, FS_CardinalityType
<1>4. CASE kind # "cursor"
  <2>1. cursorPending'[n] = 0
    BY <1>1, <1>4 DEF Paused
  <2>2. 0 <= Cardinality(S)
    <3> HIDE DEF S
    <3> QED BY <1>3
  <2> QED BY <2>1, <2>2
<1>5. CASE kind = "cursor" /\ e.ev = "ask" /\ n = name[e.tool]
  <2>1. e.tool \notin R /\ S = R \cup {e.tool}
    BY <1>1, <1>5 DEF Once, Bearers
  <2>2. cursorPending'[n] = cursorPending[n] + 1
    BY <1>1, <1>5, ReduceCounts
  <2>3. Cardinality(S) = Cardinality(R) + 1
    <3> HIDE DEF R, S, e
    <3> QED BY <1>2, <2>1, FS_AddElement
  <2>4. cursorPending'[n] <= Cardinality(S)
    <3> HIDE DEF R, S, e
    <3> QED BY <1>2, <2>2, <2>3
  <2> QED BY <2>4 DEF S
<1>6. CASE kind = "cursor" /\ ~(e.ev = "ask" /\ n = name[e.tool])
  <2>1. cursorPending'[n] \in Nat /\ cursorPending'[n] <= cursorPending[n]
    <3>1. \/ e.ev = "ask" /\ cursorPending'[n] = cursorPending[n]
          \/ e.ev = "post" /\ cursorPending'[n] \in {cursorPending[n] - 1, cursorPending[n]}
          \/ cursorPending'[n] \in {cursorPending[n], 0}
      BY <1>1, <1>6, ReduceCounts DEF Reports, Kinds, Boundary
    <3>2. cursorPending'[n] \in Nat
      BY DEF FlightTyped
    <3> HIDE DEF e
    <3> QED BY <1>2, <3>1, <3>2
  <2>2. cursorPending'[n] <= Cardinality(S)
    <3> HIDE DEF R, S, e
    <3> QED BY <1>2, <1>3, <2>1
  <2> QED BY <2>2 DEF S
<1> QED BY <1>4, <1>5, <1>6

LEMMA AskedForStep ==
  ASSUME FlightTyped, Alive, Once, Paused, AskedFor, FlightTyped', Paused',
         [FlightNext]_flightVars
  PROVE  AskedFor'
<1>1. CASE Deliver
  BY <1>1, Arrives, DeliverAskedFor
<1>2. CASE ~Deliver
  <2>1. name' = name /\ shown' = shown
    BY <1>2 DEF FlightNext, Agent, Prompt, Stop, Begin, Ask, Remind, Allow, Refuse,
         Finish, ByAgent, Lose, Restart, flightVars
  <2>2. cursorPending' = cursorPending \/ \A n \in Names : cursorPending'[n] = 0
    BY <1>2 DEF FlightNext, Agent, Prompt, Stop, Begin, Ask, Remind, Allow, Refuse,
         Finish, ByAgent, Lose, Restart, Forget, flightVars, flight
  <2>3. \A n \in Names : Cardinality(Bearers(shown, n)) \in Nat
    BY FiniteShown DEF Bearers
  <2>4. ASSUME NEW n \in Names PROVE cursorPending'[n] <= Cardinality(Bearers(shown, n))
    BY <2>2, <2>3 DEF AskedFor
  <2> QED BY <2>1, <2>4 DEF AskedFor, Bearers
<1> QED BY <1>1, <1>2

-----------------------------------------------------------------------------
(* The invariant, and what follows.                                         *)

FlightInv ==
  /\ FlightTyped /\ Alive /\ Apart /\ InOrder /\ Once /\ Paused /\ Awaited /\ Owed /\ AskedFor
  /\ Closed /\ Begun

LEMMA BegunStep ==
  ASSUME FlightTyped, Alive, Begun, [FlightNext]_flightVars
  PROVE  Begun'
<1>1. turn \in [no : 0..MaxTurns, on : BOOLEAN] /\ dialog \subseteq run
  BY DEF FlightTyped
<1>2. CASE Prompt
  BY <1>1, <1>2 DEF Prompt, Begun
<1>3. CASE Agent /\ ~Prompt
  <2>1. CASE turn.on
    BY <1>1, <1>3, <2>1 DEF Begun, Agent, Begin, Ask, Remind, Allow, Refuse, Finish, Stop
  <2>2. CASE ~turn.on
    BY <1>1, <1>3, <2>2 DEF Begun, Alive, Agent, Begin, Ask, Remind, Allow, Refuse, Finish, Stop
  <2> QED BY <2>1, <2>2
<1>4. CASE ~Agent
  BY <1>4 DEF Begun, FlightNext, Deliver, Lose, Restart, flightVars, agent
<1> QED BY <1>2, <1>3, <1>4

LEMMA FlightInitInv ==
  ASSUME FlightInit
  PROVE  FlightInv /\ Heeded
<1>1. FlightTyped
  BY FlightTypedInit
<1>2. /\ mail = <<>> /\ Places(mail) = {} /\ run = {} /\ dialog = {} /\ shown = {} /\ inflight = {}
      /\ candidate = None /\ \A n \in Names : cursorPending[n] = 0
  BY DEF FlightInit, Places
<1>3. over = [done |-> {}, refused |-> {}, asked |-> {}] /\ turn = [no |-> 0, on |-> FALSE]
  BY DEF FlightInit
<1>4. \A ev, t : ~Told(mail, ev, t)
  BY <1>2 DEF Told
<1>5. Alive /\ Apart /\ InOrder /\ Once
  BY <1>2, <1>3 DEF Alive, Apart, InOrder, Once
<1>6. Paused /\ Awaited /\ Closed /\ Begun /\ Heeded
  BY <1>2, <1>3, <1>4 DEF Paused, Awaited, Closed, Begun, Heeded
<1>7. Cardinality({}) = 0
  BY FS_EmptySet
<1>8. \A n \in Names : Open(shown, run, mail, n) = {} /\ Bearers(shown, n) = {}
  BY <1>2 DEF Open, Bearers
<1>9. Owed /\ AskedFor
  <2>1. ASSUME NEW n \in Names
        PROVE  /\ Cardinality(Open(shown, run, mail, n)) <= cursorPending[n]
               /\ cursorPending[n] <= Cardinality(Bearers(shown, n))
    <3>1. Open(shown, run, mail, n) = {} /\ Bearers(shown, n) = {} /\ cursorPending[n] = 0
      BY <1>2, <1>8
    <3> QED BY <3>1, <1>7
  <2> QED BY <1>2, <1>4, <2>1 DEF Owed, AskedFor
<1> QED BY <1>1, <1>5, <1>6, <1>9 DEF FlightInv

LEMMA FlightStep ==
  ASSUME FlightInv, [FlightNext]_flightVars
  PROVE  FlightInv'
<1> USE DEF FlightInv
<1>1. FlightTyped' /\ Alive'
  BY StepTyped, AliveStep
<1>2. Apart' /\ InOrder' /\ Once' /\ Paused'
  BY ApartStep, InOrderStep, OnceStep, PausedStep
<1>3. Awaited' /\ Owed' /\ Closed' /\ Begun'
  BY AwaitedStep, OwedStep, ClosedStep, BegunStep
<1>4. AskedFor'
  BY <1>1, <1>2, AskedForStep
<1> QED BY <1>1, <1>2, <1>3, <1>4

LEMMA FlightInvariant == FlightSpec => []FlightInv
<1>1. FlightInit => FlightInv
  BY FlightInitInv
<1>2. FlightInv /\ [FlightNext]_flightVars => FlightInv'
  BY FlightStep
<1> QED BY <1>1, <1>2, PTL DEF FlightSpec

LEMMA HeededInvariant == FlightSpec /\ []Room => []Heeded
<1>1. FlightInit => Heeded
  BY FlightInitInv
<1>2. FlightInv /\ Room /\ Heeded /\ [FlightNext]_flightVars => Heeded'
  BY HeededStep DEF FlightInv
<1>3. FlightSpec => []FlightInv
  BY FlightInvariant
<1> QED BY <1>1, <1>2, <1>3, PTL DEF FlightSpec

LEMMA InvIsType ==
  ASSUME FlightInv
  PROVE  FlightTypeOK
<1>1. ASSUME NEW n \in Names PROVE cursorPending[n] \in 0..Cardinality(Tools)
  <2>1. cursorPending[n] \in Nat /\ cursorPending[n] <= Cardinality(Bearers(shown, n))
    BY DEF FlightInv, AskedFor, FlightTyped
  <2>2. Bearers(shown, n) \subseteq Tools /\ IsFiniteSet(Tools)
    BY FlightBounds DEF Bearers, FlightInv, FlightTyped
  <2>3. Cardinality(Bearers(shown, n)) <= Cardinality(Tools) /\ Cardinality(Tools) \in Nat
        /\ Cardinality(Bearers(shown, n)) \in Nat
    BY <2>2, FS_Subset, FS_CardinalityType
  <2> QED BY <2>1, <2>3
<1>2. cursorPending \in [Names -> 0..Cardinality(Tools)]
  BY <1>1 DEF FlightInv, FlightTyped
<1> QED BY <1>2 DEF FlightInv, FlightTyped, FlightTypeOK, Reports

LEMMA InvBlocks ==
  ASSUME FlightInv, Heeded
  PROVE  BlockedUntilAnswered
<1> SUFFICES ASSUME Heard, NEW t \in shown, t \in dialog PROVE act = "blocked"
  BY DEF BlockedUntilAnswered
<1>1. CASE kind # "cursor"
  BY <1>1 DEF Heeded
<1>2. CASE kind = "cursor"
  <2>1. name[t] \in Names /\ t \in Open(shown, run, mail, name[t]) /\ cursorPending[name[t]] \in Nat
    BY DEF FlightInv, FlightTyped, Open
  <2>2. /\ Cardinality(Open(shown, run, mail, name[t])) # 0
        /\ Cardinality(Open(shown, run, mail, name[t])) \in Nat
    BY <2>1, FiniteShown, FS_EmptySet DEF FlightInv, Open
  <2>3. Cardinality(Open(shown, run, mail, name[t])) <= cursorPending[name[t]]
    BY <1>2, <2>1 DEF FlightInv, Owed
  <2>4. cursorPending[name[t]] > 0
    BY <2>1, <2>2, <2>3
  <2> QED BY <2>1, <2>4 DEF FlightInv, Paused
<1> QED BY <1>1, <1>2

LEMMA InvComing ==
  ASSUME FlightInv
  PROVE  ProofIsComing
<1> SUFFICES ASSUME world.lose = {}, mail = <<>>, candidate # None
             PROVE  turn.on /\ candidate \in run \cup over.refused
  BY DEF ProofIsComing
<1>1. EndComes(run, over, mail, candidate)
  BY DEF FlightInv, Awaited
<1>2. Places(mail) = {}
  BY DEF Places
<1>3. candidate \in run \cup over.refused
  BY <1>1, <1>2 DEF EndComes, Told
\* The turn is on: after it nothing is waited for, and before the first there is nothing to.
<1>4. turn.no \in Nat
  BY FlightBounds DEF FlightInv, FlightTyped
<1>5. CASE turn.no = 0
  BY <1>3, <1>5 DEF FlightInv, Begun, Alive
<1>6. CASE turn.no > 0
  BY <1>2, <1>3, <1>6 DEF FlightInv, Closed
<1> QED BY <1>3, <1>4, <1>5, <1>6

LEMMA InvLeavesNothing ==
  ASSUME FlightInv
  PROVE  TurnLeavesNothing
<1>1. mail = <<>> => Places(mail) = {}
  BY DEF Places
<1> QED BY <1>1 DEF FlightInv, Closed, TurnLeavesNothing

\* The tracking of tools is well typed: above all, a name is not counted more often than
\* there are tools, although each question of Cursor's adds one and only some ends take one
\* away (applyToolPrecedenceLocked).
THEOREM FlightType == FlightSpec => []FlightTypeOK
<1>1. FlightInv => FlightTypeOK
  BY InvIsType
<1>2. FlightSpec => []FlightInv
  BY FlightInvariant
<1> QED BY <1>1, <1>2, PTL

\* While a dialog is on the screen and its question has been taken, the session is blocked,
\* whatever other tools report and in whatever order, and whatever else is lost as long as
\* no tool's beginning is (of Cursor's, no question) and the daemon stays: nothing is typed
\* into the dialog.  At the cap of tools in flight (maxInflightTools) a beginning makes the
\* reducer forget whom it has seen, hence Room.
THEOREM BlockedUntilAnsweredAlways ==
  FlightSpec /\ []Room => []BlockedUntilAnswered
<1>1. FlightInv /\ Heeded => BlockedUntilAnswered
  BY InvBlocks
<1>2. (FlightSpec => []FlightInv) /\ (FlightSpec /\ []Room => []Heeded)
  BY FlightInvariant, HeededInvariant
<1> QED BY <1>1, <1>2, PTL

\* The same of a session with no more tools than the cap: there is always room, because the
\* one that begins is not in flight yet.
THEOREM BlockedBelowTheCap ==
  RoomForAll => (FlightSpec => []BlockedUntilAnswered)
<1> SUFFICES ASSUME RoomForAll PROVE FlightSpec => []BlockedUntilAnswered
  OBVIOUS
<1>1. FlightInv => Room
  BY HasRoom DEF FlightInv
<1>2. (FlightSpec => []FlightInv) /\ (FlightSpec /\ []Room => []BlockedUntilAnswered)
  BY FlightInvariant, BlockedUntilAnsweredAlways
<1> QED BY <1>1, <1>2, PTL

\* With no hook lost and all of them told, a block that counts on the end of a tool has it
\* still to come: the tool is at work, or it was refused, which no hook tells, and the turn
\* under way will end, in whatever order the hooks came and whenever the daemon restarted
\* (applyToolPrecedenceLocked).
THEOREM ProofIsComingAlways == FlightSpec => []ProofIsComing
<1>1. FlightInv => ProofIsComing
  BY InvComing
<1>2. FlightSpec => []FlightInv
  BY FlightInvariant
<1> QED BY <1>1, <1>2, PTL

\* With no hook lost, nothing of a turn is left when all of it has been told: the session is
\* idle and no tool can be mistaken for one of the next turn.
THEOREM TurnLeavesNothingAlways == FlightSpec => []TurnLeavesNothing
<1>1. FlightInv => TurnLeavesNothing
  BY InvLeavesNothing
<1>2. FlightSpec => []FlightInv
  BY FlightInvariant
<1> QED BY <1>1, <1>2, PTL

=============================================================================
