---------------------------- MODULE HookDispatch ----------------------------
(***************************************************************************)
(* How the engine runs hooks that cause hooks (src/src/engine/mod.rs).     *)
(*                                                                         *)
(* A command fires hooks; a hook's batch is committed and its effects are  *)
(* delivered at once, on the engine's own call stack: triggers, then the   *)
(* hooks of the moves that asked for them, then the forced commands, each  *)
(* of which may fire hooks again.  The model is that stack, one frame per  *)
(* command and per deliver_effects in progress, and the two counters that  *)
(* are to keep it small.                                                   *)
(***************************************************************************)
EXTENDS Naturals, Sequences, FiniteSets

CONSTANTS
    MaxTriggerDepth,  \* MAX_TRIGGER_DEPTH
    MaxForceDepth,    \* MAX_FORCE_DEPTH
    Many,             \* bound: hooks per command; triggers, moves, forced commands per batch
    MovesPerEvent,    \* bound: hooked moves per event
    StackLimit        \* bound: frames; nothing is called beyond it

ASSUME DispatchAssumption ==
    /\ MaxTriggerDepth \in Nat /\ MaxForceDepth \in Nat
    /\ Many \in Nat /\ MovesPerEvent \in Nat /\ StackLimit \in Nat

(* What a frame is doing, and what it has left to do of each kind.  A command *)
(* goes through the one phase "hooks", a delivery through the other three.    *)
Phases == {"hooks", "triggers", "moves", "forced"}
Frame == [phase : Phases, left : [Phases -> 0..Many]]

VARIABLES
    stack,         \* the calls in progress, the innermost last
    triggerDepth,  \* Engine::trigger_depth
    forceDepth,    \* Engine::force_depth
    moved          \* hooked moves since the event began

dispatchVars == <<stack, triggerDepth, forceDepth, moved>>

DispatchInit ==
    /\ stack = <<>>
    /\ triggerDepth = 0
    /\ forceDepth = 0
    /\ moved = 0

-----------------------------------------------------------------------------
Top == stack[Len(stack)]
Below == SubSeq(stack, 1, Len(stack) - 1)
Busy(p) == stack # <<>> /\ Top.phase = p /\ Top.left[p] > 0
Through(p) == stack # <<>> /\ Top.phase = p /\ Top.left[p] = 0

(* The top frame has done one of what its phase does. *)
Less == [Top EXCEPT !.left[Top.phase] = @ - 1]
Done == Append(Below, Less)

Command(n) == [phase |-> "hooks", left |-> [p \in Phases |-> IF p = "hooks" THEN n ELSE 0]]
Delivery(t, m, f) ==
    [phase |-> "triggers",
     left |-> [p \in Phases |->
                 CASE p = "hooks" -> 0 [] p = "triggers" -> t [] p = "moves" -> m [] p = "forced" -> f]]

(* fire_hook on an object that has no such hook, or whose run or batch fails *)
FireNothing ==
    /\ stack' = Done
    /\ UNCHANGED <<triggerDepth, forceDepth, moved>>

(* Mutant: one level too many. *)
TooDeep_OneMore(t) == t > 0 /\ triggerDepth > MaxTriggerDepth
TooDeep(t) == t > 0 /\ triggerDepth >= MaxTriggerDepth

(* Mutant: the level is taken before it is refused. *)
Deliver_EarlyReturnLeaks(t, m, f) ==
    /\ triggerDepth' = triggerDepth + 1
    /\ IF TooDeep(t)
       THEN stack' = Done
       ELSE stack' = Append(Done, Delivery(t, m, f))
    /\ moved' = moved + m
    /\ UNCHANGED forceDepth

(* deliver_effects as far as its first call: a batch with triggers is let in  *)
(* only below the limit, and is dropped whole otherwise.                      *)
Deliver(t, m, f) ==
    /\ IF TooDeep(t)
       THEN /\ stack' = Done
            /\ UNCHANGED triggerDepth
       ELSE /\ stack' = Append(Done, Delivery(t, m, f))
            /\ triggerDepth' = triggerDepth + 1
    /\ moved' = moved + m
    /\ UNCHANGED forceDepth

(* fire_hook: the run leaves a batch of any effects. *)
Fire ==
    \/ FireNothing
    \/ \E t, m, f \in 0..Many :
         /\ Len(stack) < StackLimit
         /\ moved + m <= MovesPerEvent
         /\ Deliver(t, m, f)

-----------------------------------------------------------------------------
MayForce == forceDepth < MaxForceDepth

(* Input, a tick or a request makes the engine fire some hooks. *)
Event ==
    /\ stack = <<>>
    /\ \E n \in 1..Many : stack' = <<Command(n)>>
    /\ moved' = 0
    /\ UNCHANGED <<triggerDepth, forceDepth>>

(* @force, or a request that runs a command as somebody *)
ForceEvent ==
    /\ stack = <<>>
    /\ MayForce
    /\ \E n \in 1..Many : stack' = <<Command(0), Command(n)>>
    /\ forceDepth' = forceDepth + 1
    /\ moved' = 0
    /\ UNCHANGED triggerDepth

CommandHook == Busy("hooks") /\ Fire

(* A command ends; a forced one ends dispatch_as_actor too. *)
CommandEnd ==
    /\ Through("hooks")
    /\ stack' = Below
    /\ forceDepth' = IF Below = <<>> THEN forceDepth ELSE forceDepth - 1
    /\ UNCHANGED <<triggerDepth, moved>>

TriggerHook == Busy("triggers") /\ Fire

TriggersDone ==
    /\ Through("triggers")
    /\ stack' = Append(Below, [Top EXCEPT !.phase = "moves"])
    /\ triggerDepth' = triggerDepth - 1
    /\ UNCHANGED <<forceDepth, moved>>

(* on_leave, on_move or on_enter of a move that asked for its hooks *)
MoveHook == Busy("moves") /\ Fire

MovesDone ==
    /\ Through("moves")
    /\ stack' = Append(Below, [Top EXCEPT !.phase = "forced"])
    /\ UNCHANGED <<triggerDepth, forceDepth, moved>>

(* Mutant: a refused command stays in the list. *)
ForceNothing_Kept ==
    /\ Busy("forced")
    /\ UNCHANGED <<stack, triggerDepth, forceDepth, moved>>

(* A command refused at the depth limit or for its name, or of a player who   *)
(* is offline.                                                                *)
ForceNothing ==
    /\ Busy("forced")
    /\ stack' = Done
    /\ UNCHANGED <<triggerDepth, forceDepth, moved>>

ForceCommand ==
    /\ Busy("forced")
    /\ MayForce
    /\ Len(stack) < StackLimit
    /\ \E n \in 0..Many : stack' = Append(Done, Command(n))
    /\ forceDepth' = forceDepth + 1
    /\ UNCHANGED <<triggerDepth, moved>>

DeliveryReturn ==
    /\ Through("forced")
    /\ stack' = Below
    /\ UNCHANGED <<triggerDepth, forceDepth, moved>>

Return ==
    \/ CommandHook \/ CommandEnd
    \/ TriggerHook \/ TriggersDone
    \/ MoveHook \/ MovesDone
    \/ ForceNothing \/ ForceCommand \/ DeliveryReturn

DispatchNext == Event \/ ForceEvent \/ Return

(* The engine is one thread: a call that has begun goes on. *)
DispatchSpec == DispatchInit /\ [][DispatchNext]_dispatchVars /\ WF_dispatchVars(Return)

-----------------------------------------------------------------------------
TypeOK ==
    /\ stack \in Seq(Frame)
    /\ triggerDepth \in Nat
    /\ forceDepth \in Nat
    /\ moved \in 0..MovesPerEvent

Frames(s, p) == {i \in 1..Len(s) : s[i].phase = p}
Count(s, p) == Cardinality(Frames(s, p))

(* The counters are the number of deliveries that are firing triggers and of  *)
(* commands that were forced: no return, early or late, leaks a level, and    *)
(* between events both are back at zero (trigger_depth, force_depth).         *)
CountersMatchStack ==
    /\ triggerDepth = Count(stack, "triggers")
    /\ forceDepth = Count(stack, "hooks") - (IF stack = <<>> THEN 0 ELSE 1)

(* The two limits bound everything but the hooks of moves: no mixture of      *)
(* triggers and forced commands makes more frames than a fixed number.        *)
OnlyMovesPile ==
    Len(stack) <= (MaxTriggerDepth + 1) + 2 * MaxForceDepth + 1 + Count(stack, "moves")

(* Whatever hooks cause, the engine comes back to its loop, if they make only *)
(* so many hooked moves.                                                      *)
EventEnds == stack # <<>> ~> stack = <<>>
=============================================================================
