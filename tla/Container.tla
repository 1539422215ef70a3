------------------------------ MODULE Container ------------------------------
(***************************************************************************)
(* The dependency container of src/src/core/ioc.rs, with the code that     *)
(* #[component] and #[derive(GritComponent)] generate for a type           *)
(* (src/src/gritshield_macros/src/ioc/component.rs). A component type's    *)
(* boot hook builds its instance and registers it; a lazy type's registers *)
(* a factory, and the first resolve builds the instance outside every lock.*)
(*                                                                         *)
(* A build is a stack of frames, one per type under construction, each     *)
(* with the instances its constructor has received so far. The cache and   *)
(* the table of factories have a lock each; a miss in the one and the hit  *)
(* in the other that follows are one step here, as no entry of either is   *)
(* ever removed.                                                           *)
(***************************************************************************)
EXTENDS Integers, Sequences, FiniteSets, SequencesExt

CONSTANTS
  Types,        (* The types a program provides or asks for.               *)
  Threads,      (* The tasks that call resolve ...                         *)
  Main,         (* ... and the one that boots the container.               *)
  Absent,       (* No instance in the cache.                               *)
  MaxBoots,     (* boot_di_container runs in Router::new, and in main.     *)
  MaxAsks       (* The resolves of one thread.                             *)

ASSUME ContainerAssumption ==
  /\ Main \notin Threads /\ {MaxBoots, MaxAsks} \subseteq Nat
  /\ IsFiniteSet(Types) /\ Absent \notin Nat

VARIABLES
  program,  (* What the binary links: kind and needs of a type, the order  *)
            (* of the hooks, and the types with a ProvidedComponent.       *)
  made,     (* Every instance ever built: the instances it holds, and, for *)
            (* the history, the task that built it.                        *)
  cache,    (* dependencies                                                *)
  factories,
  boots,    (* The boots begun.                                            *)
  hook,     (* The hook that runs next; 0 outside a boot.                  *)
  frames,   (* frames[t]: the call stack of a task, innermost first.       *)
  fate,     (* fate[t]: "runs", or why it panicked.                        *)
  asks      (* asks[t]: the resolves it has begun.                         *)

container == <<program, made, cache, factories, boots, hook, frames, fate, asks>>

Tasks == Threads \cup {Main}
Frame(type) == [type |-> type, uses |-> << >>, new |-> 0]

ContainerTypeOK ==
  /\ \A i \in DOMAIN made : made[i].type \in Types /\ ToSet(made[i].uses) \subseteq 1..(i - 1)
  /\ \A type \in Types : cache[type] = Absent \/ made[cache[type]].type = type
  /\ factories \subseteq Types

(* What inventory collects of a binary. Only a constructor submits an edge; *)
(* a provided type is a value's, or submits a hook beside.                  *)
Linked(p) ==
  /\ p \in [kind : [Types -> {"value", "lazy", "component"}], needs : [Types -> Seq(Types)],
            order : Seq(Types), provided : SUBSET Types]
  /\ \A type \in Types : p.kind[type] = "value" => p.needs[type] = << >>
  /\ \A type \in p.provided : p.kind[type] = "value" \/ type \in ToSet(p.order)

(* inject! has registered the values before the first boot.                 *)
Values(p) == SetToSeq({type \in Types : p.kind[type] = "value"})

ContainerInit(p) ==
  /\ program = p
  /\ made = [i \in 1..Len(Values(p)) |->
                 [type |-> Values(p)[i], uses |-> << >>, by |-> Main]]
  /\ cache = [type \in Types |-> IF p.kind[type] = "value"
                                 THEN CHOOSE i \in DOMAIN made : made[i].type = type
                                 ELSE Absent]
  /\ factories = {} /\ boots = 0 /\ hook = 0
  /\ frames = [t \in Tasks |-> << >>]
  /\ fate = [t \in Tasks |-> "runs"]
  /\ asks = [t \in Threads |-> 0]

(* Mutation of Verified: the wrong end of an edge is looked up.             *)
VerifiedOwner == \A type \in program.provided : program.needs[type] = << >> \/ type \in program.provided

(* Every edge's target has a provider: kinds and order are not looked at.   *)
Verified == \A type \in program.provided : ToSet(program.needs[type]) \subseteq program.provided

(* boot_di_container                                                        *)
Boot ==
  /\ boots < MaxBoots /\ hook = 0 /\ fate[Main] = "runs"
  /\ boots' = boots + 1
  /\ IF Verified THEN hook' = 1 /\ UNCHANGED fate
                 ELSE fate' = [fate EXCEPT ![Main] = "incomplete"] /\ UNCHANGED hook
  /\ UNCHANGED <<program, made, cache, factories, frames, asks>>

(* A hook: a lazy type's is over at once, a component's begins a build.     *)
RunHook ==
  /\ hook \in 1..Len(program.order) /\ frames[Main] = << >> /\ fate[Main] = "runs"
  /\ LET type == program.order[hook] IN
       IF program.kind[type] = "lazy"
       THEN /\ factories' = factories \cup {type}
            /\ hook' = hook + 1
            /\ UNCHANGED frames
       ELSE /\ frames' = [frames EXCEPT ![Main] = <<Frame(type)>>]
            /\ UNCHANGED <<factories, hook>>
  /\ UNCHANGED <<program, made, cache, boots, fate, asks>>

BootOver ==
  /\ hook = Len(program.order) + 1
  /\ hook' = 0
  /\ UNCHANGED <<program, made, cache, factories, boots, frames, fate, asks>>

(* The caller of a resolve goes on with the instance it got.                *)
Handed(stack, i) == IF stack = << >> THEN << >>
                    ELSE <<[Head(stack) EXCEPT !.uses = Append(@, i)]>> \o Tail(stack)

(* Mutation of Resolve: the factory is preferred to the cache.              *)
ResolveAnew(t, type) ==
  IF type \in factories
  THEN frames' = [frames EXCEPT ![t] = <<Frame(type)>> \o @] /\ UNCHANGED fate
  ELSE IF cache[type] # Absent
       THEN frames' = [frames EXCEPT ![t] = Handed(@, cache[type])] /\ UNCHANGED fate
       ELSE fate' = [fate EXCEPT ![t] = "unresolved"] /\ UNCHANGED frames

(* resolve: the cached instance, else the factory begins, else None, which  *)
(* every generated caller turns into a panic.                               *)
Resolve(t, type) ==
  IF cache[type] # Absent
  THEN frames' = [frames EXCEPT ![t] = Handed(@, cache[type])] /\ UNCHANGED fate
  ELSE IF type \in factories
       THEN frames' = [frames EXCEPT ![t] = <<Frame(type)>> \o @] /\ UNCHANGED fate
       ELSE fate' = [fate EXCEPT ![t] = "unresolved"] /\ UNCHANGED frames

(* A handler's argument, or AutoWire::controller: after the first boot.     *)
Ask(t) ==
  /\ frames[t] = << >> /\ fate[t] = "runs" /\ asks[t] < MaxAsks
  /\ boots > 0 /\ (hook = 0 \/ boots > 1) /\ fate[Main] = "runs"
  /\ \E type \in program.provided : Resolve(t, type)
  /\ asks' = [asks EXCEPT ![t] = @ + 1]
  /\ UNCHANGED <<program, made, cache, factories, boots, hook>>

Building(t) == frames[t] # << >> /\ fate[t] = "runs"
Needs(t) == program.needs[Head(frames[t]).type]
Received(t) == Head(frames[t]).uses

(* A constructor or a factory asks for its next dependency ...              *)
Depend(t) ==
  /\ Building(t) /\ Head(frames[t]).new = 0 /\ Len(Received(t)) < Len(Needs(t))
  /\ Resolve(t, Needs(t)[Len(Received(t)) + 1])
  /\ UNCHANGED <<program, made, cache, factories, boots, hook, asks>>

(* ... has them all and makes the instance ...                              *)
Construct(t) ==
  /\ Building(t) /\ Head(frames[t]).new = 0 /\ Len(Received(t)) = Len(Needs(t))
  /\ made' = Append(made, [type |-> Head(frames[t]).type, uses |-> Received(t), by |-> t])
  /\ frames' = [frames EXCEPT ![t][1].new = Len(made')]
  /\ UNCHANGED <<program, cache, factories, boots, hook, fate, asks>>

(* ... which replaces whatever the cache holds by then. The caller gets its *)
(* own, not the cached one. The bottom frame of Main is a hook's register.  *)
Store(t) ==
  /\ Building(t) /\ Head(frames[t]).new # 0
  /\ LET top == Head(frames[t]) IN
       /\ cache' = [cache EXCEPT ![top.type] = top.new]
       /\ frames' = [frames EXCEPT ![t] = Handed(Tail(@), top.new)]
  /\ hook' = IF t = Main /\ Len(frames[t]) = 1 THEN hook + 1 ELSE hook
  /\ UNCHANGED <<program, made, factories, boots, fate, asks>>

ContainerNext ==
  \/ Boot \/ RunHook \/ BootOver
  \/ \E t \in Threads : Ask(t)
  \/ \E t \in Tasks : Depend(t) \/ Construct(t) \/ Store(t)

ContainerSpec(p) == ContainerInit(p) /\ [][ContainerNext]_container
-----------------------------------------------------------------------------
(* Two first resolves of a lazy type may each hand out an instance of their *)
(* own, as no lock is held between the miss and the insert. But a task that *)
(* has built one finds it, or its successor, in the cache ever after: it    *)
(* never builds the type again, also when two of the dependencies it is     *)
(* resolving share it, and through a second boot.                           *)
OneBuildEach ==
  \A i, j \in DOMAIN made :
    program.kind[made[i].type] = "lazy" /\ made[i].type = made[j].type
      /\ made[i].by = made[j].by => i = j

(* boot_di_container's promise, for whatever order the linker gave the      *)
(* hooks: once a boot is over, a resolve, deep in a chain of factories too, *)
(* always finds an instance or a factory. A missing dependency, or a hook   *)
(* that runs too early for its component, ends the boot instead.            *)
BootedIsWired == \A t \in Threads : fate[t] = "runs"

(* The two promises of the container: one build, and a boot that is wired.  *)
ContainerIsSound == ContainerTypeOK /\ OneBuildEach /\ BootedIsWired
=============================================================================
