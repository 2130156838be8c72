------------------------------- MODULE Threads -------------------------------
(***************************************************************************)
(* Calls into the instances of a virtual machine: a thread's activations,  *)
(* its limits, its results and its trapped state                           *)
(* (src/interpreter/interpreter.c, the entry and exit of                   *)
(* src/interpreter/in_place_dt.c, thread_reset in src/runtime/vm.c),       *)
(* composed with the life of the instances in Runtime.                     *)
(*                                                                         *)
(* What a function does is left open: code that runs in an instance may    *)
(* call any function that it can name or finds in a table, write           *)
(* references to its tables, grow its memories and tables, return or trap. *)
(* References that the host carries from one machine to another are left   *)
(* out.  A module's start function runs in a thread of its own, "start",   *)
(* in the middle of vm_instantiate_module.                                 *)
(***************************************************************************)
EXTENDS Runtime

CONSTANTS
  FRAME_LIMIT,   \* SILVERFIR_STACK_FRAME_LIMIT
  STACK_LIMIT    \* SILVERFIR_STACK_SIZE_LIMIT

ASSUME LimitAssumption == FRAME_LIMIT \in Nat /\ STACK_LIMIT \in Nat

VARIABLES
  threads,   \* threads[v]: the machine's thread; threads["start"]
  frames,    \* addresses of the functions that are active, innermost last
  on         \* the machine that they run in

thvars  == <<threads, frames, on>>
allvars == <<rtvars, thvars>>

\* results is the address of the function whose results are kept, or NULL.
NewThread == [trapped |-> FALSE, frame_depth |-> 0, stack_size |-> 0,
              results |-> NULL]

Tid == IF call.step = "start" THEN "start" ELSE on

----------------------------------------------------------------------------
(***************************************************************************)
(* An error goes up through all activations.  None of them counts itself   *)
(* off; the thread is marked as trapped, a start function's thread is      *)
(* reset and its instance has failed.                                      *)
(***************************************************************************)
\* Mutant: the thread is not marked.
UnwindUnmarked ==
  /\ frames' = << >>
  /\ on' = "none"
  /\ IF call.step = "start"
       THEN Fail /\ threads' = [threads EXCEPT !["start"] = NewThread]
       ELSE UNCHANGED <<threads, instances, ref_count, call>>

Unwind ==
  /\ frames' = << >>
  /\ on' = "none"
  /\ IF call.step = "start"
       THEN Fail /\ threads' = [threads EXCEPT !["start"] = NewThread]
       ELSE /\ threads' = [threads EXCEPT ![on].trapped = TRUE]
            /\ UNCHANGED <<instances, ref_count, call>>

Room(v, a) == Ent(v, a).room

Exhausted(t) == \/ threads[t].frame_depth > FRAME_LIMIT
                \/ threads[t].stack_size > STACK_LIMIT

\* The entry of in_place_dt_call in thread t of machine v.
Push(t, v, a) ==
  /\ threads' = [threads EXCEPT ![t].frame_depth = @ + 1,
                                ![t].stack_size = @ + Room(v, a)]
  /\ frames' = Append(frames, a)

\* vm_find_func and interp_call_in_thread.  A call that is refused changes
\* nothing; one that the limits stop leaves the thread trapped.
HostCall(v, name, field) ==
  LET p == vm_find_module_inst(v, name)
      x == FindExport(instances[v][p].mod, "func", field)
  IN  /\ Idle /\ frames = << >>
      /\ v \in vms
      /\ p # 0
      /\ instances[v][p].state = "ready"
      /\ x # 0
      /\ ~threads[v].trapped
      /\ IF Exhausted(v)
           THEN /\ threads' = [threads EXCEPT ![v].trapped = TRUE]
                /\ UNCHANGED <<frames, on>>
           ELSE /\ Push(v, v, instances[v][p].addrs[x])
                /\ on' = v
      /\ call' = NoCall
      /\ UNCHANGED <<modules, names, ref_count, vms, instances>>

CallStart ==
  /\ At("start")
  /\ frames = << >>
  /\ Desc[call.mod].start # 0
  /\ Push("start", call.vm, Inst.addrs[Desc[call.mod].start])
  /\ on' = call.vm
  /\ UNCHANGED <<instances, ref_count, call>>

----------------------------------------------------------------------------
(***************************************************************************)
(* Running code.                                                           *)
(***************************************************************************)
Here  == instances[on][frames[Len(frames)][1]]
Named(kind) ==
  {i \in DOMAIN Here.addrs : Desc[Here.mod].ents[i].kind = kind /\ Here.addrs[i] # NULL}

Running ==
  /\ frames # << >> /\ call.step \notin Crashes
  /\ UNCHANGED <<modules, names, vms>>

Stay == UNCHANGED <<threads, frames, on, ref_count, call>>

Enter(a) ==
  IF Exhausted(Tid) THEN Unwind
  ELSE /\ Push(Tid, on, a)
       /\ UNCHANGED <<on, instances, ref_count, call>>

\* call, and call_indirect through any element of a table: only nullref is
\* refused, and what is no function is followed all the same.
CallDirect ==
  /\ Running
  /\ \E i \in Named("func") : Enter(Here.addrs[i])

Table(i)   == instances[on][Here.addrs[i][1]].tdata[Here.addrs[i][2]]
Contents(i) == {Table(i)[j] : j \in DOMAIN Table(i)}

CallIndirect ==
  /\ Running
  /\ \E i \in Named("tab") : \E a \in Contents(i) \ {NULL, nullref} : Enter(a)

CallBadRef ==
  /\ Running
  /\ \E i \in Named("tab") : NULL \in Contents(i)
  /\ Crash("bad_ref")
  /\ UNCHANGED thvars

\* The references that the code can get hold of: ref.null, ref.func, which gives 0
\* for a function that was not linked, and table.get; and what a local that was
\* never assigned, a parameter, a result or a global holds.
Refs ==
  {nullref}
  \cup {Here.addrs[i] : i \in {j \in DOMAIN Here.addrs :
                                 Desc[Here.mod].ents[j].kind = "func"}}
  \cup (UNION {Contents(i) : i \in Named("tab")})
  \cup (IF Desc[Here.mod].refs THEN AnyRefs(on) ELSE {})

\* table.set, and each store of table.fill, table.copy and table.init.
TableSet ==
  /\ Running
  /\ \E i \in Named("tab"), a \in Refs : \E j \in DOMAIN Table(i) :
       LET t == Here.addrs[i]
       IN  instances' = [instances EXCEPT ![on][t[1]].tdata[t[2]][j] = a]
  /\ Stay

TableGrow ==
  /\ Running
  /\ \E i \in Named("tab"), a \in Refs :
       LET t == Here.addrs[i]
       IN  /\ Len(Table(i)) + 1 <= Ent(on, t).max
           /\ instances' = [instances EXCEPT ![on][t[1]].tdata[t[2]] = Append(@, a)]
  /\ Stay

MemoryGrow ==
  /\ Running
  /\ \E i \in Named("mem") :
       LET m == Here.addrs[i]
       IN  /\ instances[on][m[1]].pages[m[2]] + 1 <= Ent(on, m).max
           /\ instances' = [instances EXCEPT ![on][m[1]].pages[m[2]] = @ + 1]
  /\ Stay

\* elem.drop and data.drop, of the instance that runs.
SegmentDrop ==
  /\ Running
  /\ LET p == frames[Len(frames)][1]
     IN  \/ \E i \in DOMAIN Here.dropped_elements :
              instances' = [instances EXCEPT ![on][p].dropped_elements[i] = TRUE]
         \/ \E i \in DOMAIN Here.dropped_data :
              instances' = [instances EXCEPT ![on][p].dropped_data[i] = TRUE]
  /\ Stay

\* An entity of an instance whose linking failed may have no address.
UseNull ==
  /\ Running
  /\ \E i \in DOMAIN Here.addrs : Here.addrs[i] = NULL
  /\ Crash("crash")
  /\ UNCHANGED thvars

\* memory.size and memory.grow are validated without a look for the memory.
UseNoMemory ==
  /\ Running
  /\ \A i \in DOMAIN Here.addrs : Desc[Here.mod].ents[i].kind # "mem"
  /\ Crash("no_memory")
  /\ UNCHANGED thvars

Trap ==
  /\ Running
  /\ Unwind

\* The exit of in_place_dt_call.
Popped(t, a) ==
  [threads EXCEPT ![t].frame_depth = @ - 1,
                  ![t].stack_size = @ - Room(on, a)]

\* The end of an activation; the last one hands over its results, or is the
\* start function's, whose thread is reset.
Return ==
  /\ Running
  /\ LET a == frames[Len(frames)]
     IN  IF Len(frames) > 1
           THEN /\ threads' = Popped(Tid, a)
                /\ UNCHANGED <<on, instances, ref_count, call>>
         ELSE /\ on' = "none"
              /\ IF call.step = "start"
                   THEN Ready /\ threads' = [threads EXCEPT !["start"] = NewThread]
                   ELSE /\ threads' = [Popped(on, a) EXCEPT ![on].results = a]
                        /\ UNCHANGED <<instances, ref_count, call>>
  /\ frames' = SubSeq(frames, 1, Len(frames) - 1)

----------------------------------------------------------------------------
\* The registry's operations come while nothing runs.
HostRegister ==
  /\ frames = << >>
  /\ Register
  /\ UNCHANGED thvars

HostVm ==
  /\ frames = << >>
  /\ \/ \E v \in VMs :
          /\ runtime_vm_new(v) \/ runtime_vm_drop(v)
          /\ threads' = [threads EXCEPT ![v] = NewThread]
     \/ runtime_drop /\ threads' = [t \in DOMAIN threads |-> NewThread]
  /\ UNCHANGED <<frames, on>>

thread_reset(v) ==
  /\ Idle /\ frames = << >> /\ v \in vms
  /\ threads' = [threads EXCEPT ![v] = NewThread]
  /\ call' = NoCall
  /\ UNCHANGED <<modules, names, ref_count, vms, instances, frames, on>>

HostConstruct == Construct /\ UNCHANGED thvars

Crashed == call.step \in Crashes /\ UNCHANGED allvars

Init ==
  /\ RtInit
  /\ threads = [t \in VMs \cup {"start"} |-> NewThread]
  /\ frames = << >>
  /\ on = "none"

Fields == {"f", "g", "m", "t"}

Next ==
  \/ HostRegister \/ HostVm \/ HostConstruct
  \/ \E v \in VMs : thread_reset(v)
  \/ \E v \in VMs, n \in Names, field \in Fields : HostCall(v, n, field)
  \/ CallStart \/ CallDirect \/ CallIndirect \/ CallBadRef \/ TableSet \/ TableGrow
  \/ MemoryGrow \/ SegmentDrop \/ UseNull \/ UseNoMemory \/ Trap \/ Return \/ Crashed

Spec == Init /\ [][Next]_allvars

----------------------------------------------------------------------------
\* The sum of a sequence of numbers.
Total(s) ==
  LET sum[n \in 0..Len(s)] == IF n = 0 THEN 0 ELSE sum[n - 1] + s[n]
  IN  sum[Len(s)]

\* A thread that has not trapped counts exactly the activations on it and their
\* stack room, so that after any number of calls it has its whole limit again;
\* one that has trapped keeps what it counted and runs nothing until it is reset.
OnThread(t) == frames # << >> /\ t = Tid

CountsExact ==
  call.step \notin Crashes =>
  \A t \in DOMAIN threads :
    /\ ~threads[t].trapped =>
         LET fs == IF OnThread(t) THEN frames ELSE << >>
         IN  /\ threads[t].frame_depth = Len(fs)
             /\ threads[t].stack_size =
                  Total([i \in DOMAIN fs |-> Room(on, fs[i])])
    /\ OnThread(t) => ~threads[t].trapped
    /\ threads[t].frame_depth <= FRAME_LIMIT + 1

\* Linking and running follow an address that was never set only if an instance
\* of the machine failed before and was linked to, or if a module's import finds
\* the module itself under the name, and call_indirect follows what is no function
\* only if an instance failed or a module has locals, globals or types of
\* references; runtime_drop never finds a module in use.
CrashNeedsFailure ==
  LET v == IF frames # << >> THEN on ELSE call.vm
  IN  /\ call.step = "crash" =>
           /\ v \in VMs
           /\ \/ \E p \in DOMAIN instances[v] : instances[v][p].state = "init_failed"
              \/ /\ frames = << >>
                 /\ vm_find_module_inst(v, Desc[call.mod].ents[call.i].from[1]) = New
      /\ call.step = "bad_ref" => v \in VMs /\ Loose(v)

----------------------------------------------------------------------------
(***************************************************************************)
(* What a comment says and the code does not keep.                         *)
(***************************************************************************)

\* vm.h, of vm_find_module_func: "We disallow running anything inside a
\* half-instantiated module by applying the restriction here."
RunsInReady ==
  frames # << >> /\ call.step # "start" =>
    instances[on][frames[1][1]].state = "ready"
=============================================================================
