------------------------------- MODULE Runtime -------------------------------
(***************************************************************************)
(* The runtime's registry of modules and virtual machines                  *)
(* (src/runtime/runtime.c, module.c) and the life of module instances in a *)
(* virtual machine: creation, linking and initialisation (vm.c).           *)
(*                                                                         *)
(* The host calls one operation after the other.  vm_instantiate_module is *)
(* the long one and is told step by step, since it stops in the middle     *)
(* when a step fails and leaves behind what it did: call says where it is  *)
(* ("link", "global", "elem", "data", "start") or how the last one ended   *)
(* ("ok", "err").  Three more ends are no results of the code: "crash",    *)
(* linking or running followed an address that was never set; "bad_ref",   *)
(* call_indirect followed a reference that is no function's; "no_memory",  *)
(* the size of a memory was asked for that the module does not have.       *)
(*                                                                         *)
(* What a module defines and imports is one sequence of entities in the    *)
(* order in which they are linked: functions, globals, memories, tables.   *)
(* An address is the place of an instance in its machine's list and the    *)
(* place of the entity that it defines; instances are never taken out of   *)
(* the list, which is why addresses stay good.                             *)
(***************************************************************************)
EXTENDS Integers, Sequences, FiniteSetsExt

CONSTANTS
  Mods,    \* The modules that the host loads.
  Desc,    \* Desc[m]: what the parser makes of m.
  Names,   \* The names under which modules are registered.
  Aliases, \* The further names <<m, n>> that the host gives to modules.
  VMs,     \* The virtual machines.
  WASM_MEM_MAX_PAGES  \* The first number of pages whose bytes a u32 does not hold.

Kinds == {"func", "glob", "mem", "tab"}

(***************************************************************************)
(* An entity: from is << >> or the names <<module, field>> of an import;   *)
(* type is the function type, value type or mutability that linking        *)
(* compares; expr is the type of a global's initialiser; room is a         *)
(* function's stack_size_max.                                              *)
(***************************************************************************)
Entities == [kind : Kinds, type : STRING, min : Nat, max : Nat,
             from : {<< >>} \cup (Names \X STRING), expr : STRING, room : Nat]

(***************************************************************************)
(* A segment: at is the entity that it initialises (0 if it names none),   *)
(* offset the value of its offset expression (in pages, for data).  An     *)
(* element's items are functions, 0 for a null reference, -1 for an        *)
(* expression that does not give a reference and -2 for one that reads a   *)
(* global.                                                                 *)
(***************************************************************************)
Elements == [mode : {"active", "passive", "declarative"}, at : Nat,
             offset : Nat, items : Seq(Int)]
Segments == [active : BOOLEAN, at : Nat, offset : Nat, len : Nat]

(***************************************************************************)
(* A module's refs says whether its code holds references that come from   *)
(* elsewhere than ref.null, ref.func and tables: it has a local, a global  *)
(* or a function type with a reference type, or a body that the validator  *)
(* accepts although it is not well typed.                                  *)
(***************************************************************************)
Descriptions ==
  [name : Names, valid : BOOLEAN, ents : Seq(Entities),
   exports : Seq([kind : Kinds, field : STRING, at : Nat]),
   elements : Seq(Elements), data : Seq(Segments), start : Nat, refs : BOOLEAN]

ASSUME PagesAssumption == WASM_MEM_MAX_PAGES \in Nat \ {0}

ASSUME DescAssumption ==
  /\ Aliases \subseteq Mods \X Names
  /\ Desc \in [Mods -> Descriptions]
  /\ \A m \in Mods :
       LET d == Desc[m]
           IsA(i, kind) == i \in DOMAIN d.ents /\ d.ents[i].kind = kind
       IN  /\ \A i \in DOMAIN d.ents :
                /\ d.ents[i].min <= d.ents[i].max
                /\ d.ents[i].kind = "mem" =>
                     d.ents[i].type = "" /\ d.ents[i].max <= WASM_MEM_MAX_PAGES
           /\ \A i \in DOMAIN d.exports : IsA(d.exports[i].at, d.exports[i].kind)
           /\ \A i \in DOMAIN d.elements :
                /\ d.elements[i].at # 0 => IsA(d.elements[i].at, "tab")
                /\ \A j \in DOMAIN d.elements[i].items :
                     \/ d.elements[i].items[j] \in {-1, 0}
                     \/ d.elements[i].items[j] = -2 /\ d.refs
                     \/ IsA(d.elements[i].items[j], "func")
           /\ \A i \in DOMAIN d.data : d.data[i].at # 0 => IsA(d.data[i].at, "mem")
           /\ d.start # 0 => IsA(d.start, "func")

ASSUME VMsAssumption == IsFiniteSet(VMs) /\ VMs \cap {"none", "start"} = {}

VARIABLES
  modules,     \* runtime.modules
  names,       \* names[m]: the names of a loaded module
  ref_count,
  vms,         \* the machines in use
  instances,   \* instances[v]: the machine's instances, in order
  call         \* the last vm_instantiate_module

rtvars == <<modules, names, ref_count, vms, instances, call>>

\* No instance has place 0.  NULL is the address 0 of what is not linked yet; as
\* a reference it is what no function has and nullref is not: the 0 of a local or
\* global that was never assigned, or any value that the host passes.  nullref is
\* uptr_MAX.
NULL    == <<0, 0>>
nullref == <<0, 1>>
Crashes == {"crash", "bad_ref", "no_memory"}
NoCall == [vm |-> "none", mod |-> "none", step |-> "ok", i |-> 0]

Idle == call.step \in {"ok", "err"}

----------------------------------------------------------------------------
(***************************************************************************)
(* Instances.                                                              *)
(***************************************************************************)
Ent(v, a)  == Desc[instances[v][a[1]].mod].ents[a[2]]
Imported(ent) == ent.from # << >>

\* The first export of that kind and name, or 0.
FindExport(m, kind, field) ==
  LET S == {i \in DOMAIN Desc[m].exports :
              Desc[m].exports[i].kind = kind /\ Desc[m].exports[i].field = field}
  IN  IF S = {} THEN 0 ELSE Desc[m].exports[Min(S)].at

\* The last instance of a module with that name, or 0.
vm_find_module_inst(v, name) ==
  LET S == {p \in DOMAIN instances[v] : name \in names[instances[v][p].mod]}
  IN  IF S = {} THEN 0 ELSE Max(S)

\* module_inst_new: own tables hold null references and own memories have
\* their least size, whose bytes are computed as a u32.
module_inst_new(m) ==
  LET es == Desc[m].ents
      own(i, kind) == es[i].kind = kind /\ ~Imported(es[i])
  IN  [mod   |-> m,
       state |-> "uninitialized",
       addrs |-> [i \in DOMAIN es |-> NULL],
       pages |-> [i \in DOMAIN es |->
                    IF own(i, "mem") THEN es[i].min % WASM_MEM_MAX_PAGES ELSE 0],
       tdata |-> [i \in DOMAIN es |->
                    IF own(i, "tab") THEN [j \in 1..es[i].min |-> nullref] ELSE << >>],
       dropped_elements |-> [i \in DOMAIN Desc[m].elements |-> FALSE],
       dropped_data     |-> [i \in DOMAIN Desc[m].data |-> FALSE]]

----------------------------------------------------------------------------
(***************************************************************************)
(* The registry.                                                           *)
(***************************************************************************)
runtime_module_add(m) ==
  /\ Idle
  /\ m \notin modules
  /\ \A k \in modules : Desc[m].name \notin names[k]
  /\ modules' = modules \cup {m}
  /\ names' = [names EXCEPT ![m] = {Desc[m].name}]
  /\ call' = NoCall
  /\ UNCHANGED <<ref_count, vms, instances>>

\* No check that the name is free.
module_register_name(m, n) ==
  /\ Idle
  /\ m \in modules
  /\ names' = [names EXCEPT ![m] = @ \cup {n}]
  /\ call' = NoCall
  /\ UNCHANGED <<modules, ref_count, vms, instances>>

\* Mutant: a module is dropped whether it is in use or not.
module_drop_any(m) == names' = [names EXCEPT ![m] = {}]

\* A module that is in use is not dropped.
module_drop(m) ==
  /\ ref_count[m] = 0
  /\ names' = [names EXCEPT ![m] = {}]

runtime_module_drop(m) ==
  /\ Idle
  /\ m \in modules
  /\ module_drop(m)
  /\ modules' = modules \ {m}
  /\ call' = NoCall
  /\ UNCHANGED <<ref_count, vms, instances>>

runtime_vm_new(v) ==
  /\ Idle
  /\ v \notin vms
  /\ vms' = vms \cup {v}
  /\ call' = NoCall
  /\ UNCHANGED <<modules, names, ref_count, instances>>

\* The instances of m in the machines vs, by their machine and their place.
Users(vs, m) ==
  {x \in UNION {{v} \X DOMAIN instances[v] : v \in vs} : instances[x[1]][x[2]].mod = m}

\* vm_drop drops every instance and counts it off its module.
runtime_vm_drop(v) ==
  /\ Idle
  /\ v \in vms
  /\ vms' = vms \ {v}
  /\ instances' = [instances EXCEPT ![v] = << >>]
  /\ ref_count' = [m \in Mods |-> ref_count[m] - Cardinality(Users({v}, m))]
  /\ call' = NoCall
  /\ UNCHANGED <<modules, names>>

\* runtime_drop: all machines, then all modules; it asserts that none is in use.
runtime_drop ==
  /\ Idle
  /\ vms # {} \/ modules # {}
  /\ vms' = {}
  /\ instances' = [v \in VMs |-> << >>]
  /\ ref_count' = [m \in Mods |-> ref_count[m] - Cardinality(Users(vms, m))]
  /\ modules' = {}
  /\ names' = [m \in Mods |-> {}]
  /\ call' = IF \A m \in modules : ref_count'[m] = 0
               THEN NoCall ELSE [NoCall EXCEPT !.step = "crash"]

----------------------------------------------------------------------------
(***************************************************************************)
(* vm_instantiate_module.  A module that has an instance in the machine is *)
(* taken as it is, whatever became of it.                                  *)
(***************************************************************************)
Has(v, m) == \E p \in DOMAIN instances[v] : instances[v][p].mod = m

Called(v, m, step) == [vm |-> v, mod |-> m, step |-> step, i |-> 1]

Instantiate(v, m) ==
  /\ Idle
  /\ v \in vms /\ m \in modules
  /\ IF Has(v, m) THEN
          /\ call' = Called(v, m, "ok")
          /\ UNCHANGED <<instances, ref_count>>
     ELSE IF ~Desc[m].valid THEN
          /\ call' = Called(v, m, "err")
          /\ UNCHANGED <<instances, ref_count>>
     ELSE /\ instances' = [instances EXCEPT ![v] = Append(@, module_inst_new(m))]
          /\ ref_count' = [ref_count EXCEPT ![m] = @ + 1]
          /\ call' = Called(v, m, "link")
  /\ UNCHANGED <<modules, names, vms>>

\* The instance under construction, the last one of its machine.
New  == Len(instances[call.vm])
Inst == instances[call.vm][New]

At(step) ==
  /\ call.step = step
  /\ UNCHANGED <<modules, names, vms>>

\* Mutant: a failed instance gives its module free although it stays.
FailReleases ==
  /\ instances' = [instances EXCEPT ![call.vm][New].state = "init_failed"]
  /\ ref_count' = [ref_count EXCEPT ![call.mod] = @ - 1]
  /\ call' = [call EXCEPT !.step = "err"]

\* Mutant: a failed instance is taken out of the machine again.
FailPops ==
  /\ instances' = [instances EXCEPT ![call.vm] = SubSeq(@, 1, New - 1)]
  /\ ref_count' = [ref_count EXCEPT ![call.mod] = @ - 1]
  /\ call' = [call EXCEPT !.step = "err"]

\* Mutant: a failed instance is not marked.
FailUnmarked ==
  /\ UNCHANGED <<instances, ref_count>>
  /\ call' = [call EXCEPT !.step = "err"]

\* A failed instance stays in the machine, with everything that was done.
Fail ==
  /\ instances' = [instances EXCEPT ![call.vm][New].state = "init_failed"]
  /\ UNCHANGED ref_count
  /\ call' = [call EXCEPT !.step = "err"]

Crash(how) ==
  /\ call' = [call EXCEPT !.step = how]
  /\ UNCHANGED <<instances, ref_count>>

\* Go on with the next item of this step, or with the next step.
Advance(n, next) ==
  call' = IF call.i < n THEN [call EXCEPT !.i = @ + 1]
                        ELSE [call EXCEPT !.step = next, !.i = 1]

\* Mutant: the size that a memory has is not compared.
FitsAnySize(v, ent, a) ==
  LET def == Ent(v, a)
  IN  ent.type = def.type /\ ent.max >= def.max

\* Whether the definition at address a is what the import ent asks for: a
\* memory by its size now, a table by its declaration.
Fits(v, ent, a) ==
  LET def == Ent(v, a)
  IN  CASE ent.kind \in {"func", "glob"} -> ent.type = def.type
        [] ent.kind = "mem" -> /\ ent.min <= instances[v][a[1]].pages[a[2]]
                               /\ ent.max >= def.max
        [] OTHER            -> /\ ent.type = def.type
                               /\ ent.min <= def.min /\ ent.max >= def.max

\* Mutant: the exporter's own entry is taken, even if it is an import itself.
ExportAddrOwn(v, q, x) == <<q, x>>

\* An import that is exported again leads to the definition.
ExportAddr(v, q, x) == instances[v][q].addrs[x]

(***************************************************************************)
(* vm_link_module_inst, one entity at a time.  The instance is already in  *)
(* the list that imports are looked up in, and the state of the one that   *)
(* is found is not looked at.                                              *)
(***************************************************************************)
vm_link_module_inst ==
  /\ At("link")
  /\ LET v   == call.vm
         i   == call.i
         es  == Desc[call.mod].ents
         q   == vm_find_module_inst(v, es[i].from[1])
         x   == FindExport(instances[v][q].mod, es[i].kind, es[i].from[2])
         Set(a) == /\ instances' = [instances EXCEPT ![v][New].addrs[i] = a]
                   /\ UNCHANGED ref_count
                   /\ Advance(Len(es), "global")
     IN  IF es = << >> THEN /\ Advance(0, "global")
                            /\ UNCHANGED <<instances, ref_count>>
         ELSE IF ~Imported(es[i]) THEN Set(<<New, i>>)
         ELSE IF q = 0 THEN Fail
         ELSE IF x = 0 THEN Fail
         ELSE IF ExportAddr(v, q, x) = NULL THEN Crash("crash")
         ELSE IF Fits(v, es[i], ExportAddr(v, q, x)) THEN Set(ExportAddr(v, q, x))
         ELSE Fail

(***************************************************************************)
(* module_inst_init.  The segments are copied in order; each one is left   *)
(* behind as dropped.                                                      *)
(***************************************************************************)
module_inst_init_global ==
  /\ At("global")
  /\ LET es == Desc[call.mod].ents
     IN  IF \A i \in DOMAIN es : es[i].kind = "glob" /\ ~Imported(es[i]) =>
                                   es[i].expr = es[i].type
           THEN /\ Advance(0, "elem")
                /\ UNCHANGED <<instances, ref_count>>
           ELSE Fail

\* a is the address of a definition of that kind in a living instance.
Defines(v, a, kind) ==
  /\ a[1] \in DOMAIN instances[v]
  /\ Ent(v, a).kind = kind
  /\ ~Imported(Ent(v, a))

\* What a local, a global or a result of a reference type may hold.
AnyRefs(v) ==
  {NULL, nullref} \cup
  {a \in UNION {{p} \X DOMAIN instances[v][p].addrs : p \in DOMAIN instances[v]} :
     Defines(v, a, "func")}

\* A null reference, or the address that the function index is linked to.
Ref(item) == IF item = 0 THEN nullref ELSE Inst.addrs[item]

\* The items that read a global.
GlobalItems(el) == {j \in DOMAIN el.items : el.items[j] = -2}

\* The table contents td after the first n items of an element are copied; got
\* are the values of the globals.
Copied(td, el, n, got) ==
  [j \in DOMAIN td |->
     LET k == j - el.offset
     IN  IF k \notin 1..n THEN td[j]
         ELSE IF k \in GlobalItems(el) THEN got[k] ELSE Ref(el.items[k])]

\* The instances after the first n items of el are copied to the table at a.
AfterCopy(v, a, el, n) ==
  {[instances EXCEPT ![v][a[1]].tdata[a[2]] = Copied(@, el, n, got)] :
     got \in [GlobalItems(el) -> AnyRefs(v)]}

\* The items whose expression does not give a reference.
BadItems(el) == {j \in DOMAIN el.items : el.items[j] = -1}

module_inst_init_elem ==
  /\ At("elem")
  /\ LET v   == call.vm
         els == Desc[call.mod].elements
         el  == els[call.i]
         a   == Inst.addrs[el.at]
         td  == instances[v][a[1]].tdata[a[2]]
         bad == BadItems(el)
         n   == IF bad = {} THEN Len(el.items) ELSE Min(bad) - 1
     IN  IF els = << >> THEN /\ Advance(0, "data")
                             /\ UNCHANGED <<instances, ref_count>>
         ELSE IF el.mode # "active" THEN
              /\ instances' = [instances EXCEPT
                   ![v][New].dropped_elements[call.i] = el.mode = "declarative"]
              /\ UNCHANGED ref_count
              /\ Advance(Len(els), "data")
         ELSE IF el.at = 0 THEN Fail
         ELSE IF el.offset + Len(el.items) > Len(td) THEN Fail
         ELSE IF bad # {} THEN
              /\ \E copied \in AfterCopy(v, a, el, n) :
                   instances' = [copied EXCEPT ![v][New].state = "init_failed"]
              /\ UNCHANGED ref_count
              /\ call' = [call EXCEPT !.step = "err"]
         ELSE /\ \E copied \in AfterCopy(v, a, el, n) :
                   instances' = [copied EXCEPT ![v][New].dropped_elements[call.i] = TRUE]
              /\ UNCHANGED ref_count
              /\ Advance(Len(els), "data")

\* Mutant: a data segment that does not fit is left out.
InitDataSkips ==
  /\ At("data")
  /\ Advance(Len(Desc[call.mod].data), "start")
  /\ UNCHANGED <<instances, ref_count>>

module_inst_init_data ==
  /\ At("data")
  /\ LET v  == call.vm
         ds == Desc[call.mod].data
         d  == ds[call.i]
         a  == Inst.addrs[d.at]
     IN  IF ds = << >> THEN /\ Advance(0, "start")
                            /\ UNCHANGED <<instances, ref_count>>
         ELSE IF ~d.active THEN /\ Advance(Len(ds), "start")
                                /\ UNCHANGED <<instances, ref_count>>
         ELSE IF d.at = 0 THEN Fail
         ELSE IF d.offset + d.len > instances[v][a[1]].pages[a[2]] THEN Fail
         ELSE /\ instances' = [instances EXCEPT ![v][New].dropped_data[call.i] = TRUE]
              /\ UNCHANGED ref_count
              /\ Advance(Len(ds), "start")

\* There is no start function, or it has returned.
Ready ==
  /\ instances' = [instances EXCEPT ![call.vm][New].state = "ready"]
  /\ UNCHANGED ref_count
  /\ call' = [call EXCEPT !.step = "ok"]

NoStart ==
  /\ At("start")
  /\ Desc[call.mod].start = 0
  /\ Ready

----------------------------------------------------------------------------
RtInit ==
  /\ modules = {}
  /\ names = [m \in Mods |-> {}]
  /\ ref_count = [m \in Mods |-> 0]
  /\ vms = {}
  /\ instances = [v \in VMs |-> << >>]
  /\ call = NoCall

\* What the host may ask for, apart from dropping machines.
Register ==
  \/ \E m \in Mods : runtime_module_add(m) \/ runtime_module_drop(m)
  \/ \E alias \in Aliases : module_register_name(alias[1], alias[2])
  \/ \E v \in VMs, m \in Mods : Instantiate(v, m)

Construct ==
  \/ vm_link_module_inst \/ module_inst_init_global \/ module_inst_init_elem
  \/ module_inst_init_data \/ NoStart

----------------------------------------------------------------------------
Addresses == Nat \X Nat
Instances ==
  [mod : Mods, state : {"uninitialized", "init_failed", "ready"},
   addrs : Seq(Addresses), pages : Seq(Nat), tdata : Seq(Seq(Addresses)),
   dropped_elements : Seq(BOOLEAN), dropped_data : Seq(BOOLEAN)]

\* The registry and the machines have the types that module.h, vm.h and
\* runtime.h declare; in particular no reference count falls below 0.
RtTypeOK ==
  /\ modules \subseteq Mods
  /\ names \in [Mods -> SUBSET Names]
  /\ ref_count \in [Mods -> Nat]
  /\ vms \subseteq VMs
  /\ instances \in [VMs -> Seq(Instances)]
  /\ call.step \in {"link", "global", "elem", "data", "start", "ok", "err"} \cup Crashes

\* A module's reference count is the number of its instances in all machines,
\* failed ones included, and a module with instances is in the registry: what
\* keeps module_drop from freeing code that an instance points into.
RefCounts ==
  /\ \A m \in Mods : ref_count[m] = Cardinality(Users(VMs, m))
  /\ \A v \in VMs : \A p \in DOMAIN instances[v] :
       instances[v][p].mod \in modules /\ v \in vms

\* The instance at p is past its linking.
Building(v, p) == ~Idle /\ call.vm = v /\ p = Len(instances[v])
PastLinking(v, p) ==
  \/ instances[v][p].state = "ready"
  \/ Building(v, p) /\ call.step \in {"global", "elem", "data", "start"}

\* Every entity of an instance that was linked has the address of a definition
\* of its kind and type: through however many modules an import is exported
\* again, the address is that of the instance which owns it.
Linked ==
  \A v \in VMs : \A p \in DOMAIN instances[v] : PastLinking(v, p) =>
    \A i \in DOMAIN instances[v][p].addrs :
      LET a   == instances[v][p].addrs[i]
          ent == Ent(v, <<p, i>>)
      IN  Defines(v, a, ent.kind) /\ Ent(v, a).type = ent.type

\* What an import asked for stays true while its machine lives: however the
\* owner grows its memory or table, the size is within the importer's limits, and
\* within the owner's.  Only a memory that is declared with WASM_MEM_MAX_PAGES at
\* least may have fewer in the owner's eyes: its bytes, as a u32, are 0 at first.
SizeOf(v, a) == IF Ent(v, a).kind = "mem" THEN instances[v][a[1]].pages[a[2]]
                                          ELSE Len(instances[v][a[1]].tdata[a[2]])
WrapsAround(ent) ==
  ent.kind = "mem" /\ ~Imported(ent) /\ ent.min = WASM_MEM_MAX_PAGES
ImportsFit ==
  \A v \in VMs : \A p \in DOMAIN instances[v] :
    \A i \in DOMAIN instances[v][p].addrs :
      LET a   == instances[v][p].addrs[i]
          ent == Ent(v, <<p, i>>)
      IN  ent.kind \in {"mem", "tab"} /\ a # NULL =>
            /\ ent.min <= SizeOf(v, a) \/ WrapsAround(ent)
            /\ SizeOf(v, a) <= ent.max

\* An instance is ready only when all its active segments were copied and can
\* be copied no more, and data is copied only after all elements: what fails
\* with a data segment has written all its references.
InitComplete ==
  \A v \in VMs : \A p \in DOMAIN instances[v] :
    LET inst == instances[v][p]
        d    == Desc[inst.mod]
        elements == \A i \in DOMAIN d.elements :
                      d.elements[i].mode = "active" => inst.dropped_elements[i]
        data == \A i \in DOMAIN d.data : d.data[i].active => inst.dropped_data[i]
    IN  /\ inst.state = "ready" => elements /\ data
        /\ Building(v, p) /\ (\E i \in DOMAIN d.data : inst.dropped_data[i]) => elements

\* An instance of the machine has failed, or its code holds references from
\* elsewhere.
Loose(v) ==
  \E p \in DOMAIN instances[v] :
    instances[v][p].state = "init_failed" \/ Desc[instances[v][p].mod].refs

\* Every reference in a table is nullref or the address of a function's definition
\* in an instance that is still there: also the ones that an instance left in
\* others' tables before its initialisation failed.  Another one, which is no
\* function's, takes a function that was not linked in a failed instance, or a
\* module with locals, globals or types of references.
References ==
  \A v \in VMs : \A p \in DOMAIN instances[v] :
    \A i \in DOMAIN instances[v][p].tdata :
      \A j \in DOMAIN instances[v][p].tdata[i] :
        LET a == instances[v][p].tdata[i][j]
        IN  \/ a = nullref
            \/ Defines(v, a, "func")
            \/ a = NULL /\ Loose(v)

\* A step leaves ready and failed instances as they are and where they are, if
\* their machine is still in use after it.
Final ==
  \A v \in VMs : \A p \in DOMAIN instances[v] : v \in vms' =>
    /\ p \in DOMAIN instances'[v]
    /\ instances'[v][p].mod = instances[v][p].mod
    /\ instances[v][p].state \in {"ready", "init_failed"} =>
         instances'[v][p].state = instances[v][p].state

\* What is said of an instance once is final: whatever the host and the code in
\* instances do, ready and failed instances stay so, at the place in the list
\* that addresses name, until vm_drop.
StatesFinal == [][Final]_rtvars
=============================================================================
