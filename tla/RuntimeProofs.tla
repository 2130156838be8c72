---------------------------- MODULE RuntimeProofs ----------------------------
(***************************************************************************)
(* Proofs about the registry, the life of instances and the calls into     *)
(* them, for the composed specification of Threads.                        *)
(***************************************************************************)
EXTENDS Threads, FiniteSetTheorems, WellFoundedInduction, TLAPS

----------------------------------------------------------------------------
(***************************************************************************)
(* The inductive invariant.  Its parts are operators of the instances I of *)
(* all machines, or s of one of them, and of the call c, so that the       *)
(* lemmas about updates need to prime nothing.                             *)
(***************************************************************************)
Steps == {"link", "global", "elem", "data", "start"}

Calls == [vm : VMs \cup {"none"}, mod : Mods \cup {"none"},
          step : Steps \cup {"ok", "err"} \cup Crashes, i : Nat]

\* An instance has room for what its module describes.
Shaped(x) ==
  LET d == Desc[x.mod]
  IN  /\ Len(x.addrs) = Len(d.ents) /\ Len(x.pages) = Len(d.ents)
      /\ Len(x.tdata) = Len(d.ents)
      /\ Len(x.dropped_elements) = Len(d.elements)
      /\ Len(x.dropped_data) = Len(d.data)

\* The instances of one machine, and of all.
Machine(s) == s \in Seq(Instances) /\ \A p \in 1..Len(s) : Shaped(s[p])
Machines(I) == I \in [VMs -> Seq(Instances)] /\ \A v \in VMs : Machine(I[v])

Types == RtTypeOK /\ call \in Calls /\ Machines(instances)

\* Entity i of instance x and the size of its memory or table; what is at a.
EntOf(x, i) == Desc[x.mod].ents[i]
Size(x, i)  == IF EntOf(x, i).kind = "mem" THEN x.pages[i] ELSE Len(x.tdata[i])
EntAt(s, a) == EntOf(s[a[1]], a[2])
SizeAt(s, a) == Size(s[a[1]], a[2])

\* a is the address of a definition of that kind, and of what ent asks for.
Owned(s, a, kind) ==
  /\ a[1] \in 1..Len(s) /\ a[2] \in 1..Len(s[a[1]].addrs)
  /\ EntAt(s, a).kind = kind /\ EntAt(s, a).from = << >>
Meets(s, a, ent) ==
  /\ Owned(s, a, ent.kind)
  /\ EntAt(s, a).type = ent.type
  /\ ent.kind \in {"mem", "tab"} =>
       (ent.min <= SizeAt(s, a) \/ WrapsAround(ent)) /\ EntAt(s, a).max <= ent.max

\* Every address that is set is that of what the entity asks for.
Addressed(s) ==
  \A p \in 1..Len(s) : \A i \in 1..Len(s[p].addrs) :
    s[p].addrs[i] # NULL => Meets(s, s[p].addrs[i], EntOf(s[p], i))

\* Memories and tables are within the limits that they are declared with.
InLimits(x, i) ==
  EntOf(x, i).kind \in {"mem", "tab"} /\ EntOf(x, i).from = << >> =>
    /\ EntOf(x, i).min <= Size(x, i) \/ WrapsAround(EntOf(x, i))
    /\ Size(x, i) <= EntOf(x, i).max
Within(s) == \A p \in 1..Len(s) : \A i \in 1..Len(s[p].addrs) : InLimits(s[p], i)

\* Every reference in a table is that of a function, or of nothing.
Nothing == {NULL, nullref}
TableRefs(s) ==
  \A p \in 1..Len(s) : \A i \in 1..Len(s[p].addrs) : \A j \in 1..Len(s[p].tdata[i]) :
    s[p].tdata[i][j] \notin Nothing => Owned(s, s[p].tdata[i][j], "func")

\* No table holds a 0.
ZeroFree(s) ==
  \A p \in DOMAIN s : \A i \in DOMAIN s[p].tdata : \A j \in DOMAIN s[p].tdata[i] :
    s[p].tdata[i][j] # NULL

Sane(s) == Addressed(s) /\ Within(s) /\ TableRefs(s)
World(I) == \A v \in VMs : Sane(I[v])

\* No address is missing; the first n segments are done; no data is.
Whole(x) == \A i \in 1..Len(x.addrs) : x.addrs[i] # NULL
ElementsDone(x, n) ==
  \A i \in 1..n : Desc[x.mod].elements[i].mode = "active" => x.dropped_elements[i]
DataDone(x, n) ==
  \A i \in 1..n : Desc[x.mod].data[i].active => x.dropped_data[i]
NoData(x) == \A i \in 1..Len(x.dropped_data) : ~x.dropped_data[i]
AllElements(x) == ElementsDone(x, Len(x.dropped_elements))
AllData(x)     == DataDone(x, Len(x.dropped_data))

\* How many items the step works through.
Items(c) ==
  CASE c.step = "link" -> Len(Desc[c.mod].ents)
    [] c.step = "elem" -> Len(Desc[c.mod].elements)
    [] c.step = "data" -> Len(Desc[c.mod].data)
    [] OTHER -> 0

\* How far the instance x under construction is.
Progress(x, c) ==
  /\ x.mod = c.mod /\ x.state = "uninitialized"
  /\ c.i >= 1 /\ (c.i <= Items(c) \/ Items(c) = 0)
  /\ c.step = "link" => \A i \in 1..(c.i - 1) : x.addrs[i] # NULL
  /\ c.step # "link" => Whole(x)
  /\ c.step \in {"link", "global", "elem"} => NoData(x)
  /\ c.step = "elem" => ElementsDone(x, c.i - 1)
  /\ c.step \in {"data", "start"} => AllElements(x)
  /\ c.step = "data" => DataDone(x, c.i - 1)
  /\ c.step = "start" => AllData(x)

Newest(I, c) == I[c.vm][Len(I[c.vm])]

\* The instance under construction is the last of its machine, and the only one
\* that is neither ready nor failed.
Constructing(I, c, V) ==
  c.step \in Steps =>
    c.vm \in V /\ c.mod \in Mods /\ I[c.vm] # << >> /\ Progress(Newest(I, c), c)
Settled(I, c) ==
  c.step \notin Crashes =>
    \A v \in VMs : \A p \in 1..Len(I[v]) :
      I[v][p].state = "uninitialized" => c.step \in Steps /\ c.vm = v /\ p = Len(I[v])

\* A ready instance was linked and initialised.
Finished(x) == x.state = "ready" => Whole(x) /\ AllElements(x) /\ AllData(x)
Readies(I) == \A v \in VMs : \A p \in 1..Len(I[v]) : Finished(I[v][p])

\* A crash in the middle leaves the order of initialisation.
Ordered(x) == NoData(x) \/ AllElements(x)
Stopped(I, c) ==
  c.step \in Crashes /\ c.vm \in VMs /\ I[c.vm] # << >> => Ordered(Newest(I, c))

Lives(I, c, V) == Constructing(I, c, V) /\ Settled(I, c) /\ Readies(I) /\ Stopped(I, c)

\* The instances of m in the machines vs.
UsersOf(I, vs, m) ==
  {x \in UNION {{v} \X DOMAIN I[v] : v \in vs} : I[x[1]][x[2]].mod = m}
Counted(I, R, M, V) ==
  /\ \A m \in Mods : R[m] = Cardinality(UsersOf(I, VMs, m))
  /\ \A v \in VMs : \A p \in 1..Len(I[v]) : I[v][p].mod \in M /\ v \in V

\* What runs are functions of living instances, and only a start function runs
\* in the middle of an instantiation.
Activations(I, c, V, fs, o) ==
  /\ fs \in Seq(Addresses)
  /\ fs # << >> =>
       /\ o \in V
       /\ \A n \in 1..Len(fs) : Owned(I[o], fs[n], "func")
       /\ \/ c = NoCall
          \/ c.step = "start" /\ o = c.vm /\ Desc[c.mod].start # 0
          \/ c.step \in Crashes

\* A missing address is followed only where an instance failed, or by an import
\* that finds its own module: the first part of CrashNeedsFailure.
NullCrash ==
  LET v == IF frames # << >> THEN on ELSE call.vm
  IN  call.step = "crash" =>
        /\ v \in VMs
        /\ \/ \E p \in DOMAIN instances[v] : instances[v][p].state = "init_failed"
           \/ /\ frames = << >>
              /\ vm_find_module_inst(v, Desc[call.mod].ents[call.i].from[1]) = New

Inv ==
  /\ Types /\ World(instances) /\ Lives(instances, call, vms)
  /\ Counted(instances, ref_count, modules, vms)
  /\ Activations(instances, call, vms, frames, on) /\ NullCrash

----------------------------------------------------------------------------
(***************************************************************************)
(* Updates of one instance.                                                *)
(***************************************************************************)
\* The relations between the instances I before and J after an update that is
\* confined to machine v: the rest of the world, and the fields one by one.
Only(I, J, v) ==
  /\ J \in [VMs -> Seq(Instances)]
  /\ \A w \in VMs \ {v} : J[w] = I[w]
  /\ Len(J[v]) = Len(I[v])
  /\ \A p \in 1..Len(I[v]) : J[v][p].mod = I[v][p].mod

SameStates(I, J, v) == \A p \in 1..Len(I[v]) : J[v][p].state = I[v][p].state
SameAddrs(I, J, v)  == \A p \in 1..Len(I[v]) : J[v][p].addrs = I[v][p].addrs
SamePages(I, J, v)  == \A p \in 1..Len(I[v]) : J[v][p].pages = I[v][p].pages
SameTables(I, J, v) == \A p \in 1..Len(I[v]) : J[v][p].tdata = I[v][p].tdata
SameElements(I, J, v) ==
  \A p \in 1..Len(I[v]) : J[v][p].dropped_elements = I[v][p].dropped_elements
SameData(I, J, v) ==
  \A p \in 1..Len(I[v]) : J[v][p].dropped_data = I[v][p].dropped_data

\* J is I with the instance n at p of machine v.
Replaced(I, J, v, p, n) ==
  /\ J \in [VMs -> Seq(Instances)]
  /\ \A w \in VMs \ {v} : J[w] = I[w]
  /\ Len(J[v]) = Len(I[v])
  /\ \A q \in 1..Len(I[v]) : J[v][q] = IF q = p THEN n ELSE I[v][q]

\* I with one field of the instance at p of machine v changed.
WithState(I, v, p, a)      == [I EXCEPT ![v][p].state = a]
WithAddr(I, v, p, i, a)    == [I EXCEPT ![v][p].addrs[i] = a]
WithPages(I, v, p, i, a)   == [I EXCEPT ![v][p].pages[i] = a]
WithTable(I, v, p, i, a)   == [I EXCEPT ![v][p].tdata[i] = a]
WithElement(I, v, p, i, a) == [I EXCEPT ![v][p].dropped_elements[i] = a]
WithData(I, v, p, i, a)    == [I EXCEPT ![v][p].dropped_data[i] = a]

\* And what that says of the field, instance by instance.
StatePut(I, J, v, p, a) ==
  \A q \in 1..Len(I[v]) : J[v][q].state = IF q = p THEN a ELSE I[v][q].state
AddrPut(I, J, v, p, i, a) ==
  \A q \in 1..Len(I[v]) :
    /\ Len(J[v][q].addrs) = Len(I[v][q].addrs)
    /\ \A j \in 1..Len(I[v][q].addrs) :
         J[v][q].addrs[j] = IF q = p /\ j = i THEN a ELSE I[v][q].addrs[j]
PagesPut(I, J, v, p, i, a) ==
  \A q \in 1..Len(I[v]) :
    /\ Len(J[v][q].pages) = Len(I[v][q].pages)
    /\ \A j \in 1..Len(I[v][q].pages) :
         J[v][q].pages[j] = IF q = p /\ j = i THEN a ELSE I[v][q].pages[j]
TablePut(I, J, v, p, i, a) ==
  \A q \in 1..Len(I[v]) :
    /\ Len(J[v][q].tdata) = Len(I[v][q].tdata)
    /\ \A j \in 1..Len(I[v][q].tdata) :
         J[v][q].tdata[j] = IF q = p /\ j = i THEN a ELSE I[v][q].tdata[j]
ElementPut(I, J, v, p, i, a) ==
  \A q \in 1..Len(I[v]) :
    /\ Len(J[v][q].dropped_elements) = Len(I[v][q].dropped_elements)
    /\ \A j \in 1..Len(I[v][q].dropped_elements) :
         J[v][q].dropped_elements[j] = IF q = p /\ j = i THEN a ELSE I[v][q].dropped_elements[j]
DataPut(I, J, v, p, i, a) ==
  \A q \in 1..Len(I[v]) :
    /\ Len(J[v][q].dropped_data) = Len(I[v][q].dropped_data)
    /\ \A j \in 1..Len(I[v][q].dropped_data) :
         J[v][q].dropped_data[j] = IF q = p /\ j = i THEN a ELSE I[v][q].dropped_data[j]

SameLens(I, J, v) ==
  \A p \in 1..Len(I[v]) :
    /\ Len(J[v][p].addrs) = Len(I[v][p].addrs)
    /\ Len(J[v][p].pages) = Len(I[v][p].pages)
    /\ Len(J[v][p].tdata) = Len(I[v][p].tdata)
    /\ Len(J[v][p].dropped_elements) = Len(I[v][p].dropped_elements)
    /\ Len(J[v][p].dropped_data) = Len(I[v][p].dropped_data)

\* An instance is replaced.
LEMMA Update ==
  ASSUME NEW I \in [VMs -> Seq(Instances)], NEW v \in VMs, NEW p \in 1..Len(I[v]),
         NEW n \in Instances, NEW s, s = [I[v] EXCEPT ![p] = n],
         NEW J, J = [I EXCEPT ![v] = s]
  PROVE  Replaced(I, J, v, p, n)
  <1>1. I[v] \in Seq(Instances)
    OBVIOUS
  <1>2. /\ s \in Seq(Instances) /\ Len(s) = Len(I[v])
        /\ \A q \in 1..Len(I[v]) : s[q] = IF q = p THEN n ELSE I[v][q]
    BY <1>1
  <1> QED BY <1>2 DEF Replaced

\* The fields that n leaves as they were.
LEMMA Unaffected ==
  ASSUME NEW I, NEW v, NEW p, NEW n, NEW J,
         Replaced(I, J, v, p, n), n.mod = I[v][p].mod
  PROVE  /\ Only(I, J, v)
         /\ n.state = I[v][p].state => SameStates(I, J, v)
         /\ n.addrs = I[v][p].addrs => SameAddrs(I, J, v)
         /\ n.pages = I[v][p].pages => SamePages(I, J, v)
         /\ n.tdata = I[v][p].tdata => SameTables(I, J, v)
         /\ n.dropped_elements = I[v][p].dropped_elements => SameElements(I, J, v)
         /\ n.dropped_data = I[v][p].dropped_data => SameData(I, J, v)
  <1>1. Only(I, J, v)
    BY DEF Only, Replaced
  <1>2. n.state = I[v][p].state => SameStates(I, J, v)
    BY DEF SameStates, Replaced
  <1>3. n.addrs = I[v][p].addrs => SameAddrs(I, J, v)
    BY DEF SameAddrs, Replaced
  <1>4. n.pages = I[v][p].pages => SamePages(I, J, v)
    BY DEF SamePages, Replaced
  <1>5. n.tdata = I[v][p].tdata => SameTables(I, J, v)
    BY DEF SameTables, Replaced
  <1>6. n.dropped_elements = I[v][p].dropped_elements => SameElements(I, J, v)
    BY DEF SameElements, Replaced
  <1>7. n.dropped_data = I[v][p].dropped_data => SameData(I, J, v)
    BY DEF SameData, Replaced
  <1> QED BY <1>1, <1>2, <1>3, <1>4, <1>5, <1>6, <1>7

\* The state of an instance.
LEMMA PutState ==
  ASSUME NEW I \in [VMs -> Seq(Instances)], NEW v \in VMs, NEW p \in 1..Len(I[v]),
         NEW s \in {"uninitialized", "init_failed", "ready"},
         NEW J, J = WithState(I, v, p, s)
  PROVE  /\ Only(I, J, v) /\ SameAddrs(I, J, v) /\ SamePages(I, J, v)
         /\ SameTables(I, J, v) /\ SameElements(I, J, v) /\ SameData(I, J, v)
         /\ StatePut(I, J, v, p, s)
  <1>1. PICK x, n : x = I[v][p] /\ n = [x EXCEPT !.state = s]
    OBVIOUS
  <1>2. x \in Instances
    BY <1>1
  <1>3. /\ n \in Instances /\ n.state = s /\ n.mod = x.mod /\ n.addrs = x.addrs
        /\ n.pages = x.pages /\ n.tdata = x.tdata
        /\ n.dropped_elements = x.dropped_elements /\ n.dropped_data = x.dropped_data
    BY <1>1, <1>2 DEF Instances
  <1>4. PICK t : t = [I[v] EXCEPT ![p] = n] /\ J = [I EXCEPT ![v] = t]
    BY <1>1 DEF WithState
  <1>5. Replaced(I, J, v, p, n)
    <2>1. n \in Instances
      BY <1>3
    <2> QED BY <1>4, <2>1, Update
  <1>6. \A q \in 1..Len(I[v]) : J[v][q].state = IF q = p THEN s ELSE I[v][q].state
    BY <1>3, <1>5 DEF Replaced
  <1>7. /\ n.mod = I[v][p].mod /\ n.addrs = I[v][p].addrs /\ n.pages = I[v][p].pages
        /\ n.tdata = I[v][p].tdata /\ n.dropped_elements = I[v][p].dropped_elements
        /\ n.dropped_data = I[v][p].dropped_data
    BY <1>1, <1>3
  <1>8. /\ Only(I, J, v) /\ SameAddrs(I, J, v) /\ SamePages(I, J, v)
        /\ SameTables(I, J, v) /\ SameElements(I, J, v) /\ SameData(I, J, v)
    BY <1>5, <1>7, Unaffected
  <1> QED BY <1>6, <1>8 DEF StatePut

\* One address.
LEMMA PutAddr ==
  ASSUME NEW I \in [VMs -> Seq(Instances)], NEW v \in VMs, NEW p \in 1..Len(I[v]),
         NEW i \in 1..Len(I[v][p].addrs), NEW a \in Addresses,
         NEW J, J = WithAddr(I, v, p, i, a)
  PROVE  /\ Only(I, J, v)
         /\ SameStates(I, J, v) /\ SamePages(I, J, v) /\ SameTables(I, J, v)
         /\ SameElements(I, J, v) /\ SameData(I, J, v)
         /\ AddrPut(I, J, v, p, i, a)
  <1>1. PICK x, u, n : /\ x = I[v][p] /\ u = [x.addrs EXCEPT ![i] = a]
                       /\ n = [x EXCEPT !.addrs = u]
    OBVIOUS
  <1>2. x \in Instances
    BY <1>1
  <1>3. x.addrs \in Seq(Addresses) /\ i \in 1..Len(x.addrs)
    BY <1>1, <1>2 DEF Instances
  <1>4. /\ u \in Seq(Addresses) /\ Len(u) = Len(x.addrs)
        /\ \A j \in 1..Len(x.addrs) : u[j] = IF j = i THEN a ELSE x.addrs[j]
    BY <1>1, <1>3
  <1>5. /\ n \in Instances /\ n.addrs = u /\ n.mod = x.mod
        /\ n.state = x.state /\ n.pages = x.pages /\ n.tdata = x.tdata
        /\ n.dropped_elements = x.dropped_elements /\ n.dropped_data = x.dropped_data
    BY <1>1, <1>2, <1>4 DEF Instances
  <1>6. PICK t : t = [I[v] EXCEPT ![p] = n] /\ J = [I EXCEPT ![v] = t]
    BY <1>1 DEF WithAddr
  <1>7. Replaced(I, J, v, p, n)
    <2>1. n \in Instances
      BY <1>5
    <2> QED BY <1>6, <2>1, Update
  <1>8. /\ n.mod = I[v][p].mod /\ n.state = I[v][p].state
        /\ n.pages = I[v][p].pages /\ n.tdata = I[v][p].tdata
        /\ n.dropped_elements = I[v][p].dropped_elements /\ n.dropped_data = I[v][p].dropped_data
    BY <1>1, <1>5
  <1>9. /\ Only(I, J, v)
        /\ SameStates(I, J, v) /\ SamePages(I, J, v) /\ SameTables(I, J, v)
        /\ SameElements(I, J, v) /\ SameData(I, J, v)
    BY <1>7, <1>8, Unaffected
  <1>10. \A q \in 1..Len(I[v]) :
           /\ Len(J[v][q].addrs) = Len(I[v][q].addrs)
           /\ \A j \in 1..Len(I[v][q].addrs) :
                J[v][q].addrs[j] = IF q = p /\ j = i THEN a ELSE I[v][q].addrs[j]
    <2> SUFFICES ASSUME NEW q \in 1..Len(I[v])
                 PROVE  /\ Len(J[v][q].addrs) = Len(I[v][q].addrs)
                        /\ \A j \in 1..Len(I[v][q].addrs) :
                             J[v][q].addrs[j] =
                               IF q = p /\ j = i THEN a ELSE I[v][q].addrs[j]
      OBVIOUS
    <2>1. CASE q = p
      <3>1. J[v][q].addrs = u /\ I[v][q].addrs = x.addrs
        BY <1>1, <1>5, <1>7, <2>1 DEF Replaced
      <3> QED BY <1>4, <2>1, <3>1
    <2>2. CASE q # p
      BY <1>7, <2>2 DEF Replaced
    <2> QED BY <2>1, <2>2
  <1> QED BY <1>9, <1>10 DEF AddrPut

\* The size of a memory.
LEMMA PutPages ==
  ASSUME NEW I \in [VMs -> Seq(Instances)], NEW v \in VMs, NEW p \in 1..Len(I[v]),
         NEW i \in 1..Len(I[v][p].pages), NEW a \in Nat,
         NEW J, J = WithPages(I, v, p, i, a)
  PROVE  /\ Only(I, J, v)
         /\ SameStates(I, J, v) /\ SameAddrs(I, J, v) /\ SameTables(I, J, v)
         /\ SameElements(I, J, v) /\ SameData(I, J, v)
         /\ PagesPut(I, J, v, p, i, a)
  <1>1. PICK x, u, n : /\ x = I[v][p] /\ u = [x.pages EXCEPT ![i] = a]
                       /\ n = [x EXCEPT !.pages = u]
    OBVIOUS
  <1>2. x \in Instances
    BY <1>1
  <1>3. x.pages \in Seq(Nat) /\ i \in 1..Len(x.pages)
    BY <1>1, <1>2 DEF Instances
  <1>4. /\ u \in Seq(Nat) /\ Len(u) = Len(x.pages)
        /\ \A j \in 1..Len(x.pages) : u[j] = IF j = i THEN a ELSE x.pages[j]
    BY <1>1, <1>3
  <1>5. /\ n \in Instances /\ n.pages = u /\ n.mod = x.mod
        /\ n.state = x.state /\ n.addrs = x.addrs /\ n.tdata = x.tdata
        /\ n.dropped_elements = x.dropped_elements /\ n.dropped_data = x.dropped_data
    BY <1>1, <1>2, <1>4 DEF Instances
  <1>6. PICK t : t = [I[v] EXCEPT ![p] = n] /\ J = [I EXCEPT ![v] = t]
    BY <1>1 DEF WithPages
  <1>7. Replaced(I, J, v, p, n)
    <2>1. n \in Instances
      BY <1>5
    <2> QED BY <1>6, <2>1, Update
  <1>8. /\ n.mod = I[v][p].mod /\ n.state = I[v][p].state
        /\ n.addrs = I[v][p].addrs /\ n.tdata = I[v][p].tdata
        /\ n.dropped_elements = I[v][p].dropped_elements /\ n.dropped_data = I[v][p].dropped_data
    BY <1>1, <1>5
  <1>9. /\ Only(I, J, v)
        /\ SameStates(I, J, v) /\ SameAddrs(I, J, v) /\ SameTables(I, J, v)
        /\ SameElements(I, J, v) /\ SameData(I, J, v)
    BY <1>7, <1>8, Unaffected
  <1>10. \A q \in 1..Len(I[v]) :
           /\ Len(J[v][q].pages) = Len(I[v][q].pages)
           /\ \A j \in 1..Len(I[v][q].pages) :
                J[v][q].pages[j] = IF q = p /\ j = i THEN a ELSE I[v][q].pages[j]
    <2> SUFFICES ASSUME NEW q \in 1..Len(I[v])
                 PROVE  /\ Len(J[v][q].pages) = Len(I[v][q].pages)
                        /\ \A j \in 1..Len(I[v][q].pages) :
                             J[v][q].pages[j] =
                               IF q = p /\ j = i THEN a ELSE I[v][q].pages[j]
      OBVIOUS
    <2>1. CASE q = p
      <3>1. J[v][q].pages = u /\ I[v][q].pages = x.pages
        BY <1>1, <1>5, <1>7, <2>1 DEF Replaced
      <3> QED BY <1>4, <2>1, <3>1
    <2>2. CASE q # p
      BY <1>7, <2>2 DEF Replaced
    <2> QED BY <2>1, <2>2
  <1> QED BY <1>9, <1>10 DEF PagesPut

\* The contents of a table.
LEMMA PutTable ==
  ASSUME NEW I \in [VMs -> Seq(Instances)], NEW v \in VMs, NEW p \in 1..Len(I[v]),
         NEW i \in 1..Len(I[v][p].tdata), NEW a \in Seq(Addresses),
         NEW J, J = WithTable(I, v, p, i, a)
  PROVE  /\ Only(I, J, v)
         /\ SameStates(I, J, v) /\ SameAddrs(I, J, v) /\ SamePages(I, J, v)
         /\ SameElements(I, J, v) /\ SameData(I, J, v)
         /\ TablePut(I, J, v, p, i, a)
  <1>1. PICK x, u, n : /\ x = I[v][p] /\ u = [x.tdata EXCEPT ![i] = a]
                       /\ n = [x EXCEPT !.tdata = u]
    OBVIOUS
  <1>2. x \in Instances
    BY <1>1
  <1>3. x.tdata \in Seq(Seq(Addresses)) /\ i \in 1..Len(x.tdata)
    BY <1>1, <1>2 DEF Instances
  <1>4. /\ u \in Seq(Seq(Addresses)) /\ Len(u) = Len(x.tdata)
        /\ \A j \in 1..Len(x.tdata) : u[j] = IF j = i THEN a ELSE x.tdata[j]
    BY <1>1, <1>3
  <1>5. /\ n \in Instances /\ n.tdata = u /\ n.mod = x.mod
        /\ n.state = x.state /\ n.addrs = x.addrs /\ n.pages = x.pages
        /\ n.dropped_elements = x.dropped_elements /\ n.dropped_data = x.dropped_data
    BY <1>1, <1>2, <1>4 DEF Instances
  <1>6. PICK t : t = [I[v] EXCEPT ![p] = n] /\ J = [I EXCEPT ![v] = t]
    BY <1>1 DEF WithTable
  <1>7. Replaced(I, J, v, p, n)
    <2>1. n \in Instances
      BY <1>5
    <2> QED BY <1>6, <2>1, Update
  <1>8. /\ n.mod = I[v][p].mod /\ n.state = I[v][p].state
        /\ n.addrs = I[v][p].addrs /\ n.pages = I[v][p].pages
        /\ n.dropped_elements = I[v][p].dropped_elements /\ n.dropped_data = I[v][p].dropped_data
    BY <1>1, <1>5
  <1>9. /\ Only(I, J, v)
        /\ SameStates(I, J, v) /\ SameAddrs(I, J, v) /\ SamePages(I, J, v)
        /\ SameElements(I, J, v) /\ SameData(I, J, v)
    BY <1>7, <1>8, Unaffected
  <1>10. \A q \in 1..Len(I[v]) :
           /\ Len(J[v][q].tdata) = Len(I[v][q].tdata)
           /\ \A j \in 1..Len(I[v][q].tdata) :
                J[v][q].tdata[j] = IF q = p /\ j = i THEN a ELSE I[v][q].tdata[j]
    <2> SUFFICES ASSUME NEW q \in 1..Len(I[v])
                 PROVE  /\ Len(J[v][q].tdata) = Len(I[v][q].tdata)
                        /\ \A j \in 1..Len(I[v][q].tdata) :
                             J[v][q].tdata[j] =
                               IF q = p /\ j = i THEN a ELSE I[v][q].tdata[j]
      OBVIOUS
    <2>1. CASE q = p
      <3>1. J[v][q].tdata = u /\ I[v][q].tdata = x.tdata
        BY <1>1, <1>5, <1>7, <2>1 DEF Replaced
      <3> QED BY <1>4, <2>1, <3>1
    <2>2. CASE q # p
      BY <1>7, <2>2 DEF Replaced
    <2> QED BY <2>1, <2>2
  <1> QED BY <1>9, <1>10 DEF TablePut

\* Whether an element segment is dropped.
LEMMA PutElement ==
  ASSUME NEW I \in [VMs -> Seq(Instances)], NEW v \in VMs, NEW p \in 1..Len(I[v]),
         NEW i \in 1..Len(I[v][p].dropped_elements), NEW a \in BOOLEAN,
         NEW J, J = WithElement(I, v, p, i, a)
  PROVE  /\ Only(I, J, v)
         /\ SameStates(I, J, v) /\ SameAddrs(I, J, v) /\ SamePages(I, J, v)
         /\ SameTables(I, J, v) /\ SameData(I, J, v)
         /\ ElementPut(I, J, v, p, i, a)
  <1>1. PICK x, u, n : /\ x = I[v][p] /\ u = [x.dropped_elements EXCEPT ![i] = a]
                       /\ n = [x EXCEPT !.dropped_elements = u]
    OBVIOUS
  <1>2. x \in Instances
    BY <1>1
  <1>3. x.dropped_elements \in Seq(BOOLEAN) /\ i \in 1..Len(x.dropped_elements)
    BY <1>1, <1>2 DEF Instances
  <1>4. /\ u \in Seq(BOOLEAN) /\ Len(u) = Len(x.dropped_elements)
        /\ \A j \in 1..Len(x.dropped_elements) : u[j] = IF j = i THEN a ELSE x.dropped_elements[j]
    BY <1>1, <1>3
  <1>5. /\ n \in Instances /\ n.dropped_elements = u /\ n.mod = x.mod
        /\ n.state = x.state /\ n.addrs = x.addrs /\ n.pages = x.pages
        /\ n.tdata = x.tdata /\ n.dropped_data = x.dropped_data
    BY <1>1, <1>2, <1>4 DEF Instances
  <1>6. PICK t : t = [I[v] EXCEPT ![p] = n] /\ J = [I EXCEPT ![v] = t]
    BY <1>1 DEF WithElement
  <1>7. Replaced(I, J, v, p, n)
    <2>1. n \in Instances
      BY <1>5
    <2> QED BY <1>6, <2>1, Update
  <1>8. /\ n.mod = I[v][p].mod /\ n.state = I[v][p].state
        /\ n.addrs = I[v][p].addrs /\ n.pages = I[v][p].pages
        /\ n.tdata = I[v][p].tdata /\ n.dropped_data = I[v][p].dropped_data
    BY <1>1, <1>5
  <1>9. /\ Only(I, J, v)
        /\ SameStates(I, J, v) /\ SameAddrs(I, J, v) /\ SamePages(I, J, v)
        /\ SameTables(I, J, v) /\ SameData(I, J, v)
    BY <1>7, <1>8, Unaffected
  <1>10. \A q \in 1..Len(I[v]) :
           /\ Len(J[v][q].dropped_elements) = Len(I[v][q].dropped_elements)
           /\ \A j \in 1..Len(I[v][q].dropped_elements) :
                J[v][q].dropped_elements[j] = IF q = p /\ j = i THEN a ELSE I[v][q].dropped_elements[j]
    <2> SUFFICES ASSUME NEW q \in 1..Len(I[v])
                 PROVE  /\ Len(J[v][q].dropped_elements) = Len(I[v][q].dropped_elements)
                        /\ \A j \in 1..Len(I[v][q].dropped_elements) :
                             J[v][q].dropped_elements[j] =
                               IF q = p /\ j = i THEN a ELSE I[v][q].dropped_elements[j]
      OBVIOUS
    <2>1. CASE q = p
      <3>1. J[v][q].dropped_elements = u /\ I[v][q].dropped_elements = x.dropped_elements
        BY <1>1, <1>5, <1>7, <2>1 DEF Replaced
      <3> QED BY <1>4, <2>1, <3>1
    <2>2. CASE q # p
      BY <1>7, <2>2 DEF Replaced
    <2> QED BY <2>1, <2>2
  <1> QED BY <1>9, <1>10 DEF ElementPut

\* Whether a data segment is dropped.
LEMMA PutData ==
  ASSUME NEW I \in [VMs -> Seq(Instances)], NEW v \in VMs, NEW p \in 1..Len(I[v]),
         NEW i \in 1..Len(I[v][p].dropped_data), NEW a \in BOOLEAN,
         NEW J, J = WithData(I, v, p, i, a)
  PROVE  /\ Only(I, J, v)
         /\ SameStates(I, J, v) /\ SameAddrs(I, J, v) /\ SamePages(I, J, v)
         /\ SameTables(I, J, v) /\ SameElements(I, J, v)
         /\ DataPut(I, J, v, p, i, a)
  <1>1. PICK x, u, n : /\ x = I[v][p] /\ u = [x.dropped_data EXCEPT ![i] = a]
                       /\ n = [x EXCEPT !.dropped_data = u]
    OBVIOUS
  <1>2. x \in Instances
    BY <1>1
  <1>3. x.dropped_data \in Seq(BOOLEAN) /\ i \in 1..Len(x.dropped_data)
    BY <1>1, <1>2 DEF Instances
  <1>4. /\ u \in Seq(BOOLEAN) /\ Len(u) = Len(x.dropped_data)
        /\ \A j \in 1..Len(x.dropped_data) : u[j] = IF j = i THEN a ELSE x.dropped_data[j]
    BY <1>1, <1>3
  <1>5. /\ n \in Instances /\ n.dropped_data = u /\ n.mod = x.mod
        /\ n.state = x.state /\ n.addrs = x.addrs /\ n.pages = x.pages
        /\ n.tdata = x.tdata /\ n.dropped_elements = x.dropped_elements
    BY <1>1, <1>2, <1>4 DEF Instances
  <1>6. PICK t : t = [I[v] EXCEPT ![p] = n] /\ J = [I EXCEPT ![v] = t]
    BY <1>1 DEF WithData
  <1>7. Replaced(I, J, v, p, n)
    <2>1. n \in Instances
      BY <1>5
    <2> QED BY <1>6, <2>1, Update
  <1>8. /\ n.mod = I[v][p].mod /\ n.state = I[v][p].state
        /\ n.addrs = I[v][p].addrs /\ n.pages = I[v][p].pages
        /\ n.tdata = I[v][p].tdata /\ n.dropped_elements = I[v][p].dropped_elements
    BY <1>1, <1>5
  <1>9. /\ Only(I, J, v)
        /\ SameStates(I, J, v) /\ SameAddrs(I, J, v) /\ SamePages(I, J, v)
        /\ SameTables(I, J, v) /\ SameElements(I, J, v)
    BY <1>7, <1>8, Unaffected
  <1>10. \A q \in 1..Len(I[v]) :
           /\ Len(J[v][q].dropped_data) = Len(I[v][q].dropped_data)
           /\ \A j \in 1..Len(I[v][q].dropped_data) :
                J[v][q].dropped_data[j] = IF q = p /\ j = i THEN a ELSE I[v][q].dropped_data[j]
    <2> SUFFICES ASSUME NEW q \in 1..Len(I[v])
                 PROVE  /\ Len(J[v][q].dropped_data) = Len(I[v][q].dropped_data)
                        /\ \A j \in 1..Len(I[v][q].dropped_data) :
                             J[v][q].dropped_data[j] =
                               IF q = p /\ j = i THEN a ELSE I[v][q].dropped_data[j]
      OBVIOUS
    <2>1. CASE q = p
      <3>1. J[v][q].dropped_data = u /\ I[v][q].dropped_data = x.dropped_data
        BY <1>1, <1>5, <1>7, <2>1 DEF Replaced
      <3> QED BY <1>4, <2>1, <3>1
    <2>2. CASE q # p
      BY <1>7, <2>2 DEF Replaced
    <2> QED BY <2>1, <2>2
  <1> QED BY <1>9, <1>10 DEF DataPut

----------------------------------------------------------------------------
(***************************************************************************)
(* The instances of one machine, before (s) and after (t) a step.          *)
(***************************************************************************)
\* What the types say of a module and of an instance.
LEMMA DescFacts ==
  ASSUME NEW m \in Mods
  PROVE  /\ Desc[m].ents \in Seq(Entities) /\ Desc[m].elements \in Seq(Elements)
         /\ Desc[m].data \in Seq(Segments) /\ Desc[m].start \in Nat
         /\ Desc[m].exports \in Seq([kind : Kinds, field : STRING, at : Nat])
         /\ \A i \in 1..Len(Desc[m].ents) :
              /\ Desc[m].ents[i] \in Entities
              /\ Desc[m].ents[i].min \in Nat /\ Desc[m].ents[i].max \in Nat
              /\ Desc[m].ents[i].min <= Desc[m].ents[i].max
              /\ Desc[m].ents[i].kind \in Kinds
              /\ Desc[m].ents[i].kind = "mem" =>
                   /\ Desc[m].ents[i].type = ""
                   /\ Desc[m].ents[i].max <= WASM_MEM_MAX_PAGES
  <1>1. Desc[m] \in Descriptions
    BY DescAssumption
  <1>2. /\ Desc[m].ents \in Seq(Entities) /\ Desc[m].elements \in Seq(Elements)
        /\ Desc[m].data \in Seq(Segments) /\ Desc[m].start \in Nat
        /\ Desc[m].exports \in Seq([kind : Kinds, field : STRING, at : Nat])
    BY <1>1 DEF Descriptions
  <1>3. \A i \in DOMAIN Desc[m].ents :
          /\ Desc[m].ents[i].min <= Desc[m].ents[i].max
          /\ Desc[m].ents[i].kind = "mem" =>
               Desc[m].ents[i].type = "" /\ Desc[m].ents[i].max <= WASM_MEM_MAX_PAGES
    BY DescAssumption
  <1>4. \A i \in 1..Len(Desc[m].ents) : i \in DOMAIN Desc[m].ents /\ Desc[m].ents[i] \in Entities
    BY <1>2
  <1>5. \A e \in Entities : e.min \in Nat /\ e.max \in Nat /\ e.kind \in Kinds
    BY DEF Entities
  <1> QED BY <1>2, <1>3, <1>4, <1>5

\* What the type of an instance says of its fields.
LEMMA InstFacts ==
  ASSUME NEW x \in Instances, Shaped(x)
  PROVE  /\ x.mod \in Mods /\ x.addrs \in Seq(Addresses) /\ x.pages \in Seq(Nat)
         /\ x.tdata \in Seq(Seq(Addresses))
         /\ x.dropped_elements \in Seq(BOOLEAN) /\ x.dropped_data \in Seq(BOOLEAN)
         /\ Len(x.addrs) \in Nat /\ Len(x.addrs) = Len(Desc[x.mod].ents)
         /\ Len(x.pages) = Len(x.addrs) /\ Len(x.tdata) = Len(x.addrs)
         /\ Len(x.dropped_elements) = Len(Desc[x.mod].elements)
         /\ Len(x.dropped_data) = Len(Desc[x.mod].data)
         /\ \A i \in 1..Len(x.addrs) :
              /\ x.addrs[i] \in Addresses /\ x.pages[i] \in Nat
              /\ x.tdata[i] \in Seq(Addresses) /\ Len(x.tdata[i]) \in Nat
              /\ Size(x, i) \in Nat /\ EntOf(x, i) \in Entities
              /\ EntOf(x, i).min \in Nat /\ EntOf(x, i).max \in Nat
  <1>1. /\ x.mod \in Mods /\ x.addrs \in Seq(Addresses) /\ x.pages \in Seq(Nat)
        /\ x.tdata \in Seq(Seq(Addresses))
        /\ x.dropped_elements \in Seq(BOOLEAN) /\ x.dropped_data \in Seq(BOOLEAN)
    BY DEF Instances
  <1>2. /\ Len(x.addrs) = Len(Desc[x.mod].ents) /\ Len(x.pages) = Len(x.addrs)
        /\ Len(x.tdata) = Len(x.addrs)
        /\ Len(x.dropped_elements) = Len(Desc[x.mod].elements)
        /\ Len(x.dropped_data) = Len(Desc[x.mod].data)
    BY DEF Shaped
  <1>3. ASSUME NEW i \in 1..Len(x.addrs)
        PROVE  /\ x.addrs[i] \in Addresses /\ x.pages[i] \in Nat
               /\ x.tdata[i] \in Seq(Addresses) /\ Len(x.tdata[i]) \in Nat
    <2>1. i \in 1..Len(x.pages) /\ i \in 1..Len(x.tdata)
      BY <1>2
    <2>2. x.addrs[i] \in Addresses /\ x.pages[i] \in Nat
      BY <1>1, <2>1, SMTT(30)
    <2>3. x.tdata[i] \in Seq(Addresses)
      BY <1>1, <2>1
    <2> QED BY <2>2, <2>3
  <1>4. \A i \in 1..Len(x.addrs) :
          /\ EntOf(x, i) \in Entities /\ EntOf(x, i).min \in Nat /\ EntOf(x, i).max \in Nat
    BY <1>1, <1>2, DescFacts DEF EntOf
  <1>5. \A i \in 1..Len(x.addrs) : Size(x, i) \in Nat
    BY <1>3 DEF Size
  <1>6. Len(x.addrs) \in Nat
    BY <1>1
  <1> QED BY <1>1, <1>2, <1>3, <1>4, <1>5, <1>6

\* What the type of a machine says of its instances.
LEMMA MachineFacts ==
  ASSUME NEW s, Machine(s)
  PROVE  /\ s \in Seq(Instances) /\ Len(s) \in Nat /\ DOMAIN s = 1..Len(s)
         /\ \A p \in 1..Len(s) : s[p] \in Instances /\ Shaped(s[p])
  BY DEF Machine

\* The instances of s are still there and no smaller.
Grown(s, t) ==
  /\ Len(s) <= Len(t)
  /\ \A p \in 1..Len(s) :
       /\ t[p].mod = s[p].mod /\ Len(t[p].addrs) = Len(s[p].addrs)
       /\ \A i \in 1..Len(s[p].addrs) : Size(s[p], i) <= Size(t[p], i)

\* A definition stays where it is.
LEMMA OwnedStays ==
  ASSUME NEW s, NEW t, Machine(s), Machine(t), Grown(s, t),
         NEW a, NEW kind, Owned(s, a, kind)
  PROVE  /\ Owned(t, a, kind) /\ EntAt(t, a) = EntAt(s, a)
         /\ SizeAt(s, a) \in Nat /\ SizeAt(t, a) \in Nat /\ SizeAt(s, a) <= SizeAt(t, a)
  <1>1. PICK p, i : p = a[1] /\ i = a[2]
    OBVIOUS
  <1>2. /\ p \in 1..Len(s) /\ i \in 1..Len(s[p].addrs)
        /\ EntOf(s[p], i).kind = kind /\ EntOf(s[p], i).from = << >>
    BY <1>1 DEF Owned, EntAt
  <1>3. p \in 1..Len(t)
    BY <1>2, MachineFacts DEF Grown
  <1>4. t[p].mod = s[p].mod /\ i \in 1..Len(t[p].addrs) /\ Size(s[p], i) <= Size(t[p], i)
    BY <1>2 DEF Grown
  <1>5. EntOf(t[p], i) = EntOf(s[p], i)
    BY <1>4 DEF EntOf
  <1>6. Size(s[p], i) \in Nat /\ Size(t[p], i) \in Nat
    BY <1>2, <1>3, <1>4, MachineFacts, InstFacts
  <1> QED BY <1>1, <1>2, <1>3, <1>4, <1>5, <1>6 DEF Owned, EntAt, SizeAt

\* What fits an import goes on fitting it while memories and tables only grow.
LEMMA MeetsStays ==
  ASSUME NEW s, NEW t, Machine(s), Machine(t), Grown(s, t),
         NEW a, NEW ent, ent.min \in Nat, Meets(s, a, ent)
  PROVE  Meets(t, a, ent)
  <1>1. /\ Owned(t, a, ent.kind) /\ EntAt(t, a) = EntAt(s, a)
        /\ SizeAt(s, a) \in Nat /\ SizeAt(t, a) \in Nat /\ SizeAt(s, a) <= SizeAt(t, a)
    BY OwnedStays DEF Meets
  <1> QED BY <1>1 DEF Meets

\* The addresses and the references of t are those of s, or good ones.
NewAddrs(s, t) ==
  \A p \in 1..Len(t) : \A i \in 1..Len(t[p].addrs) :
    \/ t[p].addrs[i] = NULL
    \/ p \in 1..Len(s) /\ t[p].addrs[i] = s[p].addrs[i]
    \/ Meets(s, t[p].addrs[i], EntOf(t[p], i))
NewRefs(s, t) ==
  \A p \in 1..Len(t) : \A i \in 1..Len(t[p].addrs) : \A j \in 1..Len(t[p].tdata[i]) :
    \/ t[p].tdata[i][j] \in Nothing
    \/ /\ p \in 1..Len(s) /\ j \in 1..Len(s[p].tdata[i])
       /\ t[p].tdata[i][j] = s[p].tdata[i][j]
    \/ Owned(s, t[p].tdata[i][j], "func")

\* A machine stays sane when it only grows and what is new is sane.
LEMMA SaneStep ==
  ASSUME NEW s, NEW t, Machine(s), Machine(t), Sane(s), Grown(s, t),
         NewAddrs(s, t), NewRefs(s, t), Within(t)
  PROVE  Sane(t)
  <1>1. Addressed(t)
    <2> SUFFICES ASSUME NEW p \in 1..Len(t), NEW i \in 1..Len(t[p].addrs),
                        t[p].addrs[i] # NULL
                 PROVE  Meets(t, t[p].addrs[i], EntOf(t[p], i))
      BY DEF Addressed
    <2>1. EntOf(t[p], i).min \in Nat
      BY MachineFacts, InstFacts
    <2>2. Meets(s, t[p].addrs[i], EntOf(t[p], i))
      <3>1. CASE Meets(s, t[p].addrs[i], EntOf(t[p], i))
        BY <3>1
      <3>2. CASE p \in 1..Len(s) /\ t[p].addrs[i] = s[p].addrs[i]
        <4>1. t[p].mod = s[p].mod /\ i \in 1..Len(s[p].addrs)
          BY <3>2 DEF Grown
        <4>2. EntOf(t[p], i) = EntOf(s[p], i)
          BY <4>1 DEF EntOf
        <4> QED BY <3>2, <4>1, <4>2 DEF Sane, Addressed
      <3> QED BY <3>1, <3>2 DEF NewAddrs
    <2> QED BY <2>1, <2>2, MeetsStays
  <1>2. TableRefs(t)
    <2> SUFFICES ASSUME NEW p \in 1..Len(t), NEW i \in 1..Len(t[p].addrs),
                        NEW j \in 1..Len(t[p].tdata[i]), t[p].tdata[i][j] \notin Nothing
                 PROVE  Owned(t, t[p].tdata[i][j], "func")
      BY DEF TableRefs
    <2>1. Owned(s, t[p].tdata[i][j], "func")
      <3>1. CASE Owned(s, t[p].tdata[i][j], "func")
        BY <3>1
      <3>2. CASE /\ p \in 1..Len(s) /\ j \in 1..Len(s[p].tdata[i])
                 /\ t[p].tdata[i][j] = s[p].tdata[i][j]
        <4>1. i \in 1..Len(s[p].addrs)
          BY <3>2 DEF Grown
        <4> QED BY <3>2, <4>1 DEF Sane, TableRefs
      <3> QED BY <3>1, <3>2 DEF NewRefs
    <2> QED BY <2>1, OwnedStays
  <1> QED BY <1>1, <1>2 DEF Sane

\* Whatever machine an update is confined to, the others stay sane.
LEMMA WorldStep ==
  ASSUME NEW I, NEW J, NEW v \in VMs, Machines(I), World(I), Machines(J),
         \A w \in VMs \ {v} : J[w] = I[w], Sane(J[v])
  PROVE  World(J)
  BY DEF World

\* An update that keeps the modules keeps the shape where the lengths stay.
LEMMA ShapeStays ==
  ASSUME NEW I, NEW J, NEW v \in VMs, Machines(I), Only(I, J, v), SameLens(I, J, v)
  PROVE  Machines(J)
  <1>1. J \in [VMs -> Seq(Instances)] /\ Len(J[v]) = Len(I[v])
    BY DEF Only
  <1>2. \A w \in VMs : J[w] \in Seq(Instances)
    BY <1>1
  <1>3. ASSUME NEW w \in VMs, NEW p \in 1..Len(J[w])
        PROVE  Shaped(J[w][p])
    <2>1. p \in 1..Len(I[w]) /\ Shaped(I[w][p])
      BY <1>1, <1>3 DEF Only, Machines, Machine
    <2>2. CASE w # v
      BY <2>1, <2>2 DEF Only
    <2>3. CASE w = v
      BY <2>1, <2>3 DEF Only, Shaped, SameLens
    <2> QED BY <2>2, <2>3
  <1> QED BY <1>1, <1>2, <1>3 DEF Machines, Machine

\* Sizes, addresses and references that stay.
LEMMA SameSizes ==
  ASSUME NEW I, NEW J, NEW v \in VMs, Machines(I), Machines(J), Only(I, J, v),
         SamePages(I, J, v), SameTables(I, J, v), Sane(I[v]), SameLens(I, J, v)
  PROVE  Grown(I[v], J[v]) /\ NewRefs(I[v], J[v]) /\ Within(J[v])
  <1>1. PICK s, t : s = I[v] /\ t = J[v]
    OBVIOUS
  <1>2. Machine(s) /\ Machine(t) /\ Len(t) = Len(s)
    BY <1>1 DEF Machines, Only
  <1>3. \A p \in 1..Len(s) : /\ t[p].mod = s[p].mod /\ Len(t[p].addrs) = Len(s[p].addrs)
                             /\ t[p].pages = s[p].pages /\ t[p].tdata = s[p].tdata
    BY <1>1 DEF Only, SamePages, SameTables, SameLens
  <1>4. \A p \in 1..Len(s) : \A i \in 1..Len(s[p].addrs) :
          EntOf(t[p], i) = EntOf(s[p], i) /\ Size(t[p], i) = Size(s[p], i)
    BY <1>3 DEF EntOf, Size
  <1>5. \A p \in 1..Len(s) : \A i \in 1..Len(s[p].addrs) : Size(s[p], i) \in Nat
    BY <1>2, MachineFacts, InstFacts
  <1>6. Grown(s, t)
    <2>1. Len(s) <= Len(t)
      BY <1>2, MachineFacts
    <2>2. \A p \in 1..Len(s) : \A i \in 1..Len(s[p].addrs) : Size(s[p], i) <= Size(t[p], i)
      BY <1>4, <1>5
    <2> QED BY <1>3, <2>1, <2>2 DEF Grown
  <1>7. NewRefs(s, t)
    BY <1>2, <1>3 DEF NewRefs
  <1>8. Within(t)
    <2>1. Within(s)
      BY <1>1 DEF Sane
    <2> SUFFICES ASSUME NEW p \in 1..Len(t), NEW i \in 1..Len(t[p].addrs)
                 PROVE  InLimits(t[p], i)
      BY DEF Within
    <2>2. p \in 1..Len(s) /\ i \in 1..Len(s[p].addrs)
      BY <1>2, <1>3
    <2>3. InLimits(s[p], i)
      BY <2>1, <2>2 DEF Within
    <2>4. EntOf(t[p], i) = EntOf(s[p], i) /\ Size(t[p], i) = Size(s[p], i)
      BY <1>4, <2>2
    <2> QED BY <2>3, <2>4 DEF InLimits
  <1> QED BY <1>1, <1>6, <1>7, <1>8

\* Addresses that stay are not new.
LEMMA SameNewAddrs ==
  ASSUME NEW I, NEW J, NEW v \in VMs, Only(I, J, v), SameAddrs(I, J, v)
  PROVE  NewAddrs(I[v], J[v])
  BY DEF Only, SameAddrs, NewAddrs

\* The state of an instance and what is dropped do not matter for that.
LEMMA MarkStep ==
  ASSUME NEW I, NEW J, NEW v \in VMs, Machines(I), World(I), Only(I, J, v),
         SameAddrs(I, J, v), SamePages(I, J, v), SameTables(I, J, v), SameLens(I, J, v)
  PROVE  Machines(J) /\ World(J) /\ Grown(I[v], J[v])
  <1>1. Machines(J)
    BY ShapeStays
  <1>2. Machine(I[v]) /\ Machine(J[v]) /\ Sane(I[v])
    BY <1>1 DEF Machines, World
  <1>3. Grown(I[v], J[v]) /\ NewRefs(I[v], J[v]) /\ Within(J[v])
    BY <1>1, <1>2, SameSizes
  <1>4. NewAddrs(I[v], J[v])
    BY SameNewAddrs
  <1>5. Sane(J[v])
    BY <1>2, <1>3, <1>4, SaneStep
  <1>6. \A w \in VMs \ {v} : J[w] = I[w]
    BY DEF Only
  <1> QED BY <1>1, <1>3, <1>5, <1>6, WorldStep

\* An address that is set to what the entity asks for.
LEMMA AddrStep ==
  ASSUME NEW I, NEW J, NEW v \in VMs, Machines(I), World(I), NEW p \in 1..Len(I[v]),
         NEW i \in 1..Len(I[v][p].addrs), NEW a \in Addresses,
         Meets(I[v], a, EntOf(I[v][p], i)), J = WithAddr(I, v, p, i, a)
  PROVE  Machines(J) /\ World(J) /\ Grown(I[v], J[v])
  <1>1. I \in [VMs -> Seq(Instances)]
    BY DEF Machines
  <1>2. /\ Only(I, J, v)
        /\ SameStates(I, J, v) /\ SamePages(I, J, v) /\ SameTables(I, J, v)
        /\ SameElements(I, J, v) /\ SameData(I, J, v)
        /\ AddrPut(I, J, v, p, i, a)
    BY <1>1, PutAddr
  <1>3. SameLens(I, J, v)
    BY <1>2 DEF SamePages, SameTables, SameElements, SameData, SameLens, AddrPut
  <1>4. Machines(J)
    BY <1>2, <1>3, ShapeStays
  <1>5. Machine(I[v]) /\ Machine(J[v]) /\ Sane(I[v])
    BY <1>4 DEF Machines, World
  <1>6. Grown(I[v], J[v]) /\ NewRefs(I[v], J[v]) /\ Within(J[v])
    BY <1>2, <1>3, <1>4, <1>5, SameSizes
  <1>7. NewAddrs(I[v], J[v])
    BY <1>2, SMTT(30) DEF NewAddrs, Only, EntOf, AddrPut
  <1>8. Sane(J[v])
    BY <1>5, <1>6, <1>7, SaneStep
  <1>9. \A w \in VMs \ {v} : J[w] = I[w]
    BY <1>2 DEF Only
  <1> QED BY <1>4, <1>6, <1>8, <1>9, WorldStep

\* A memory that grows within its limit.
LEMMA PagesStep ==
  ASSUME NEW I, NEW J, NEW v \in VMs, Machines(I), World(I), NEW p \in 1..Len(I[v]),
         NEW i \in 1..Len(I[v][p].addrs), NEW n \in Nat,
         I[v][p].pages[i] <= n, n <= EntOf(I[v][p], i).max, J = WithPages(I, v, p, i, n)
  PROVE  Machines(J) /\ World(J) /\ Grown(I[v], J[v])
  <1>1. I \in [VMs -> Seq(Instances)] /\ Machine(I[v]) /\ Sane(I[v])
    BY DEF Machines, World
  <1>2. \A q \in 1..Len(I[v]) : I[v][q] \in Instances /\ Shaped(I[v][q])
    BY <1>1, MachineFacts
  <1>3. i \in 1..Len(I[v][p].pages)
    BY <1>2, InstFacts
  <1>4. /\ Only(I, J, v)
        /\ SameStates(I, J, v) /\ SameAddrs(I, J, v) /\ SameTables(I, J, v)
        /\ SameElements(I, J, v) /\ SameData(I, J, v)
        /\ PagesPut(I, J, v, p, i, n)
    BY <1>1, <1>3, PutPages
  <1>5. SameLens(I, J, v)
    BY <1>4 DEF SameAddrs, SameTables, SameElements, SameData, SameLens, PagesPut
  <1>6. Machines(J)
    BY <1>4, <1>5, ShapeStays
  <1>7. Machine(J[v]) /\ NewAddrs(I[v], J[v])
    BY <1>4, <1>6, SameNewAddrs DEF Machines
  <1>8. PICK s, t : s = I[v] /\ t = J[v]
    OBVIOUS
  <1>9. Len(t) = Len(s) /\ Len(s) \in Nat
    BY <1>1, <1>4, <1>8, MachineFacts DEF Only
  <1>10. \A q \in 1..Len(s) : /\ t[q].mod = s[q].mod /\ t[q].addrs = s[q].addrs
                              /\ t[q].tdata = s[q].tdata
    BY <1>4, <1>8 DEF Only, SameAddrs, SameTables
  <1>11. \A q \in 1..Len(s) : \A j \in 1..Len(s[q].addrs) :
           t[q].pages[j] = IF q = p /\ j = i THEN n ELSE s[q].pages[j]
    BY <1>2, <1>4, <1>8, InstFacts, ZenonT(60) DEF PagesPut
  <1>12. \A q \in 1..Len(s) : \A j \in 1..Len(s[q].addrs) :
           EntOf(t[q], j) = EntOf(s[q], j)
    BY <1>10 DEF EntOf
  <1>13. \A q \in 1..Len(s) : \A j \in 1..Len(s[q].addrs) :
           Size(t[q], j) = IF q = p /\ j = i /\ EntOf(s[q], j).kind = "mem" THEN n
                           ELSE Size(s[q], j)
    BY <1>10, <1>11, <1>12 DEF Size
  <1>14. \A q \in 1..Len(s) : \A j \in 1..Len(s[q].addrs) :
           /\ Size(s[q], j) \in Nat /\ EntOf(s[q], j).min \in Nat /\ EntOf(s[q], j).max \in Nat
           /\ EntOf(s[q], j).kind = "mem" => Size(s[q], j) = s[q].pages[j]
    BY <1>2, <1>8, InstFacts DEF Size
  <1>15. ASSUME NEW q \in 1..Len(s), NEW j \in 1..Len(s[q].addrs)
         PROVE  /\ Size(t[q], j) \in Nat /\ Size(s[q], j) <= Size(t[q], j)
                /\ Size(t[q], j) = Size(s[q], j) \/ Size(t[q], j) <= EntOf(s[q], j).max
    <2>1. Size(s[q], j) \in Nat
      BY <1>14
    <2>2. CASE q = p /\ j = i /\ EntOf(s[q], j).kind = "mem"
      <3>1. Size(t[q], j) = n
        BY <1>13, <2>2
      <3>2. Size(s[q], j) = I[v][p].pages[i]
        BY <1>8, <1>14, <2>2
      <3>3. n <= EntOf(s[q], j).max
        BY <1>8, <2>2
      <3> QED BY <2>1, <3>1, <3>2, <3>3
    <2>3. CASE ~(q = p /\ j = i /\ EntOf(s[q], j).kind = "mem")
      <3>1. Size(t[q], j) = Size(s[q], j)
        BY <1>13, <2>3
      <3> QED BY <2>1, <3>1
    <2> QED BY <2>2, <2>3
  <1>16. Grown(s, t)
    BY <1>9, <1>10, <1>15 DEF Grown
  <1>17. NewRefs(s, t)
    BY <1>9, <1>10 DEF NewRefs
  <1>18. Within(t)
    <2> SUFFICES ASSUME NEW q \in 1..Len(s), NEW j \in 1..Len(s[q].addrs)
                 PROVE  InLimits(t[q], j)
      BY <1>9, <1>10 DEF Within
    <2>1. InLimits(s[q], j)
      BY <1>1, <1>8 DEF Sane, Within
    <2>2. /\ EntOf(t[q], j) = EntOf(s[q], j)
          /\ Size(s[q], j) \in Nat /\ EntOf(s[q], j).min \in Nat /\ EntOf(s[q], j).max \in Nat
      BY <1>12, <1>14
    <2>3. /\ Size(t[q], j) \in Nat /\ Size(s[q], j) <= Size(t[q], j)
          /\ Size(t[q], j) = Size(s[q], j) \/ Size(t[q], j) <= EntOf(s[q], j).max
      BY <1>15
    <2> QED BY <2>1, <2>2, <2>3 DEF InLimits
  <1>19. Sane(t)
    BY <1>1, <1>7, <1>8, <1>16, <1>17, <1>18, SaneStep
  <1>20. \A w \in VMs \ {v} : J[w] = I[w]
    BY <1>4 DEF Only
  <1> QED BY <1>6, <1>8, <1>16, <1>19, <1>20, WorldStep

\* The entries of u are those of w, or null, or good.
RefsFrom(s, w, u) ==
  \A j \in 1..Len(u) : \/ u[j] \in Nothing
                       \/ j \in 1..Len(w) /\ u[j] = w[j]
                       \/ Owned(s, u[j], "func")

\* A table with new contents, as long as before or within its limit.
LEMMA TableStep ==
  ASSUME NEW I, NEW J, NEW v \in VMs, Machines(I), World(I), NEW p \in 1..Len(I[v]),
         NEW i \in 1..Len(I[v][p].addrs), NEW u \in Seq(Addresses),
         Len(I[v][p].tdata[i]) <= Len(u),
         Len(u) = Len(I[v][p].tdata[i]) \/ Len(u) <= EntOf(I[v][p], i).max,
         RefsFrom(I[v], I[v][p].tdata[i], u), J = WithTable(I, v, p, i, u)
  PROVE  Machines(J) /\ World(J) /\ Grown(I[v], J[v])
  <1>1. I \in [VMs -> Seq(Instances)] /\ Machine(I[v]) /\ Sane(I[v])
    BY DEF Machines, World
  <1>2. \A q \in 1..Len(I[v]) : I[v][q] \in Instances /\ Shaped(I[v][q])
    BY <1>1, MachineFacts
  <1>3. i \in 1..Len(I[v][p].tdata)
    BY <1>2, InstFacts
  <1>4. /\ Only(I, J, v)
        /\ SameStates(I, J, v) /\ SameAddrs(I, J, v) /\ SamePages(I, J, v)
        /\ SameElements(I, J, v) /\ SameData(I, J, v)
        /\ TablePut(I, J, v, p, i, u)
    BY <1>1, <1>3, PutTable
  <1>5. SameLens(I, J, v)
    BY <1>4 DEF SameAddrs, SamePages, SameElements, SameData, SameLens, TablePut
  <1>6. Machines(J)
    BY <1>4, <1>5, ShapeStays
  <1>7. Machine(J[v]) /\ NewAddrs(I[v], J[v])
    BY <1>4, <1>6, SameNewAddrs DEF Machines
  <1>8. PICK s, t : s = I[v] /\ t = J[v]
    OBVIOUS
  <1>9. Len(t) = Len(s) /\ Len(s) \in Nat
    BY <1>1, <1>4, <1>8, MachineFacts DEF Only
  <1>10. \A q \in 1..Len(s) : /\ t[q].mod = s[q].mod /\ t[q].addrs = s[q].addrs
                              /\ t[q].pages = s[q].pages
    BY <1>4, <1>8 DEF Only, SameAddrs, SamePages
  <1>11. \A q \in 1..Len(s) : \A j \in 1..Len(s[q].addrs) :
           t[q].tdata[j] = IF q = p /\ j = i THEN u ELSE s[q].tdata[j]
    BY <1>2, <1>4, <1>8, InstFacts, ZenonT(60) DEF TablePut
  <1>12. \A q \in 1..Len(s) : \A j \in 1..Len(s[q].addrs) :
           EntOf(t[q], j) = EntOf(s[q], j)
    BY <1>10 DEF EntOf
  <1>13. \A q \in 1..Len(s) : \A j \in 1..Len(s[q].addrs) :
           Size(t[q], j) = IF q = p /\ j = i /\ EntOf(s[q], j).kind # "mem" THEN Len(u)
                           ELSE Size(s[q], j)
    BY <1>10, <1>11, <1>12 DEF Size
  <1>14. \A q \in 1..Len(s) : \A j \in 1..Len(s[q].addrs) :
           /\ Size(s[q], j) \in Nat /\ EntOf(s[q], j).min \in Nat /\ EntOf(s[q], j).max \in Nat
           /\ EntOf(s[q], j).kind # "mem" => Size(s[q], j) = Len(s[q].tdata[j])
    BY <1>2, <1>8, InstFacts DEF Size
  <1>15. ASSUME NEW q \in 1..Len(s), NEW j \in 1..Len(s[q].addrs)
         PROVE  /\ Size(t[q], j) \in Nat /\ Size(s[q], j) <= Size(t[q], j)
                /\ Size(t[q], j) = Size(s[q], j) \/ Size(t[q], j) <= EntOf(s[q], j).max
    <2>1. Size(s[q], j) \in Nat
      BY <1>14
    <2>u. Len(u) \in Nat /\ Len(I[v][p].tdata[i]) \in Nat
      <3>1. Len(u) \in Nat
        OBVIOUS
      <3>2. I[v][p] \in Instances /\ Shaped(I[v][p])
        BY <1>2
      <3> QED BY <3>1, <3>2, InstFacts
    <2>2. CASE q = p /\ j = i /\ EntOf(s[q], j).kind # "mem"
      <3>1. Size(t[q], j) = Len(u)
        BY <1>13, <2>2
      <3>2. Size(s[q], j) = Len(I[v][p].tdata[i])
        BY <1>8, <1>14, <2>2
      <3>3. (Len(u) = Len(I[v][p].tdata[i]) \/ Len(u) <= EntOf(s[q], j).max)
        BY <1>8, <2>2
      <3> QED BY <2>1, <2>u, <3>1, <3>2, <3>3
    <2>3. CASE ~(q = p /\ j = i /\ EntOf(s[q], j).kind # "mem")
      <3>1. Size(t[q], j) = Size(s[q], j)
        BY <1>13, <2>3
      <3> QED BY <2>1, <3>1
    <2> QED BY <2>2, <2>3
  <1>16. Grown(s, t)
    BY <1>9, <1>10, <1>15 DEF Grown
  <1>17. NewRefs(s, t)
    <2> SUFFICES ASSUME NEW q \in 1..Len(s), NEW k \in 1..Len(s[q].addrs),
                        NEW j \in 1..Len(t[q].tdata[k])
                 PROVE  \/ t[q].tdata[k][j] \in Nothing
                        \/ /\ q \in 1..Len(s) /\ j \in 1..Len(s[q].tdata[k])
                           /\ t[q].tdata[k][j] = s[q].tdata[k][j]
                        \/ Owned(s, t[q].tdata[k][j], "func")
      BY <1>9, <1>10 DEF NewRefs
    <2>1. CASE q = p /\ k = i
      <3>1. t[q].tdata[k] = u /\ s[q].tdata[k] = I[v][p].tdata[i]
        BY <1>8, <1>11, <2>1
      <3> QED BY <1>8, <3>1 DEF RefsFrom
    <2>2. CASE ~(q = p /\ k = i)
      <3>1. t[q].tdata[k] = s[q].tdata[k]
        BY <1>11, <2>2
      <3> QED BY <3>1
    <2> QED BY <2>1, <2>2
  <1>18. Within(t)
    <2> SUFFICES ASSUME NEW q \in 1..Len(s), NEW j \in 1..Len(s[q].addrs)
                 PROVE  InLimits(t[q], j)
      BY <1>9, <1>10 DEF Within
    <2>1. InLimits(s[q], j)
      BY <1>1, <1>8 DEF Sane, Within
    <2>2. /\ EntOf(t[q], j) = EntOf(s[q], j)
          /\ Size(s[q], j) \in Nat /\ EntOf(s[q], j).min \in Nat /\ EntOf(s[q], j).max \in Nat
      BY <1>12, <1>14
    <2>3. /\ Size(t[q], j) \in Nat /\ Size(s[q], j) <= Size(t[q], j)
          /\ Size(t[q], j) = Size(s[q], j) \/ Size(t[q], j) <= EntOf(s[q], j).max
      BY <1>15
    <2> QED BY <2>1, <2>2, <2>3 DEF InLimits
  <1>19. Sane(t)
    BY <1>1, <1>7, <1>8, <1>16, <1>17, <1>18, SaneStep
  <1>20. \A w \in VMs \ {v} : J[w] = I[w]
    BY <1>4 DEF Only
  <1> QED BY <1>6, <1>8, <1>16, <1>19, <1>20, WorldStep

\* A new instance.
Blank(x) ==
  \A i \in 1..Len(x.addrs) :
    /\ x.addrs[i] = NULL /\ InLimits(x, i)
    /\ \A j \in 1..Len(x.tdata[i]) : x.tdata[i][j] = nullref

\* A new instance is blank.
LEMMA NewInst ==
  ASSUME NEW m \in Mods, NEW x, x = module_inst_new(m)
  PROVE  /\ x \in Instances /\ Shaped(x) /\ x.mod = m /\ x.state = "uninitialized"
         /\ Blank(x) /\ NoData(x)
  <1>1. PICK es : es = Desc[m].ents
    OBVIOUS
  <1>2. /\ es \in Seq(Entities) /\ Desc[m].elements \in Seq(Elements)
        /\ Desc[m].data \in Seq(Segments)
        /\ \A i \in 1..Len(es) :
             /\ es[i].min \in Nat /\ es[i].max \in Nat /\ es[i].min <= es[i].max
             /\ es[i].kind = "mem" => es[i].max <= WASM_MEM_MAX_PAGES
    BY <1>1, DescFacts
  <1>3. /\ x.mod = m /\ x.state = "uninitialized"
        /\ x.addrs = [i \in 1..Len(es) |-> NULL]
        /\ x.pages = [i \in 1..Len(es) |->
                        IF es[i].kind = "mem" /\ ~Imported(es[i])
                          THEN es[i].min % WASM_MEM_MAX_PAGES ELSE 0]
        /\ x.tdata = [i \in 1..Len(es) |->
                        IF es[i].kind = "tab" /\ ~Imported(es[i])
                          THEN [j \in 1..es[i].min |-> nullref] ELSE << >>]
        /\ x.dropped_elements = [i \in 1..Len(Desc[m].elements) |-> FALSE]
        /\ x.dropped_data = [i \in 1..Len(Desc[m].data) |-> FALSE]
    BY <1>1, <1>2 DEF module_inst_new
  <1>4. x.addrs \in Seq(Addresses) /\ Len(x.addrs) = Len(es)
    BY <1>2, <1>3 DEF NULL, Addresses
  <1>5. x.pages \in Seq(Nat) /\ Len(x.pages) = Len(es)
    <2>1. \A n \in Nat : n % WASM_MEM_MAX_PAGES \in Nat
      BY PagesAssumption
    <2>2. ASSUME NEW i \in 1..Len(es) PROVE x.pages[i] \in Nat
      <3>1. es[i].min % WASM_MEM_MAX_PAGES \in Nat
        BY <1>2, <2>1
      <3> QED BY <1>3, <3>1
    <2>3. x.pages = [i \in 1..Len(es) |-> x.pages[i]]
      BY <1>3
    <2> QED BY <1>2, <2>2, <2>3
  <1>6. x.tdata \in Seq(Seq(Addresses)) /\ Len(x.tdata) = Len(es)
    <2>1. nullref \in Addresses
      BY DEF nullref, Addresses
    <2>2. \A n \in Nat : [j \in 1..n |-> nullref] \in Seq(Addresses)
      BY <2>1
    <2>3. << >> \in Seq(Addresses)
      OBVIOUS
    <2>4. \A i \in 1..Len(es) : x.tdata[i] \in Seq(Addresses)
      BY <1>2, <1>3, <2>2, <2>3
    <2> QED BY <1>2, <1>3, <2>4
  <1>7. /\ x.dropped_elements \in Seq(BOOLEAN)
        /\ Len(x.dropped_elements) = Len(Desc[m].elements)
    BY <1>2, <1>3
  <1>8. x.dropped_data \in Seq(BOOLEAN) /\ Len(x.dropped_data) = Len(Desc[m].data)
    BY <1>2, <1>3
  <1>9. x = [mod |-> x.mod, state |-> x.state, addrs |-> x.addrs, pages |-> x.pages,
             tdata |-> x.tdata, dropped_elements |-> x.dropped_elements,
             dropped_data |-> x.dropped_data]
    BY DEF module_inst_new
  <1>10. x \in Instances
    BY <1>3, <1>4, <1>5, <1>6, <1>7, <1>8, <1>9 DEF Instances
  <1>11. Shaped(x)
    BY <1>1, <1>3, <1>4, <1>5, <1>6, <1>7, <1>8 DEF Shaped
  <1>12. NoData(x)
    BY <1>3, <1>8 DEF NoData
  <1>13. ASSUME NEW i \in 1..Len(x.addrs)
         PROVE  /\ x.addrs[i] = NULL /\ InLimits(x, i)
                /\ \A j \in 1..Len(x.tdata[i]) : x.tdata[i][j] = nullref
    <2>1. i \in 1..Len(es) /\ EntOf(x, i) = es[i] /\ x.addrs[i] = NULL
      BY <1>1, <1>3, <1>4 DEF EntOf
    <2>2. /\ es[i].min \in Nat /\ es[i].max \in Nat /\ es[i].min <= es[i].max
          /\ es[i].kind = "mem" => es[i].max <= WASM_MEM_MAX_PAGES
      BY <1>2, <2>1
    <2>3. PICK w : w = [j \in 1..es[i].min |-> nullref]
      OBVIOUS
    <2>4. Len(w) = es[i].min /\ \A j \in 1..Len(w) : w[j] = nullref
      BY <2>2, <2>3
    <2>5. /\ x.pages[i] = IF es[i].kind = "mem" /\ ~Imported(es[i])
                             THEN es[i].min % WASM_MEM_MAX_PAGES ELSE 0
          /\ x.tdata[i] = IF es[i].kind = "tab" /\ ~Imported(es[i]) THEN w ELSE << >>
      BY <1>3, <2>1, <2>3
    <2>6. \A j \in 1..Len(x.tdata[i]) : x.tdata[i][j] = nullref
      BY <2>4, <2>5
    <2>7. InLimits(x, i)
      <3>1. CASE es[i].kind = "mem" /\ es[i].from = << >>
        <4>1. PICK e, d, h : e = es[i].min /\ d = es[i].max /\ h = WASM_MEM_MAX_PAGES
          OBVIOUS
        <4>2. e \in Nat /\ d \in Nat /\ h \in Nat \ {0} /\ e <= d /\ d <= h
          BY <2>2, <3>1, <4>1, PagesAssumption
        <4>3. e < h => e % h = e
          BY <4>2
        <4>4. e % h \in 0..(h - 1)
          BY <4>2
        <4>5. e = h => e % h = 0
          BY <4>2
        <4>6. (e <= e % h \/ e = h) /\ e % h <= d
          BY <4>2, <4>3, <4>4, <4>5
        <4>7. Size(x, i) = e % h
          BY <2>1, <2>5, <3>1, <4>1 DEF Size, Imported
        <4> QED BY <2>1, <3>1, <4>1, <4>6, <4>7 DEF InLimits, WrapsAround, Imported
      <3>2. CASE ~(es[i].kind = "mem" /\ es[i].from = << >>)
        BY <2>1, <2>2, <2>4, <2>5, <3>2 DEF InLimits, Size, Imported
      <3> QED BY <3>1, <3>2
    <2> QED BY <2>1, <2>6, <2>7
  <1> QED BY <1>3, <1>10, <1>11, <1>12, <1>13 DEF Blank

\* I with the instance x behind the ones of machine v.
Added(I, v, x) == [I EXCEPT ![v] = Append(@, x)]
IsAdded(I, J, v, x) ==
  /\ \A w \in VMs \ {v} : J[w] = I[w]
  /\ Len(J[v]) = Len(I[v]) + 1 /\ J[v][Len(I[v]) + 1] = x
  /\ \A p \in 1..Len(I[v]) : J[v][p] = I[v][p]

\* A blank instance at the end keeps every machine sane.
LEMMA AddStep ==
  ASSUME NEW I, NEW J, NEW v \in VMs, Machines(I), World(I), NEW m \in Mods,
         NEW x, x = module_inst_new(m), J = Added(I, v, x)
  PROVE  Machines(J) /\ World(J) /\ IsAdded(I, J, v, x)
  <1>1. I \in [VMs -> Seq(Instances)] /\ Machine(I[v]) /\ Sane(I[v])
    BY DEF Machines, World
  <1>2. x \in Instances /\ Shaped(x) /\ Blank(x)
    BY NewInst
  <1>3. PICK s, t : s = I[v] /\ t = Append(s, x)
    OBVIOUS
  <1>4. s \in Seq(Instances) /\ Len(s) \in Nat /\ \A p \in 1..Len(s) : s[p] \in Instances /\ Shaped(s[p])
    BY <1>1, <1>3, MachineFacts
  <1>5. /\ t \in Seq(Instances) /\ Len(t) = Len(s) + 1 /\ t[Len(s) + 1] = x
        /\ \A p \in 1..Len(s) : t[p] = s[p]
    BY <1>2, <1>3, <1>4
  <1>6. /\ J \in [VMs -> Seq(Instances)] /\ J[v] = t
        /\ \A w \in VMs \ {v} : J[w] = I[w]
    BY <1>1, <1>3, <1>5 DEF Added
  <1>7. \A p \in 1..Len(t) : p \in 1..Len(s) \/ (p = Len(s) + 1 /\ t[p] = x)
    BY <1>4, <1>5
  <1>8. Machine(t)
    BY <1>2, <1>4, <1>5, <1>7 DEF Machine
  <1>9. Machines(J)
    BY <1>6, <1>8 DEF Machines
  <1>10. Grown(s, t)
    <2>1. Len(s) <= Len(t)
      BY <1>4, <1>5
    <2>2. \A p \in 1..Len(s) : \A i \in 1..Len(s[p].addrs) : Size(s[p], i) <= Size(t[p], i)
      BY <1>4, <1>5, InstFacts
    <2> QED BY <1>5, <2>1, <2>2 DEF Grown
  <1>11. NewAddrs(s, t)
    BY <1>2, <1>5, <1>7 DEF NewAddrs, Blank
  <1>12. NewRefs(s, t)
    BY <1>2, <1>5, <1>7 DEF NewRefs, Blank, Nothing
  <1>13. Within(t)
    BY <1>1, <1>2, <1>3, <1>5, <1>7 DEF Within, Sane, Blank
  <1>14. Sane(t)
    BY <1>1, <1>3, <1>8, <1>10, <1>11, <1>12, <1>13, SaneStep
  <1>15. World(J)
    BY <1>6, <1>9, <1>14, WorldStep
  <1> QED BY <1>3, <1>5, <1>6, <1>9, <1>15 DEF IsAdded

\* Machines that lose all their instances.
Emptied(I, J, W) == J = [v \in VMs |-> IF v \in W THEN << >> ELSE I[v]]

\* So does dropping all instances of some machines.
LEMMA EmptyStep ==
  ASSUME NEW I, NEW J, NEW W, Machines(I), World(I), Emptied(I, J, W)
  PROVE  Machines(J) /\ World(J)
  <1>1. \A v \in VMs : I[v] \in Seq(Instances) /\ Machine(I[v]) /\ Sane(I[v])
    BY DEF Machines, World
  <1>2. Machine(<< >>) /\ Sane(<< >>)
    BY DEF Machine, Sane, Addressed, Within, TableRefs
  <1>3. \A v \in VMs : J[v] \in Seq(Instances) /\ Machine(J[v]) /\ Sane(J[v])
    <2> SUFFICES ASSUME NEW v \in VMs
                 PROVE  J[v] \in Seq(Instances) /\ Machine(J[v]) /\ Sane(J[v])
      OBVIOUS
    <2>1. J[v] = << >> \/ J[v] = I[v]
      BY DEF Emptied
    <2>2. << >> \in Seq(Instances)
      OBVIOUS
    <2> QED BY <1>1, <1>2, <2>1, <2>2
  <1>4. J \in [VMs -> Seq(Instances)]
    BY <1>3 DEF Emptied
  <1> QED BY <1>3, <1>4 DEF Machines, World

----------------------------------------------------------------------------
(***************************************************************************)
(* The reference counts.                                                   *)
(***************************************************************************)
LEMMA UsersFinite ==
  ASSUME NEW I, Machines(I), NEW vs \in SUBSET VMs, NEW m
  PROVE  IsFiniteSet(UsersOf(I, vs, m)) /\ Cardinality(UsersOf(I, vs, m)) \in Nat
  <1>1. IsFiniteSet(vs)
    BY VMsAssumption, FS_Subset
  <1>2. \A v \in vs : IsFiniteSet({v} \X DOMAIN I[v])
    <2> SUFFICES ASSUME NEW v \in vs PROVE IsFiniteSet({v} \X DOMAIN I[v])
      OBVIOUS
    <2>1. IsFiniteSet(DOMAIN I[v])
      <3>1. Len(I[v]) \in Int /\ DOMAIN I[v] = 1..Len(I[v])
        BY MachineFacts DEF Machines
      <3> QED BY <3>1, FS_Interval
    <2>2. IsFiniteSet({v})
      BY FS_Singleton
    <2> QED BY <2>1, <2>2, FS_Product
  <1>3. PICK T : T = {{v} \X DOMAIN I[v] : v \in vs}
    OBVIOUS
  <1>4. IsFiniteSet(T)
    <2>1. [v \in vs |-> {v} \X DOMAIN I[v]] \in Surjection(vs, T)
      BY <1>3 DEF Surjection
    <2> QED BY <1>1, <2>1, FS_Surjection
  <1>5. IsFiniteSet(UNION T)
    BY <1>2, <1>3, <1>4, FS_UNION
  <1>6. UsersOf(I, vs, m) \in SUBSET UNION T
    BY <1>3 DEF UsersOf
  <1>7. IsFiniteSet(UsersOf(I, vs, m))
    BY <1>5, <1>6, FS_Subset
  <1> QED BY <1>7, FS_CardinalityType

\* A user is a machine and a place in it.
LEMMA UserIs ==
  ASSUME NEW I, Machines(I), NEW vs \in SUBSET VMs, NEW m
  PROVE  UsersOf(I, vs, m) =
           {x \in VMs \X Nat : x[1] \in vs /\ x[2] \in 1..Len(I[x[1]]) /\ I[x[1]][x[2]].mod = m}
  <1>1. \A v \in VMs : DOMAIN I[v] = 1..Len(I[v]) /\ Len(I[v]) \in Nat
    BY MachineFacts DEF Machines
  <1>2. ASSUME NEW x \in UsersOf(I, vs, m)
        PROVE  /\ x \in VMs \X Nat /\ x[1] \in vs /\ x[2] \in 1..Len(I[x[1]])
               /\ I[x[1]][x[2]].mod = m
    <2>1. PICK v \in vs : x \in {v} \X DOMAIN I[v]
      BY DEF UsersOf
    <2>2. x = <<x[1], x[2]>> /\ x[1] = v /\ x[2] \in DOMAIN I[v]
      BY <2>1
    <2>3. x[2] \in Nat /\ x[2] \in 1..Len(I[v])
      BY <1>1, <2>2
    <2>4. I[x[1]][x[2]].mod = m
      BY DEF UsersOf
    <2> QED BY <2>2, <2>3, <2>4
  <1>3. ASSUME NEW x \in VMs \X Nat, x[1] \in vs, x[2] \in 1..Len(I[x[1]]),
               I[x[1]][x[2]].mod = m
        PROVE  x \in UsersOf(I, vs, m)
    <2>1. x \in {x[1]} \X DOMAIN I[x[1]]
      BY <1>1, <1>3
    <2>2. x \in UNION {{v} \X DOMAIN I[v] : v \in vs}
      BY <1>3, <2>1
    <2> QED BY <1>3, <2>2 DEF UsersOf
  <1> QED BY <1>2, <1>3

\* Nobody new where no module changes.
LEMMA SameUsers ==
  ASSUME NEW I, NEW J, NEW v \in VMs, Machines(I), Machines(J), Only(I, J, v), NEW m
  PROVE  UsersOf(J, VMs, m) = UsersOf(I, VMs, m)
  <1>1. \A w \in VMs : /\ Len(J[w]) = Len(I[w])
                       /\ \A p \in 1..Len(I[w]) : J[w][p].mod = I[w][p].mod
    BY DEF Only
  <1>2. \A x \in VMs \X Nat : x[1] \in VMs
    OBVIOUS
  <1>3. UsersOf(I, VMs, m) =
          {x \in VMs \X Nat : x[1] \in VMs /\ x[2] \in 1..Len(I[x[1]]) /\ I[x[1]][x[2]].mod = m}
    BY UserIs
  <1>4. UsersOf(J, VMs, m) =
          {x \in VMs \X Nat : x[1] \in VMs /\ x[2] \in 1..Len(J[x[1]]) /\ J[x[1]][x[2]].mod = m}
    BY UserIs
  <1> QED BY <1>1, <1>2, <1>3, <1>4

\* Counts do not depend on what is inside of instances.
LEMMA CountedSame ==
  ASSUME NEW I, NEW J, NEW v \in VMs, Machines(I), Machines(J), Only(I, J, v),
         NEW R, NEW M, NEW V, Counted(I, R, M, V)
  PROVE  Counted(J, R, M, V)
  <1>1. \A m \in Mods : R[m] = Cardinality(UsersOf(J, VMs, m))
    BY SameUsers DEF Counted
  <1>2. ASSUME NEW w \in VMs, NEW p \in 1..Len(J[w])
        PROVE  J[w][p].mod \in M /\ w \in V
    <2>1. p \in 1..Len(I[w]) /\ J[w][p].mod = I[w][p].mod
      BY DEF Only
    <2> QED BY <2>1 DEF Counted
  <1> QED BY <1>1, <1>2 DEF Counted

\* The counts with one more instance of m, and without those in W.
OneMore(R, m) == [R EXCEPT ![m] = @ + 1]
Without(R, I, W) == [m \in Mods |-> R[m] - Cardinality(UsersOf(I, W, m))]

\* One more instance of m.
LEMMA CountedAdded ==
  ASSUME NEW I, NEW J, NEW v \in VMs, Machines(I), Machines(J), NEW m \in Mods, NEW x,
         x.mod = m, IsAdded(I, J, v, x),
         NEW R \in [Mods -> Nat], NEW M, NEW V, Counted(I, R, M, V), m \in M, v \in V,
         NEW S, S = OneMore(R, m)
  PROVE  Counted(J, S, M, V) /\ S \in [Mods -> Nat]
  <1>1. \A w \in VMs : Len(I[w]) \in Nat
    BY MachineFacts DEF Machines
  <1>2. \A k \in Mods : S[k] = IF k = m THEN R[k] + 1 ELSE R[k]
    BY DEF OneMore
  <1>3. S \in [Mods -> Nat]
    BY DEF OneMore
  <1>4. PICK u : u = <<v, Len(I[v]) + 1>>
    OBVIOUS
  <1>5. ASSUME NEW k \in Mods
        PROVE  S[k] = Cardinality(UsersOf(J, VMs, k))
    <2>1. PICK A, B : A = UsersOf(I, VMs, k) /\ B = UsersOf(J, VMs, k)
      OBVIOUS
    <2>2. A = {y \in VMs \X Nat : y[1] \in VMs /\ y[2] \in 1..Len(I[y[1]]) /\ I[y[1]][y[2]].mod = k}
      BY <2>1, UserIs
    <2>3. B = {y \in VMs \X Nat : y[1] \in VMs /\ y[2] \in 1..Len(J[y[1]]) /\ J[y[1]][y[2]].mod = k}
      BY <2>1, UserIs
    <2>4. ASSUME NEW y \in VMs \X Nat
          PROVE  y \in B <=> y \in A \/ (k = m /\ y = u)
      <3>1. y = <<y[1], y[2]>> /\ y[1] \in VMs /\ y[2] \in Nat
        OBVIOUS
      <3>2. CASE y[1] # v
        <4>1. J[y[1]] = I[y[1]]
          BY <3>1, <3>2 DEF IsAdded
        <4>2. y # u
          BY <1>4, <3>2
        <4> QED BY <2>2, <2>3, <3>1, <4>1, <4>2
      <3>3. CASE y[1] = v /\ y[2] = Len(I[v]) + 1
        <4>1. y = u /\ y \notin A
          <5>1. y[2] \notin 1..Len(I[v])
            BY <1>1, <3>3
          <5>2. y = u
            BY <1>4, <3>1, <3>3
          <5> QED BY <2>2, <3>3, <5>1, <5>2
        <4>2. y[2] \in 1..Len(J[v]) /\ J[v][y[2]] = x
          BY <1>1, <3>3 DEF IsAdded
        <4> QED BY <2>3, <3>1, <3>3, <4>1, <4>2
      <3>4. CASE y[1] = v /\ y[2] # Len(I[v]) + 1
        <4>1. y # u
          BY <1>4, <3>4
        <4>2. y[2] \in 1..Len(J[v]) <=> y[2] \in 1..Len(I[v])
          BY <1>1, <3>1, <3>4 DEF IsAdded
        <4>3. y[2] \in 1..Len(I[v]) => J[v][y[2]] = I[v][y[2]]
          BY DEF IsAdded
        <4> QED BY <2>2, <2>3, <3>1, <3>4, <4>1, <4>2, <4>3
      <3> QED BY <3>2, <3>3, <3>4
    <2>5. IsFiniteSet(A) /\ Cardinality(A) \in Nat /\ Cardinality(A) = R[k]
      BY <2>1, UsersFinite DEF Counted
    <2>6. u \in VMs \X Nat /\ u \notin A
      <3>1. Len(I[v]) + 1 \in Nat /\ Len(I[v]) + 1 \notin 1..Len(I[v])
        BY <1>1
      <3> QED BY <1>4, <2>2, <3>1
    <2>7. CASE k = m
      <3>1. B = A \cup {u}
        BY <2>2, <2>3, <2>4, <2>6, <2>7
      <3>2. Cardinality(A \cup {u}) = Cardinality(A) + 1
        BY <2>5, <2>6, FS_AddElement
      <3> QED BY <1>2, <2>1, <2>5, <2>7, <3>1, <3>2
    <2>8. CASE k # m
      <3>1. B = A
        BY <2>2, <2>3, <2>4, <2>8
      <3> QED BY <1>2, <2>1, <2>5, <2>8, <3>1
    <2> QED BY <2>7, <2>8
  <1>6. ASSUME NEW w \in VMs, NEW p \in 1..Len(J[w])
        PROVE  J[w][p].mod \in M /\ w \in V
    <2>1. CASE p \in 1..Len(I[w])
      <3>1. J[w][p] = I[w][p]
        BY <2>1 DEF IsAdded
      <3> QED BY <2>1, <3>1 DEF Counted
    <2>2. CASE p \notin 1..Len(I[w])
      <3>1. w = v
        BY <2>2 DEF IsAdded
      <3>2. p = Len(I[v]) + 1
        BY <1>1, <2>2, <3>1 DEF IsAdded
      <3> QED BY <3>1, <3>2 DEF IsAdded
    <2> QED BY <2>1, <2>2
  <1> QED BY <1>3, <1>5, <1>6 DEF Counted

\* The machines W are dropped.
LEMMA CountedEmptied ==
  ASSUME NEW I, NEW J, NEW W \in SUBSET VMs, Machines(I), Machines(J), Emptied(I, J, W),
         NEW R \in [Mods -> Nat], NEW M, NEW V, Counted(I, R, M, V),
         NEW S, S = Without(R, I, W)
  PROVE  Counted(J, S, M, V \ W) /\ S \in [Mods -> Nat]
  <1>1. \A w \in VMs : J[w] = IF w \in W THEN << >> ELSE I[w]
    BY DEF Emptied
  <1>2. ASSUME NEW k \in Mods
        PROVE  S[k] = Cardinality(UsersOf(J, VMs, k)) /\ S[k] \in Nat
    <2>1. PICK A, B, C : /\ A = UsersOf(I, VMs, k) /\ B = UsersOf(J, VMs, k)
                         /\ C = UsersOf(I, W, k)
      OBVIOUS
    <2>2. A = {y \in VMs \X Nat : y[1] \in VMs /\ y[2] \in 1..Len(I[y[1]]) /\ I[y[1]][y[2]].mod = k}
      BY <2>1, UserIs
    <2>3. B = {y \in VMs \X Nat : y[1] \in VMs /\ y[2] \in 1..Len(J[y[1]]) /\ J[y[1]][y[2]].mod = k}
      BY <2>1, UserIs
    <2>4. C = {y \in VMs \X Nat : y[1] \in W /\ y[2] \in 1..Len(I[y[1]]) /\ I[y[1]][y[2]].mod = k}
      BY <2>1, UserIs
    <2>5. B = A \ C
      <3>1. ASSUME NEW y \in VMs \X Nat
            PROVE  y \in B <=> y \in A /\ y \notin C
        <4>1. y[1] \in VMs
          OBVIOUS
        <4>2. CASE y[1] \in W
          <5>1. J[y[1]] = << >>
            BY <1>1, <4>1, <4>2
          <5>2. ~(y[2] \in 1..Len(J[y[1]]))
            BY <5>1
          <5> QED BY <2>2, <2>3, <2>4, <4>2, <5>2
        <4>3. CASE y[1] \notin W
          <5>1. J[y[1]] = I[y[1]]
            BY <1>1, <4>1, <4>3
          <5> QED BY <2>2, <2>3, <2>4, <4>3, <5>1
        <4> QED BY <4>2, <4>3
      <3> QED BY <2>2, <2>3, <3>1
    <2>6. A \cap C = C
      BY <2>2, <2>4
    <2>7. IsFiniteSet(A) /\ Cardinality(A) \in Nat /\ Cardinality(A) = R[k]
      BY <2>1, UsersFinite DEF Counted
    <2>8. IsFiniteSet(B) /\ Cardinality(B) \in Nat
      BY <2>1, UsersFinite
    <2>9. Cardinality(B) = Cardinality(A) - Cardinality(C)
      <3>1. Cardinality(A \ C) = Cardinality(A) - Cardinality(A \cap C)
        BY <2>7, FS_Difference
      <3> QED BY <2>5, <2>6, <3>1
    <2>10. S[k] = R[k] - Cardinality(C)
      BY <2>1 DEF Without
    <2> QED BY <2>1, <2>7, <2>8, <2>9, <2>10
  <1>3. ASSUME NEW w \in VMs, NEW p \in 1..Len(J[w])
        PROVE  J[w][p].mod \in M /\ w \in V \ W
    <2>1. w \notin W
      <3> SUFFICES ASSUME w \in W PROVE FALSE
        OBVIOUS
      <3>1. J[w] = << >>
        BY <1>1
      <3> QED BY <3>1
    <2>2. J[w] = I[w]
      BY <1>1, <2>1
    <2> QED BY <2>1, <2>2 DEF Counted
  <1>4. S \in [Mods -> Nat]
    BY <1>2 DEF Without
  <1> QED BY <1>2, <1>3, <1>4 DEF Counted

----------------------------------------------------------------------------
(***************************************************************************)
(* The life of instances.                                                  *)
(***************************************************************************)
\* Of the instances of v, all but the one at n stay as they are, apart from
\* the contents of memories and tables.
Kept(I, J, v, n) ==
  \A p \in 1..Len(I[v]) : p # n =>
    /\ J[v][p].state = I[v][p].state /\ J[v][p].addrs = I[v][p].addrs
    /\ J[v][p].dropped_elements = I[v][p].dropped_elements
    /\ J[v][p].dropped_data = I[v][p].dropped_data

\* Between two calls.
LEMMA LivesIdle ==
  ASSUME NEW I, NEW c, NEW V, Lives(I, c, V), c.step \in {"ok", "err"},
         NEW d, NEW W, d.step \in {"ok", "err"}
  PROVE  Lives(I, d, W)
  BY DEF Lives, Constructing, Settled, Stopped, Steps, Crashes

\* What an instance has done it keeps where its fields stay.
LEMMA FinishedStays ==
  ASSUME NEW x, NEW y, Finished(x), y.state = x.state, y.mod = x.mod, y.addrs = x.addrs,
         y.dropped_elements = x.dropped_elements, y.dropped_data = x.dropped_data
  PROVE  Finished(y)
  BY DEF Finished, Whole, AllElements, AllData, ElementsDone, DataDone

\* Ready instances stay finished when nothing of theirs is undone.
LEMMA KeptReadies ==
  ASSUME NEW I, NEW J, NEW v \in VMs, Readies(I), Only(I, J, v), NEW n, Kept(I, J, v, n),
         n \in 1..Len(I[v]) => Finished(J[v][n])
  PROVE  Readies(J)
  <1> SUFFICES ASSUME NEW w \in VMs, NEW p \in 1..Len(J[w])
               PROVE  Finished(J[w][p])
    BY DEF Readies
  <1>1. p \in 1..Len(I[w]) /\ Finished(I[w][p])
    BY DEF Only, Readies
  <1>2. CASE w # v
    BY <1>1, <1>2 DEF Only
  <1>3. CASE w = v /\ p = n
    BY <1>1, <1>3
  <1>4. CASE w = v /\ p # n
    <2>1. /\ J[v][p].state = I[v][p].state /\ J[v][p].addrs = I[v][p].addrs
          /\ J[v][p].dropped_elements = I[v][p].dropped_elements
          /\ J[v][p].dropped_data = I[v][p].dropped_data
          /\ J[v][p].mod = I[v][p].mod
      BY <1>1, <1>4 DEF Kept, Only
    <2> QED BY <1>1, <1>4, <2>1, FinishedStays
  <1> QED BY <1>2, <1>3, <1>4

\* The construction goes on.
LEMMA LivesProgress ==
  ASSUME NEW I, NEW J, NEW c, NEW d, NEW V \in SUBSET VMs, Machines(I), Lives(I, c, V),
         c.step \in Steps, Only(I, J, c.vm), Kept(I, J, c.vm, Len(I[c.vm])),
         d.vm = c.vm, d.mod = c.mod, d.step \in Steps,
         Progress(J[c.vm][Len(I[c.vm])], d)
  PROVE  Lives(J, d, V)
  <1>1. PICK v, n : v = c.vm /\ n = Len(I[c.vm])
    OBVIOUS
  <1>2. v \in V /\ v \in VMs /\ c.mod \in Mods /\ I[v] # << >>
    BY <1>1 DEF Lives, Constructing
  <1>3. I[v] \in Seq(Instances) /\ n \in Nat
    BY <1>1, <1>2 DEF Machines
  <1>4. n \in 1..Len(I[v])
    BY <1>1, <1>2, <1>3
  <1>5. Len(J[v]) = n /\ Newest(J, d) = J[v][n]
    BY <1>1 DEF Newest, Only
  <1>6. J[v] # << >>
    BY <1>4, <1>5
  <1>7. J[v][n].state = "uninitialized"
    BY <1>1 DEF Progress
  <1>8. Constructing(J, d, V)
    BY <1>1, <1>2, <1>5, <1>6 DEF Constructing
  <1>9. Readies(J)
    <2>1. Finished(J[v][n])
      BY <1>7 DEF Finished
    <2> QED BY <1>1, <1>2, <2>1, KeptReadies DEF Lives
  <1>10. Settled(J, d)
    <2> SUFFICES ASSUME NEW w \in VMs, NEW p \in 1..Len(J[w]), J[w][p].state = "uninitialized"
                 PROVE  w = v /\ p = n
      BY <1>1, <1>5 DEF Settled
    <2>1. p \in 1..Len(I[w])
      BY <1>1, <1>2 DEF Only
    <2>2. w # v \/ p # n => I[w][p].state = "uninitialized"
      BY <1>1, <2>1 DEF Only, Kept
    <2>3. I[w][p].state = "uninitialized" => w = v /\ p = n
      BY <1>1, <2>1 DEF Lives, Settled, Steps, Crashes
    <2> QED BY <2>2, <2>3
  <1>11. Stopped(J, d)
    BY DEF Stopped, Steps, Crashes
  <1> QED BY <1>8, <1>9, <1>10, <1>11 DEF Lives

\* The construction ends.
LEMMA LivesEnd ==
  ASSUME NEW I, NEW J, NEW c, NEW d, NEW V \in SUBSET VMs, Machines(I), Lives(I, c, V),
         c.step \in Steps, Only(I, J, c.vm), Kept(I, J, c.vm, Len(I[c.vm])),
         d.step \in {"ok", "err"}, J[c.vm][Len(I[c.vm])].state # "uninitialized",
         Finished(J[c.vm][Len(I[c.vm])])
  PROVE  Lives(J, d, V)
  <1>1. PICK v, n : v = c.vm /\ n = Len(I[c.vm])
    OBVIOUS
  <1>2. v \in V /\ v \in VMs
    BY <1>1 DEF Lives, Constructing
  <1>3. Readies(J)
    BY <1>1, <1>2, KeptReadies DEF Lives
  <1>4. Settled(J, d)
    <2> SUFFICES ASSUME NEW w \in VMs, NEW p \in 1..Len(J[w]), J[w][p].state = "uninitialized"
                 PROVE  FALSE
      BY DEF Settled
    <2>1. p \in 1..Len(I[w])
      BY <1>1, <1>2 DEF Only
    <2>2. w # v \/ p # n
      BY <1>1
    <2>3. I[w][p].state = "uninitialized"
      BY <1>1, <2>1, <2>2 DEF Only, Kept
    <2>4. w = v /\ p = n
      BY <1>1, <2>1, <2>3 DEF Lives, Settled, Steps, Crashes
    <2> QED BY <2>2, <2>4
  <1>5. Constructing(J, d, V) /\ Stopped(J, d)
    BY DEF Constructing, Stopped, Steps, Crashes
  <1> QED BY <1>3, <1>4, <1>5 DEF Lives

\* The flags of dropped segments are set, never cleared.
MoreDropped(x, y) ==
  /\ Len(y.dropped_elements) = Len(x.dropped_elements)
  /\ Len(y.dropped_data) = Len(x.dropped_data)
  /\ \A i \in 1..Len(x.dropped_elements) : x.dropped_elements[i] => y.dropped_elements[i]
  /\ \A i \in 1..Len(x.dropped_data) : x.dropped_data[i] => y.dropped_data[i]

\* Code runs.
LEMMA LivesRun ==
  ASSUME NEW I, NEW J, NEW c, NEW V \in SUBSET VMs, Machines(I), Lives(I, c, V),
         c.step \in {"ok", "err", "start"}, NEW v \in VMs, Only(I, J, v),
         SameStates(I, J, v), SameAddrs(I, J, v),
         \A p \in 1..Len(I[v]) : MoreDropped(I[v][p], J[v][p])
  PROVE  Lives(J, c, V)
  <1>1. \A w \in VMs : \A p \in 1..Len(I[w]) :
          /\ J[w][p].mod = I[w][p].mod /\ J[w][p].state = I[w][p].state
          /\ J[w][p].addrs = I[w][p].addrs /\ MoreDropped(I[w][p], J[w][p])
    BY DEF Only, SameStates, SameAddrs, MoreDropped
  <1>2. \A w \in VMs : Len(J[w]) = Len(I[w])
    BY DEF Only
  <1>3. ASSUME NEW w \in VMs, NEW p \in 1..Len(I[w])
        PROVE  /\ Whole(I[w][p]) => Whole(J[w][p])
               /\ AllElements(I[w][p]) => AllElements(J[w][p])
               /\ AllData(I[w][p]) => AllData(J[w][p])
    <2>1. PICK x, y : x = I[w][p] /\ y = J[w][p]
      OBVIOUS
    <2>2. y.mod = x.mod /\ y.addrs = x.addrs /\ MoreDropped(x, y)
      BY <1>1, <2>1
    <2>3. Whole(x) => Whole(y)
      BY <2>2 DEF Whole
    <2>4. AllElements(x) => AllElements(y)
      BY <2>2 DEF AllElements, ElementsDone, MoreDropped
    <2>5. AllData(x) => AllData(y)
      BY <2>2 DEF AllData, DataDone, MoreDropped
    <2> QED BY <2>1, <2>3, <2>4, <2>5
  <1>4. Readies(J)
    BY <1>1, <1>2, <1>3 DEF Lives, Readies, Finished
  <1>5. Settled(J, c)
    BY <1>1, <1>2 DEF Lives, Settled
  <1>6. Stopped(J, c)
    BY DEF Stopped, Crashes
  <1>7. ASSUME c.step = "start"
        PROVE  c.vm \in V /\ c.mod \in Mods /\ J[c.vm] # << >> /\ Progress(Newest(J, c), c)
    <2>1. c.vm \in V /\ c.mod \in Mods /\ I[c.vm] # << >> /\ Progress(Newest(I, c), c)
      BY <1>7 DEF Lives, Constructing, Steps
    <2>2. PICK w, n : w = c.vm /\ n = Len(I[c.vm])
      OBVIOUS
    <2>3. w \in VMs /\ I[w] \in Seq(Instances)
      BY <2>1, <2>2 DEF Machines
    <2>4. n \in 1..Len(I[w])
      BY <2>1, <2>2, <2>3
    <2>5. J[w] # << >>
      BY <1>2, <2>2, <2>3, <2>4
    <2>6. Newest(J, c) = J[w][n] /\ Newest(I, c) = I[w][n]
      BY <1>2, <2>2, <2>3 DEF Newest
    <2>7. Progress(J[w][n], c)
      BY <1>1, <1>3, <1>7, <2>1, <2>3, <2>4, <2>6 DEF Progress
    <2> QED BY <2>1, <2>2, <2>5, <2>6, <2>7
  <1> QED BY <1>4, <1>5, <1>6, <1>7 DEF Lives, Constructing, Steps

\* Linking or running crashes; the instances are left alone.
LEMMA LivesCrash ==
  ASSUME NEW I, NEW c, NEW d, NEW V \in SUBSET VMs, Machines(I), Lives(I, c, V),
         c.step \in {"link", "start"} \/ c.vm \notin VMs, d.step \in Crashes, d.vm = c.vm
  PROVE  Lives(I, d, V)
  <1>1. Constructing(I, d, V) /\ Settled(I, d)
    BY DEF Constructing, Settled, Steps, Crashes
  <1>2. Stopped(I, d)
    <2> SUFFICES ASSUME c.vm \in VMs
                 PROVE  Ordered(Newest(I, d))
      BY DEF Stopped
    <2>1. Progress(Newest(I, c), c) /\ Newest(I, d) = Newest(I, c)
      BY DEF Lives, Constructing, Steps, Newest
    <2> QED BY <2>1 DEF Progress, Ordered
  <1> QED BY <1>1, <1>2 DEF Lives

\* A new instance is about to be linked.
LEMMA LivesAdded ==
  ASSUME NEW I, NEW J, NEW c, NEW d, NEW V \in SUBSET VMs, Machines(I), Lives(I, c, V),
         c.step \in {"ok", "err"}, NEW v \in V, NEW m \in Mods, NEW x, x = module_inst_new(m),
         IsAdded(I, J, v, x), d = Called(v, m, "link")
  PROVE  Lives(J, d, V)
  <1>1. I[v] \in Seq(Instances) /\ Len(I[v]) \in Nat
    BY DEF Machines
  <1>2. d.vm = v /\ d.mod = m /\ d.step = "link" /\ d.i = 1
    BY DEF Called
  <1>3. x.mod = m /\ x.state = "uninitialized" /\ NoData(x)
    BY NewInst
  <1>4. Len(Desc[m].ents) \in Nat
    <2>1. Desc[m].ents \in Seq(Entities)
      BY DescFacts
    <2> QED BY <2>1
  <1>5. Progress(x, d)
    <2>1. d.i <= Items(d) \/ Items(d) = 0
      BY <1>2, <1>4 DEF Items
    <2> QED BY <1>2, <1>3, <2>1 DEF Progress
  <1>6. J[v] # << >> /\ Newest(J, d) = x
    BY <1>1, <1>2 DEF IsAdded, Newest
  <1>7. Constructing(J, d, V)
    BY <1>2, <1>5, <1>6 DEF Constructing
  <1>8. \A w \in VMs : \A p \in 1..Len(J[w]) :
          \/ p \in 1..Len(I[w]) /\ J[w][p] = I[w][p]
          \/ w = v /\ p = Len(J[v]) /\ J[w][p] = x
    <2> SUFFICES ASSUME NEW w \in VMs, NEW p \in 1..Len(J[w])
                 PROVE  \/ p \in 1..Len(I[w]) /\ J[w][p] = I[w][p]
                        \/ w = v /\ p = Len(J[v]) /\ J[w][p] = x
      OBVIOUS
    <2>1. CASE w # v
      BY <2>1 DEF IsAdded
    <2>2. CASE w = v
      <3>1. Len(J[v]) = Len(I[v]) + 1
        BY DEF IsAdded
      <3>2. p \in 1..Len(I[v]) \/ p = Len(I[v]) + 1
        BY <1>1, <2>2, <3>1
      <3> QED BY <2>2, <3>1, <3>2 DEF IsAdded
    <2> QED BY <2>1, <2>2
  <1>9. \A w \in VMs : \A p \in 1..Len(I[w]) :
          I[w][p].state # "uninitialized" /\ Finished(I[w][p])
    BY DEF Lives, Settled, Readies, Steps, Crashes
  <1>10. Finished(x)
    BY <1>3 DEF Finished
  <1>11. Readies(J)
    BY <1>8, <1>9, <1>10 DEF Readies
  <1>12. Settled(J, d)
    BY <1>2, <1>8, <1>9 DEF Settled, Steps, Crashes
  <1>13. Stopped(J, d)
    BY <1>2 DEF Stopped, Crashes
  <1> QED BY <1>7, <1>11, <1>12, <1>13 DEF Lives

\* Between two calls, dropping machines leaves no instance half made.
LEMMA LivesEmptied ==
  ASSUME NEW I, NEW J, NEW c, NEW d, NEW V, Lives(I, c, V), c.step \in {"ok", "err"},
         NEW W, Emptied(I, J, W), d.step \in {"ok", "err"}, NEW U
  PROVE  Lives(J, d, U)
  <1>1. \A v \in VMs : J[v] = << >> \/ J[v] = I[v]
    BY DEF Emptied
  <1>2. \A p \in 1..Len(<< >>) : FALSE
    OBVIOUS
  <1>3. \A v \in VMs : \A p \in 1..Len(J[v]) : p \in 1..Len(I[v]) /\ J[v][p] = I[v][p]
    BY <1>1, <1>2
  <1>4. Readies(J)
    BY <1>3 DEF Lives, Readies
  <1>5. Settled(J, d)
    BY <1>3 DEF Lives, Settled, Steps, Crashes
  <1> QED BY <1>4, <1>5 DEF Lives, Constructing, Stopped, Steps, Crashes

----------------------------------------------------------------------------
(***************************************************************************)
(* The parts of the invariant after a step.                                *)
(***************************************************************************)
LEMMA InvNext ==
  ASSUME modules' \subseteq Mods, names' \in [Mods -> SUBSET Names],
         ref_count' \in [Mods -> Nat], vms' \subseteq VMs, call' \in Calls,
         Machines(instances'), World(instances'), Lives(instances', call', vms'),
         Counted(instances', ref_count', modules', vms'),
         Activations(instances', call', vms', frames', on'), NullCrash'
  PROVE  Inv'
  <1>1. Types'
    <2>1. instances' \in [VMs -> Seq(Instances)]
      BY DEF Machines
    <2>2. call'.step \in {"link", "global", "elem", "data", "start", "ok", "err"} \cup Crashes
      BY DEF Calls, Steps
    <2> QED BY <2>1, <2>2 DEF Types, RtTypeOK
  <1> QED BY <1>1 DEF Inv

----------------------------------------------------------------------------
(***************************************************************************)
(* Looking up.                                                             *)
(***************************************************************************)
\* A set of numbers has a least one, and a bounded one a greatest.
LEMMA LeastIn ==
  ASSUME NEW S \in SUBSET Nat, S # {}
  PROVE  Min(S) \in S /\ \A y \in S : Min(S) <= y
  <1>1. PICK R : R = {ss \in Nat \X Nat : ss[1] < ss[2]}
    OBVIOUS
  <1>2. IsWellFoundedOn(R, Nat)
    BY <1>1, NatLessThanWellFounded DEF OpToRel
  <1>3. PICK x \in S : \A y \in S : ~(<<y, x>> \in R)
    BY <1>2, WFMin
  <1>4. \A y \in S : x <= y
    <2> SUFFICES ASSUME NEW y \in S, y < x PROVE FALSE
      OBVIOUS
    <2>1. <<y, x>> \in Nat \X Nat /\ <<y, x>>[1] < <<y, x>>[2]
      OBVIOUS
    <2>2. <<y, x>> \in R
      BY <1>1, <2>1
    <2> QED BY <1>3, <2>2
  <1> QED BY <1>4 DEF Min

\* The greatest of a finite set of indices is one of them.
LEMMA GreatestIn ==
  ASSUME NEW n \in Nat, NEW S \in SUBSET (1..n), S # {}
  PROVE  Max(S) \in S
  <1>1. PICK T : T = {n - x : x \in S}
    OBVIOUS
  <1>2. T \in SUBSET Nat /\ T # {}
    <2>1. \A x \in S : n - x \in Nat
      OBVIOUS
    <2> QED BY <1>1, <2>1
  <1>3. Min(T) \in T /\ \A y \in T : Min(T) <= y
    BY <1>2, LeastIn
  <1>4. PICK x \in S : Min(T) = n - x
    BY <1>1, <1>3
  <1>5. \A y \in S : x >= y
    <2> SUFFICES ASSUME NEW y \in S PROVE x >= y
      OBVIOUS
    <2>1. n - y \in T
      BY <1>1
    <2>2. n - x <= n - y
      BY <1>3, <1>4, <2>1
    <2> QED BY <2>2
  <1> QED BY <1>5 DEF Max

\* What is found by name is an instance of the machine.
LEMMA FoundInst ==
  ASSUME Types, NEW v \in VMs, NEW name, vm_find_module_inst(v, name) # 0
  PROVE  vm_find_module_inst(v, name) \in 1..Len(instances[v])
  <1>1. PICK S : S = {p \in DOMAIN instances[v] : name \in names[instances[v][p].mod]}
    OBVIOUS
  <1>2. DOMAIN instances[v] = 1..Len(instances[v]) /\ Len(instances[v]) \in Nat
    BY MachineFacts DEF Types, Machines
  <1>3. S # {} /\ vm_find_module_inst(v, name) = Max(S)
    BY <1>1 DEF vm_find_module_inst
  <1>4. S \in SUBSET (1..Len(instances[v]))
    BY <1>1, <1>2
  <1> QED BY <1>2, <1>3, <1>4, GreatestIn

\* What is found as an export is an entity of that kind.
LEMMA FoundExport ==
  ASSUME NEW m \in Mods, NEW kind, NEW field, FindExport(m, kind, field) # 0
  PROVE  /\ FindExport(m, kind, field) \in 1..Len(Desc[m].ents)
         /\ Desc[m].ents[FindExport(m, kind, field)].kind = kind
  <1>1. PICK S : S = {i \in DOMAIN Desc[m].exports :
                        Desc[m].exports[i].kind = kind /\ Desc[m].exports[i].field = field}
    OBVIOUS
  <1>2. /\ Desc[m].exports \in Seq([kind : Kinds, field : STRING, at : Nat])
        /\ Desc[m].ents \in Seq(Entities)
    BY DescFacts
  <1>3. S \in SUBSET Nat
    BY <1>1, <1>2
  <1>4. S # {} /\ FindExport(m, kind, field) = Desc[m].exports[Min(S)].at
    BY <1>1 DEF FindExport
  <1>5. Min(S) \in S
    BY <1>3, <1>4, LeastIn
  <1>6. \A i \in DOMAIN Desc[m].exports :
          /\ Desc[m].exports[i].at \in DOMAIN Desc[m].ents
          /\ Desc[m].ents[Desc[m].exports[i].at].kind = Desc[m].exports[i].kind
    BY DescAssumption
  <1>7. /\ Desc[m].exports[Min(S)].at \in DOMAIN Desc[m].ents
        /\ Desc[m].ents[Desc[m].exports[Min(S)].at].kind = kind
    BY <1>1, <1>5, <1>6
  <1>8. DOMAIN Desc[m].ents = 1..Len(Desc[m].ents)
    BY <1>2
  <1> QED BY <1>4, <1>7, <1>8

\* The address of an entity that is set.
LEMMA SetAddress ==
  ASSUME NEW s, Machine(s), Sane(s), NEW p \in 1..Len(s), NEW i \in 1..Len(s[p].addrs),
         s[p].addrs[i] # NULL
  PROVE  /\ Meets(s, s[p].addrs[i], EntOf(s[p], i))
         /\ Owned(s, s[p].addrs[i], EntOf(s[p], i).kind)
         /\ s[p].addrs[i] \in Addresses
  <1>1. Meets(s, s[p].addrs[i], EntOf(s[p], i))
    BY DEF Sane, Addressed
  <1>2. s[p].addrs[i] \in Addresses
    BY MachineFacts, InstFacts
  <1> QED BY <1>1, <1>2 DEF Meets

----------------------------------------------------------------------------
(***************************************************************************)
(* The host's operations.                                                  *)
(***************************************************************************)
LEMMA InvFacts ==
  ASSUME Inv
  PROVE  /\ modules \subseteq Mods /\ names \in [Mods -> SUBSET Names]
         /\ ref_count \in [Mods -> Nat] /\ vms \subseteq VMs /\ call \in Calls
         /\ Machines(instances) /\ World(instances) /\ Lives(instances, call, vms)
         /\ Counted(instances, ref_count, modules, vms)
         /\ Activations(instances, call, vms, frames, on)
         /\ \A v \in VMs : Machine(instances[v]) /\ Sane(instances[v])
  BY DEF Inv, Types, RtTypeOK, World, Machines

\* The calls that the actions make are calls.
LEMMA CallTypes ==
  /\ NoCall \in Calls /\ NoCall.step = "ok" /\ NoCall.vm = "none"
  /\ \A v \in VMs, m \in Mods, step \in Steps \cup {"ok", "err"} \cup Crashes :
       Called(v, m, step) \in Calls /\ Called(v, m, step).step = step
  BY DEF NoCall, Calls, Called

\* Nothing runs when there is no activation.
LEMMA NoFrames ==
  ASSUME NEW I, NEW c, NEW V, NEW o
  PROVE  Activations(I, c, V, << >>, o)
  BY DEF Activations

\* Without a crash there is nothing to explain.
LEMMA NoCrash ==
  ASSUME call'.step # "crash"
  PROVE  NullCrash'
  BY DEF NullCrash

\* Nothing happens to the instances between two calls.
LEMMA Quiet ==
  ASSUME Inv, Idle, frames' = << >>, modules' \subseteq Mods,
         names' \in [Mods -> SUBSET Names], vms' \subseteq VMs,
         UNCHANGED <<instances, ref_count>>, call' \in Calls, call'.step \in {"ok", "err"},
         Counted(instances, ref_count, modules', vms')
  PROVE  Inv'
  <1>1. /\ Machines(instances') /\ World(instances') /\ ref_count' \in [Mods -> Nat]
        /\ Counted(instances', ref_count', modules', vms')
    BY InvFacts
  <1>2. Lives(instances', call', vms')
    <2>1. Lives(instances, call, vms) /\ call.step \in {"ok", "err"} /\ instances' = instances
      BY InvFacts DEF Idle
    <2> QED BY <2>1, LivesIdle
  <1>3. Activations(instances', call', vms', frames', on')
    BY NoFrames
  <1>4. NullCrash'
    BY NoCrash
  <1> QED BY <1>1, <1>2, <1>3, <1>4, InvNext

\* One lemma per action, or per group of actions that change the same state.
\* Adding, naming and dropping modules.
LEMMA RegisterStep ==
  ASSUME Inv, HostRegister
  PROVE  Inv'
  <1>1. frames = << >> /\ frames' = << >> /\ on' = on
    BY DEF HostRegister, thvars
  <1>2. /\ Counted(instances, ref_count, modules, vms) /\ modules \subseteq Mods
        /\ names \in [Mods -> SUBSET Names] /\ vms \subseteq VMs /\ Machines(instances)
        /\ ref_count \in [Mods -> Nat] /\ World(instances) /\ Lives(instances, call, vms)
    BY InvFacts
  <1>3. ASSUME NEW m \in Mods, runtime_module_add(m)
        PROVE  Inv'
    <2>1. /\ Idle /\ modules' = modules \cup {m} /\ call' = NoCall
          /\ names' = [names EXCEPT ![m] = {Desc[m].name}]
          /\ UNCHANGED <<ref_count, vms, instances>>
      BY <1>3 DEF runtime_module_add
    <2>2. Desc[m].name \in Names
      BY DescAssumption DEF Descriptions
    <2>3. names' \in [Mods -> SUBSET Names]
      BY <1>2, <2>1, <2>2
    <2>4. Counted(instances, ref_count, modules', vms')
      BY <1>2, <2>1 DEF Counted
    <2> QED BY <1>1, <1>2, <2>1, <2>3, <2>4, CallTypes, Quiet
  <1>4. ASSUME NEW m \in Mods, runtime_module_drop(m)
        PROVE  Inv'
    <2>1. /\ Idle /\ modules' = modules \ {m} /\ call' = NoCall /\ ref_count[m] = 0
          /\ names' = [names EXCEPT ![m] = {}]
          /\ UNCHANGED <<ref_count, vms, instances>>
      BY <1>4 DEF runtime_module_drop, module_drop
    <2>2. UsersOf(instances, VMs, m) = {}
      <3>1. Cardinality(UsersOf(instances, VMs, m)) = 0
        BY <1>2, <2>1 DEF Counted
      <3>2. IsFiniteSet(UsersOf(instances, VMs, m))
        BY <1>2, UsersFinite
      <3> QED BY <3>1, <3>2, FS_EmptySet
    <2>3. \A v \in VMs : \A p \in 1..Len(instances[v]) : instances[v][p].mod # m
      <3> SUFFICES ASSUME NEW v \in VMs, NEW p \in 1..Len(instances[v]), instances[v][p].mod = m
                   PROVE  FALSE
        OBVIOUS
      <3>1. PICK x : x = <<v, p>>
        OBVIOUS
      <3>2. p \in Nat
        OBVIOUS
      <3>3. x \in VMs \X Nat /\ x[1] = v /\ x[2] = p
        BY <3>1, <3>2
      <3>4. UsersOf(instances, VMs, m) =
              {y \in VMs \X Nat : /\ y[1] \in VMs /\ y[2] \in 1..Len(instances[y[1]])
                                  /\ instances[y[1]][y[2]].mod = m}
        BY <1>2, UserIs
      <3> QED BY <2>2, <3>3, <3>4
    <2>4. Counted(instances, ref_count, modules', vms')
      BY <1>2, <2>1, <2>3 DEF Counted
    <2>5. names' \in [Mods -> SUBSET Names] /\ modules' \subseteq Mods
      BY <1>2, <2>1
    <2> QED BY <1>1, <1>2, <2>1, <2>4, <2>5, CallTypes, Quiet
  <1>5. ASSUME NEW alias \in Aliases, module_register_name(alias[1], alias[2])
        PROVE  Inv'
    <2>1. alias[1] \in Mods /\ alias[2] \in Names
      BY DescAssumption
    <2>2. /\ Idle /\ call' = NoCall /\ UNCHANGED <<modules, ref_count, vms, instances>>
          /\ names' = [names EXCEPT ![alias[1]] = @ \cup {alias[2]}]
      BY <1>5 DEF module_register_name
    <2>3. names' \in [Mods -> SUBSET Names]
      BY <1>2, <2>1, <2>2
    <2> QED BY <1>1, <1>2, <2>2, <2>3, CallTypes, Quiet
  <1>6. ASSUME NEW v \in VMs, NEW m \in Mods, Instantiate(v, m)
        PROVE  Inv'
    <2>1. Idle /\ v \in vms /\ m \in modules /\ UNCHANGED <<modules, names, vms>>
      BY <1>6 DEF Instantiate
    <2>2. CASE /\ call' \in {Called(v, m, "ok"), Called(v, m, "err")}
               /\ UNCHANGED <<instances, ref_count>>
      <3>1. call' \in Calls /\ call'.step \in {"ok", "err"}
        BY <2>2, CallTypes
      <3> QED BY <1>1, <1>2, <2>1, <2>2, <3>1, Quiet
    <2>3. CASE /\ instances' = [instances EXCEPT ![v] = Append(@, module_inst_new(m))]
               /\ ref_count' = [ref_count EXCEPT ![m] = @ + 1]
               /\ call' = Called(v, m, "link")
      <3>1. PICK x : x = module_inst_new(m)
        OBVIOUS
      <3>2. instances' = Added(instances, v, x)
        BY <2>3, <3>1 DEF Added
      <3>3. Machines(instances') /\ World(instances') /\ IsAdded(instances, instances', v, x)
        BY <1>2, <3>1, <3>2, AddStep
      <3>4. x.mod = m
        BY <3>1, NewInst
      <3>5. /\ Counted(instances', ref_count', modules, vms)
            /\ ref_count' \in [Mods -> Nat]
        <4>1. ref_count' = OneMore(ref_count, m)
          BY <2>3 DEF OneMore
        <4> QED BY <1>2, <2>1, <3>3, <3>4, <4>1, CountedAdded
      <3>6. Lives(instances', call', vms)
        <4>1. call.step \in {"ok", "err"}
          BY <2>1 DEF Idle
        <4> QED BY <1>2, <2>1, <2>3, <3>1, <3>3, <4>1, LivesAdded
      <3>7. call' \in Calls /\ call'.step # "crash"
        BY <2>3, CallTypes DEF Steps
      <3>8. NullCrash'
        BY <3>7, NoCrash
      <3>9. Activations(instances', call', vms', frames', on')
        BY <1>1, NoFrames
      <3> QED BY <1>2, <2>1, <3>3, <3>5, <3>6, <3>7, <3>8, <3>9, InvNext
    <2> QED BY <1>6, <2>2, <2>3 DEF Instantiate
  <1> QED BY <1>3, <1>4, <1>5, <1>6 DEF HostRegister, Register

\* The machines W are dropped, and all modules or none.
LEMMA DropStep ==
  ASSUME Inv, Idle, frames' = << >>, NEW W \in SUBSET VMs, Emptied(instances, instances', W),
         ref_count' = Without(ref_count, instances, W),
         vms' = vms \ W, modules' = modules \/ (vms \subseteq W /\ modules' = {}),
         names' \in [Mods -> SUBSET Names], call' = NoCall
  PROVE  Inv'
  <1>1. /\ Counted(instances, ref_count, modules, vms) /\ modules \subseteq Mods
        /\ vms \subseteq VMs /\ Machines(instances) /\ World(instances)
        /\ ref_count \in [Mods -> Nat] /\ Lives(instances, call, vms)
    BY InvFacts
  <1>2. Machines(instances') /\ World(instances')
    BY <1>1, EmptyStep
  <1>3. Counted(instances', ref_count', modules, vms') /\ ref_count' \in [Mods -> Nat]
    BY <1>1, <1>2, CountedEmptied
  <1>4. Counted(instances', ref_count', modules', vms')
    <2>1. CASE modules' = modules
      BY <1>3, <2>1
    <2>2. CASE vms \subseteq W
      <3>1. vms' = {}
        BY <2>2
      <3>2. \A v \in VMs : \A p \in 1..Len(instances'[v]) : FALSE
        BY <1>3, <3>1 DEF Counted
      <3> QED BY <1>3, <3>2 DEF Counted
    <2> QED BY <2>1, <2>2
  <1>5. Lives(instances', call', vms')
    <2>1. call.step \in {"ok", "err"} /\ call'.step \in {"ok", "err"}
      BY CallTypes DEF Idle
    <2> QED BY <1>1, <2>1, LivesEmptied
  <1>6. Activations(instances', call', vms', frames', on')
    BY NoFrames
  <1>7. call' \in Calls /\ call'.step # "crash"
    BY CallTypes
  <1>8. NullCrash'
    BY <1>7, NoCrash
  <1>9. modules' \subseteq Mods /\ vms' \subseteq VMs
    BY <1>1
  <1> QED BY <1>2, <1>3, <1>4, <1>5, <1>6, <1>7, <1>8, <1>9, InvNext

\* No module is in use any more when all machines are dropped.
LEMMA NoneLeft ==
  ASSUME Inv, NEW m \in Mods
  PROVE  ref_count[m] - Cardinality(UsersOf(instances, vms, m)) = 0
  <1>1. /\ Counted(instances, ref_count, modules, vms) /\ vms \in SUBSET VMs
        /\ Machines(instances)
    BY InvFacts
  <1>2. PICK A, B : A = UsersOf(instances, VMs, m) /\ B = UsersOf(instances, vms, m)
    OBVIOUS
  <1>3. A = {y \in VMs \X Nat : /\ y[1] \in VMs /\ y[2] \in 1..Len(instances[y[1]])
                                /\ instances[y[1]][y[2]].mod = m}
    BY <1>1, <1>2, UserIs
  <1>4. B = {y \in VMs \X Nat : /\ y[1] \in vms /\ y[2] \in 1..Len(instances[y[1]])
                                /\ instances[y[1]][y[2]].mod = m}
    BY <1>1, <1>2, UserIs
  <1>5. \A y \in VMs \X Nat : y[2] \in 1..Len(instances[y[1]]) => y[1] \in vms
    BY <1>1 DEF Counted
  <1>6. A = B
    BY <1>1, <1>3, <1>4, <1>5
  <1>7. Cardinality(A) \in Nat /\ ref_count[m] = Cardinality(A)
    BY <1>1, <1>2, UsersFinite DEF Counted
  <1> QED BY <1>2, <1>6, <1>7

\* Adding and dropping machines, and runtime_drop.
LEMMA VmStep ==
  ASSUME Inv, HostVm
  PROVE  Inv'
  <1>1. frames' = << >>
    BY DEF HostVm
  <1>2. /\ Counted(instances, ref_count, modules, vms) /\ modules \subseteq Mods
        /\ names \in [Mods -> SUBSET Names] /\ vms \subseteq VMs /\ Machines(instances)
    BY InvFacts
  <1>3. ASSUME NEW v \in VMs, runtime_vm_new(v)
        PROVE  Inv'
    <2>1. /\ Idle /\ vms' = vms \cup {v} /\ call' = NoCall
          /\ UNCHANGED <<modules, names, ref_count, instances>>
      BY <1>3 DEF runtime_vm_new
    <2>2. Counted(instances, ref_count, modules', vms')
      BY <1>2, <2>1 DEF Counted
    <2> QED BY <1>1, <1>2, <2>1, <2>2, CallTypes, Quiet
  <1>4. ASSUME NEW v \in VMs, runtime_vm_drop(v)
        PROVE  Inv'
    <2>1. /\ Idle /\ vms' = vms \ {v} /\ call' = NoCall
          /\ instances' = [instances EXCEPT ![v] = << >>] /\ UNCHANGED <<modules, names>>
          /\ ref_count' = Without(ref_count, instances, {v})
      BY <1>4 DEF runtime_vm_drop, Users, UsersOf, Without
    <2>2. Emptied(instances, instances', {v})
      BY <1>2, <2>1 DEF Emptied, Machines
    <2> QED BY <1>1, <1>2, <2>1, <2>2, DropStep
  <1>5. ASSUME runtime_drop
        PROVE  Inv'
    <2>1. /\ Idle /\ vms' = {} /\ instances' = [v \in VMs |-> << >>]
          /\ ref_count' = Without(ref_count, instances, vms)
          /\ modules' = {} /\ names' = [m \in Mods |-> {}]
          /\ call' = IF \A m \in modules : ref_count'[m] = 0
                       THEN NoCall ELSE [NoCall EXCEPT !.step = "crash"]
      BY <1>5 DEF runtime_drop, Users, UsersOf, Without
    <2>2. \A m \in modules : ref_count'[m] = 0
      BY <1>2, <2>1, NoneLeft DEF Without
    <2>3. Emptied(instances, instances', vms)
      <3>1. ASSUME NEW v \in VMs, v \notin vms PROVE instances[v] = << >>
        <4>1. instances[v] \in Seq(Instances)
          BY <1>2 DEF Machines
        <4>2. ~(\E p \in 1..Len(instances[v]) : TRUE)
          BY <1>2, <3>1 DEF Counted
        <4> QED BY <4>1, <4>2
      <3> QED BY <2>1, <3>1 DEF Emptied
    <2>4. vms' = vms \ vms /\ vms \in SUBSET VMs
      BY <1>2, <2>1
    <2>5. names' \in [Mods -> SUBSET Names]
      BY <2>1
    <2> QED BY <1>1, <2>1, <2>2, <2>3, <2>4, <2>5, DropStep
  <1> QED BY <1>3, <1>4, <1>5 DEF HostVm

\* Resetting a thread touches no instance.
LEMMA ResetStep ==
  ASSUME Inv, NEW v \in VMs, thread_reset(v)
  PROVE  Inv'
  <1>1. /\ Idle /\ frames' = << >> /\ call' = NoCall
        /\ UNCHANGED <<modules, names, ref_count, vms, instances>>
    BY DEF thread_reset
  <1>2. /\ Counted(instances, ref_count, modules, vms) /\ modules \subseteq Mods
        /\ names \in [Mods -> SUBSET Names] /\ vms \subseteq VMs
    BY InvFacts
  <1> QED BY <1>1, <1>2, CallTypes, Quiet

----------------------------------------------------------------------------
(***************************************************************************)
(* Calls and running code.                                                 *)
(***************************************************************************)
\* What holds of the call under construction.
LEMMA StepFacts ==
  ASSUME Inv, call.step \in Steps
  PROVE  /\ call.vm \in vms /\ call.vm \in VMs /\ call.mod \in Mods
         /\ New \in 1..Len(instances[call.vm]) /\ Inst = Newest(instances, call)
         /\ Inst \in Instances /\ Shaped(Inst) /\ Progress(Inst, call)
         /\ Machine(instances[call.vm]) /\ Sane(instances[call.vm])
  <1>1. /\ call.vm \in vms /\ call.mod \in Mods /\ instances[call.vm] # << >>
        /\ Progress(Newest(instances, call), call)
    BY InvFacts DEF Lives, Constructing
  <1>2. call.vm \in VMs /\ Machine(instances[call.vm]) /\ Sane(instances[call.vm])
    BY <1>1, InvFacts
  <1>3. New \in 1..Len(instances[call.vm])
    <2>1. instances[call.vm] \in Seq(Instances)
      BY <1>2, MachineFacts
    <2> QED BY <1>1, <2>1 DEF New
  <1>4. Inst = Newest(instances, call)
    BY DEF Inst, New, Newest
  <1>5. Inst \in Instances /\ Shaped(Inst)
    BY <1>2, <1>3, MachineFacts DEF Inst
  <1> QED BY <1>1, <1>2, <1>3, <1>4, <1>5

\* Nothing runs in the middle of a construction, but a start function.
LEMMA NotRunning ==
  ASSUME Inv, call.step \in Steps, call.step # "start" \/ Desc[call.mod].start = 0
  PROVE  frames = << >>
  BY InvFacts DEF Activations, NoCall, Steps, Crashes

\* The counts and the registry stay, the instances change in machine v only.
LEMMA OneMachine ==
  ASSUME Inv, NEW v \in VMs, Only(instances, instances', v), Machines(instances'),
         World(instances'), UNCHANGED <<modules, names, vms, ref_count>>,
         call' \in Calls, Lives(instances', call', vms),
         Activations(instances', call', vms', frames', on'), NullCrash'
  PROVE  Inv'
  <1>1. /\ Counted(instances, ref_count, modules, vms) /\ modules \subseteq Mods
        /\ names \in [Mods -> SUBSET Names] /\ vms \subseteq VMs
        /\ ref_count \in [Mods -> Nat] /\ Machines(instances)
    BY InvFacts
  <1>2. Counted(instances', ref_count', modules', vms')
    <2>1. Counted(instances', ref_count, modules, vms)
      BY <1>1, CountedSame
    <2> QED BY <2>1
  <1>3. Lives(instances', call', vms')
    OBVIOUS
  <1> QED BY <1>1, <1>2, <1>3, InvNext

\* The instances stay.
LEMMA Unmoved ==
  ASSUME Inv, UNCHANGED <<modules, names, vms, ref_count, instances>>,
         call' \in Calls, Lives(instances, call', vms),
         Activations(instances, call', vms, frames', on'), NullCrash'
  PROVE  Inv'
  <1>1. /\ Counted(instances, ref_count, modules, vms) /\ modules \subseteq Mods
        /\ names \in [Mods -> SUBSET Names] /\ vms \subseteq VMs
        /\ ref_count \in [Mods -> Nat] /\ Machines(instances) /\ World(instances)
    BY InvFacts
  <1>2. /\ Counted(instances', ref_count', modules', vms') /\ Machines(instances')
        /\ World(instances') /\ Lives(instances', call', vms')
        /\ Activations(instances', call', vms', frames', on')
    BY <1>1
  <1> QED BY <1>1, <1>2, InvNext

\* One activation more, of a function that there is.
LEMMA PushActive ==
  ASSUME NEW I, NEW c, NEW V, NEW fs, NEW o, NEW a \in Addresses, Activations(I, c, V, fs, o),
         Owned(I[o], a, "func"), o \in V,
         \/ c = NoCall
         \/ c.step = "start" /\ o = c.vm /\ Desc[c.mod].start # 0,
         NEW gs, gs = Append(fs, a)
  PROVE  Activations(I, c, V, gs, o)
  <1>1. fs \in Seq(Addresses)
    BY DEF Activations
  <1>2. gs \in Seq(Addresses) /\ Len(gs) = Len(fs) + 1
    BY <1>1
  <1>3. \A n \in 1..Len(gs) : (n \in 1..Len(fs) /\ gs[n] = fs[n]) \/ gs[n] = a
    BY <1>1
  <1>4. \A n \in 1..Len(fs) : Owned(I[o], fs[n], "func")
    BY <1>1 DEF Activations
  <1> QED BY <1>2, <1>3, <1>4 DEF Activations

\* What the host finds by the names of a module and of an export is a function of
\* the machine.
LEMMA HostFunction ==
  ASSUME Inv, NEW v \in VMs, NEW name, NEW p, p = vm_find_module_inst(v, name), p # 0,
         instances[v][p].state = "ready",
         NEW field, NEW x, x = FindExport(instances[v][p].mod, "func", field), x # 0
  PROVE  /\ Owned(instances[v], instances[v][p].addrs[x], "func")
         /\ instances[v][p].addrs[x] \in Addresses
  <1>1. Types /\ Lives(instances, call, vms) /\ Machine(instances[v]) /\ Sane(instances[v])
    BY InvFacts DEF Inv
  <1>2. p \in 1..Len(instances[v])
    BY <1>1, FoundInst
  <1>3. instances[v][p] \in Instances /\ Shaped(instances[v][p])
    BY <1>1, <1>2, MachineFacts
  <1>4. /\ x \in 1..Len(instances[v][p].addrs)
        /\ EntOf(instances[v][p], x).kind = "func"
    <2>1. instances[v][p].mod \in Mods
      BY <1>3, InstFacts
    <2>2. /\ x \in 1..Len(Desc[instances[v][p].mod].ents)
          /\ Desc[instances[v][p].mod].ents[x].kind = "func"
      BY <2>1, FoundExport
    <2> QED BY <1>3, <2>2, InstFacts DEF EntOf
  <1>5. instances[v][p].addrs[x] # NULL
    <2>1. Finished(instances[v][p])
      BY <1>1, <1>2 DEF Lives, Readies
    <2> QED BY <1>4, <2>1 DEF Finished, Whole
  <1> QED BY <1>1, <1>2, <1>4, <1>5, SetAddress

\* A call of the host starts in a function of the machine.
LEMMA HostCallStep ==
  ASSUME Inv, NEW v \in VMs, NEW name, NEW field, HostCall(v, name, field)
  PROVE  Inv'
  <1>1. PICK p : p = vm_find_module_inst(v, name)
    OBVIOUS
  <1>2. PICK x : x = FindExport(instances[v][p].mod, "func", field)
    OBVIOUS
  <1>3. /\ Idle /\ frames = << >> /\ v \in vms /\ p # 0 /\ instances[v][p].state = "ready"
        /\ x # 0 /\ call' = NoCall /\ UNCHANGED <<modules, names, ref_count, vms, instances>>
        /\ \/ UNCHANGED <<frames, on>>
           \/ Push(v, v, instances[v][p].addrs[x]) /\ on' = v
    BY <1>1, <1>2 DEF HostCall
  <1>4. /\ Counted(instances, ref_count, modules, vms) /\ modules \subseteq Mods
        /\ names \in [Mods -> SUBSET Names] /\ vms \subseteq VMs /\ Types
        /\ Lives(instances, call, vms) /\ Machine(instances[v]) /\ Sane(instances[v])
    BY InvFacts DEF Inv
  <1>5. CASE UNCHANGED <<frames, on>>
    BY <1>3, <1>4, <1>5, CallTypes, Quiet
  <1>6. CASE Push(v, v, instances[v][p].addrs[x]) /\ on' = v
    <2>1. PICK a : a = instances[v][p].addrs[x]
      OBVIOUS
    <2>2. Owned(instances[v], a, "func") /\ a \in Addresses
      BY <1>1, <1>2, <1>3, <2>1, HostFunction
    <2>3. frames' = Append(<< >>, a) /\ on' = v
      BY <1>3, <1>6, <2>1 DEF Push
    <2>4. Activations(instances, NoCall, vms, frames', v)
      <3>1. Activations(instances, NoCall, vms, << >>, v)
        BY NoFrames
      <3> QED BY <1>3, <2>2, <2>3, <3>1, PushActive
    <2>5. Lives(instances, call', vms)
      <3>1. call.step \in {"ok", "err"} /\ call'.step \in {"ok", "err"}
        BY <1>3, CallTypes DEF Idle
      <3> QED BY <1>4, <3>1, LivesIdle
    <2>6. call' \in Calls /\ call'.step # "crash"
      BY <1>3, CallTypes
    <2>7. NullCrash'
      BY <2>6, NoCrash
    <2> QED BY <1>3, <2>3, <2>4, <2>5, <2>6, <2>7, Unmoved
  <1> QED BY <1>3, <1>5, <1>6

\* The start function of an instance under construction is one of its machine too.
LEMMA StartFunction ==
  ASSUME Inv, call.step = "start", Desc[call.mod].start # 0
  PROVE  /\ Owned(instances[call.vm], Inst.addrs[Desc[call.mod].start], "func")
         /\ Inst.addrs[Desc[call.mod].start] \in Addresses
  <1>1. /\ call.vm \in vms /\ call.vm \in VMs /\ call.mod \in Mods
        /\ New \in 1..Len(instances[call.vm])
        /\ Inst \in Instances /\ Shaped(Inst) /\ Progress(Inst, call)
        /\ Machine(instances[call.vm]) /\ Sane(instances[call.vm])
    BY StepFacts DEF Steps
  <1>2. PICK i, a : i = Desc[call.mod].start /\ a = Inst.addrs[i]
    OBVIOUS
  <1>3. Inst.mod = call.mod /\ Whole(Inst)
    BY <1>1 DEF Progress
  <1>4. i \in 1..Len(Inst.addrs) /\ EntOf(Inst, i).kind = "func"
    <2>1. i \in DOMAIN Desc[call.mod].ents /\ Desc[call.mod].ents[i].kind = "func"
      BY <1>1, <1>2, DescAssumption
    <2>2. Desc[call.mod].ents \in Seq(Entities)
      BY <1>1, DescFacts
    <2>3. Len(Inst.addrs) = Len(Desc[call.mod].ents)
      BY <1>1, <1>3, InstFacts
    <2> QED BY <1>3, <2>1, <2>2, <2>3 DEF EntOf
  <1>5. a # NULL
    BY <1>2, <1>3, <1>4 DEF Whole
  <1> QED BY <1>1, <1>2, <1>4, <1>5, SetAddress DEF Inst

\* A construction calls it.
LEMMA CallStartStep ==
  ASSUME Inv, CallStart
  PROVE  Inv'
  <1>1. /\ call.step = "start" /\ frames = << >> /\ Desc[call.mod].start # 0
        /\ frames' = Append(frames, Inst.addrs[Desc[call.mod].start]) /\ on' = call.vm
        /\ UNCHANGED <<modules, names, vms, instances, ref_count, call>>
    BY DEF CallStart, At, Push
  <1>2. /\ call.vm \in vms /\ call.vm \in VMs /\ call.mod \in Mods
    BY <1>1, StepFacts DEF Steps
  <1>3. PICK a : a = Inst.addrs[Desc[call.mod].start]
    OBVIOUS
  <1>4. Owned(instances[call.vm], a, "func") /\ a \in Addresses
    BY <1>1, <1>3, StartFunction
  <1>5. Activations(instances, call, vms, frames', call.vm)
    <2>1. Activations(instances, call, vms, << >>, call.vm)
      BY NoFrames
    <2>2. frames' = Append(<< >>, a)
      BY <1>1, <1>3
    <2> QED BY <1>1, <1>2, <1>4, <2>1, <2>2, PushActive
  <1>6. Lives(instances, call, vms) /\ call \in Calls
    BY InvFacts
  <1>7. NullCrash'
    <2>1. call'.step # "crash"
      BY <1>1
    <2> QED BY <2>1, NoCrash
  <1> QED BY <1>1, <1>5, <1>6, <1>7, Unmoved

\* A construction that fails, with nothing running any more.
LEMMA FailStep ==
  ASSUME Inv, call.step \in Steps, Fail, frames' = << >>, UNCHANGED <<modules, names, vms>>
  PROVE  Inv'
  <1>1. /\ call.vm \in VMs /\ New \in 1..Len(instances[call.vm]) /\ call.vm \in vms
        /\ Machines(instances) /\ World(instances) /\ Lives(instances, call, vms)
        /\ instances \in [VMs -> Seq(Instances)] /\ vms \in SUBSET VMs /\ call \in Calls
    BY StepFacts, InvFacts DEF Machines
  <1>2. PICK v, n : v = call.vm /\ n = New
    OBVIOUS
  <1>3. instances' = WithState(instances, v, n, "init_failed")
    BY <1>2 DEF Fail, WithState
  <1>4. /\ Only(instances, instances', v) /\ SameAddrs(instances, instances', v)
        /\ SamePages(instances, instances', v) /\ SameTables(instances, instances', v)
        /\ SameElements(instances, instances', v) /\ SameData(instances, instances', v)
        /\ StatePut(instances, instances', v, n, "init_failed")
    BY <1>1, <1>2, <1>3, PutState
  <1>5. SameLens(instances, instances', v)
    BY <1>4 DEF SameAddrs, SamePages, SameTables, SameElements, SameData, SameLens
  <1>6. Machines(instances') /\ World(instances')
    BY <1>1, <1>2, <1>4, <1>5, MarkStep
  <1>7. call' \in Calls /\ call'.step = "err"
    BY <1>1 DEF Fail, Calls
  <1>8. Lives(instances', call', vms)
    <2>1. Kept(instances, instances', v, n)
      BY <1>4 DEF Kept, StatePut, SameAddrs, SameElements, SameData
    <2>2. instances'[v][n].state = "init_failed"
      BY <1>1, <1>2, <1>4 DEF StatePut
    <2>3. Finished(instances'[v][n]) /\ instances'[v][n].state # "uninitialized"
      BY <2>2 DEF Finished
    <2>4. n = Len(instances[v])
      BY <1>2 DEF New
    <2> QED BY <1>1, <1>2, <1>4, <1>7, <2>1, <2>3, <2>4, LivesEnd
  <1>9. Activations(instances', call', vms', frames', on')
    BY NoFrames
  <1>10. NullCrash'
    BY <1>7, NoCrash
  <1> QED BY <1>1, <1>2, <1>4, <1>6, <1>7, <1>8, <1>9, <1>10, OneMachine DEF Fail

\* A construction that succeeds.
LEMMA ReadyStep ==
  ASSUME Inv, call.step = "start", Ready, frames' = << >>, UNCHANGED <<modules, names, vms>>
  PROVE  Inv'
  <1>1. /\ call.vm \in VMs /\ New \in 1..Len(instances[call.vm]) /\ call.vm \in vms
        /\ Machines(instances) /\ World(instances) /\ Lives(instances, call, vms)
        /\ instances \in [VMs -> Seq(Instances)] /\ vms \in SUBSET VMs /\ call \in Calls
        /\ Progress(Inst, call)
    BY StepFacts, InvFacts DEF Machines, Steps
  <1>2. PICK v, n : v = call.vm /\ n = New
    OBVIOUS
  <1>3. instances' = WithState(instances, v, n, "ready")
    BY <1>2 DEF Ready, WithState
  <1>4. /\ Only(instances, instances', v) /\ SameAddrs(instances, instances', v)
        /\ SamePages(instances, instances', v) /\ SameTables(instances, instances', v)
        /\ SameElements(instances, instances', v) /\ SameData(instances, instances', v)
        /\ StatePut(instances, instances', v, n, "ready")
    BY <1>1, <1>2, <1>3, PutState
  <1>5. SameLens(instances, instances', v)
    BY <1>4 DEF SameAddrs, SamePages, SameTables, SameElements, SameData, SameLens
  <1>6. Machines(instances') /\ World(instances')
    BY <1>1, <1>2, <1>4, <1>5, MarkStep
  <1>7. call' \in Calls /\ call'.step = "ok"
    BY <1>1 DEF Ready, Calls
  <1>8. Lives(instances', call', vms)
    <2>1. Kept(instances, instances', v, n)
      BY <1>4 DEF Kept, StatePut, SameAddrs, SameElements, SameData
    <2>2. instances'[v][n].state = "ready"
      BY <1>1, <1>2, <1>4 DEF StatePut
    <2>3. Finished(instances'[v][n])
      <3>1. PICK x, y : x = instances[v][n] /\ y = instances'[v][n]
        OBVIOUS
      <3>2. /\ y.mod = x.mod /\ y.addrs = x.addrs /\ y.dropped_elements = x.dropped_elements
            /\ y.dropped_data = x.dropped_data
        BY <1>1, <1>2, <1>4, <3>1 DEF Only, SameAddrs, SameElements, SameData
      <3>3. Whole(x) /\ AllElements(x) /\ AllData(x)
        BY <1>1, <1>2, <3>1 DEF Progress, Inst
      <3>4. Whole(y) /\ AllElements(y) /\ AllData(y)
        BY <3>2, <3>3 DEF Whole, AllElements, ElementsDone, AllData, DataDone
      <3> QED BY <3>1, <3>4 DEF Finished
    <2>4. n = Len(instances[v])
      BY <1>2 DEF New
    <2> QED BY <1>1, <1>2, <1>4, <1>7, <2>1, <2>2, <2>3, <2>4, LivesEnd DEF Steps
  <1>9. Activations(instances', call', vms', frames', on')
    BY NoFrames
  <1>10. NullCrash'
    BY <1>7, NoCrash
  <1> QED BY <1>1, <1>2, <1>4, <1>6, <1>7, <1>8, <1>9, <1>10, OneMachine DEF Ready

\* Where code runs.
LEMMA RunFacts ==
  ASSUME Inv, Running
  PROVE  /\ on \in vms /\ on \in VMs /\ frames \in Seq(Addresses) /\ Len(frames) >= 1
         /\ \A n \in 1..Len(frames) : Owned(instances[on], frames[n], "func")
         /\ \/ call = NoCall
            \/ call.step = "start" /\ on = call.vm /\ Desc[call.mod].start # 0
         /\ call.step \in {"ok", "start"}
         /\ frames[Len(frames)][1] \in 1..Len(instances[on])
         /\ Here \in Instances /\ Shaped(Here)
         /\ Machine(instances[on]) /\ Sane(instances[on])
         /\ UNCHANGED <<modules, names, vms>>
  <1>1. frames # << >> /\ call.step \notin Crashes /\ UNCHANGED <<modules, names, vms>>
    BY DEF Running
  <1>2. /\ on \in vms /\ on \in VMs /\ frames \in Seq(Addresses)
        /\ \A n \in 1..Len(frames) : Owned(instances[on], frames[n], "func")
        /\ \/ call = NoCall
           \/ call.step = "start" /\ on = call.vm /\ Desc[call.mod].start # 0
    BY <1>1, InvFacts DEF Activations
  <1>3. Len(frames) >= 1 /\ Len(frames) \in 1..Len(frames)
    BY <1>1, <1>2
  <1>4. frames[Len(frames)][1] \in 1..Len(instances[on])
    BY <1>2, <1>3 DEF Owned
  <1>5. Machine(instances[on]) /\ Sane(instances[on])
    BY <1>2, InvFacts
  <1>6. Here \in Instances /\ Shaped(Here)
    BY <1>4, <1>5, MachineFacts DEF Here
  <1>7. call.step \in {"ok", "start"}
    BY <1>2, CallTypes
  <1> QED BY <1>1, <1>2, <1>3, <1>4, <1>5, <1>6, <1>7

\* A trap ends all activations.
LEMMA UnwindStep ==
  ASSUME Inv, Running, Unwind
  PROVE  Inv'
  <1>1. frames' = << >> /\ UNCHANGED <<modules, names, vms>>
    BY RunFacts DEF Unwind
  <1>2. CASE call.step = "start"
    BY <1>1, <1>2, FailStep DEF Unwind, Steps
  <1>3. CASE call.step # "start"
    <2>1. UNCHANGED <<instances, ref_count, call>>
      BY <1>3 DEF Unwind
    <2>2. Lives(instances, call', vms) /\ call' \in Calls
      BY <2>1, InvFacts
    <2>3. Activations(instances, call', vms, frames', on')
      BY <1>1, NoFrames
    <2>4. NullCrash'
      BY <2>1, NoCrash DEF Running, Crashes
    <2> QED BY <1>1, <2>1, <2>2, <2>3, <2>4, Unmoved
  <1> QED BY <1>2, <1>3

\* A call enters a function of the machine.
LEMMA EnterStep ==
  ASSUME Inv, Running, NEW a \in Addresses, Owned(instances[on], a, "func"), Enter(a)
  PROVE  Inv'
  <1>1. CASE Unwind
    BY <1>1, UnwindStep
  <1>2. CASE Push(Tid, on, a) /\ UNCHANGED <<on, instances, ref_count, call>>
    <2>1. frames' = Append(frames, a) /\ on' = on
      BY <1>2 DEF Push
    <2>2. Activations(instances, call, vms, frames, on) /\ call \in Calls
          /\ Lives(instances, call, vms)
      BY InvFacts
    <2>3. Activations(instances, call, vms, frames', on)
      BY <2>1, <2>2, RunFacts, PushActive
    <2>4. NullCrash'
      BY <1>2, NoCrash DEF Running, Crashes
    <2>5. UNCHANGED <<modules, names, vms>>
      BY RunFacts
    <2> QED BY <1>2, <2>1, <2>2, <2>3, <2>4, <2>5, Unmoved
  <1> QED BY <1>1, <1>2 DEF Enter

\* What the running code can name, and what its tables hold.
LEMMA NamedFacts ==
  ASSUME Inv, Running, NEW kind, NEW i \in Named(kind)
  PROVE  /\ i \in 1..Len(Here.addrs) /\ Here.addrs[i] \in Addresses
         /\ Owned(instances[on], Here.addrs[i], kind)
  <1>1. i \in DOMAIN Here.addrs /\ EntOf(Here, i).kind = kind /\ Here.addrs[i] # NULL
    BY DEF Named, EntOf
  <1>2. i \in 1..Len(Here.addrs)
    BY <1>1, RunFacts, InstFacts
  <1>3. PICK s, p : s = instances[on] /\ p = frames[Len(frames)][1]
    OBVIOUS
  <1>4. Machine(s) /\ Sane(s) /\ p \in 1..Len(s) /\ Here = s[p]
    BY <1>3, RunFacts DEF Here
  <1>5. Owned(s, s[p].addrs[i], EntOf(s[p], i).kind) /\ s[p].addrs[i] \in Addresses
    BY <1>1, <1>2, <1>4, SetAddress
  <1> QED BY <1>1, <1>2, <1>3, <1>4, <1>5

\* What running code finds in a table is a function or null.
LEMMA ContentFacts ==
  ASSUME Inv, Running, NEW i \in Named("tab")
  PROVE  /\ Table(i) \in Seq(Addresses)
         /\ \A a \in Contents(i) : a \in Addresses /\ (a \notin Nothing => Owned(instances[on], a, "func"))
  <1>1. PICK s, t : s = instances[on] /\ t = Here.addrs[i]
    OBVIOUS
  <1>2. t[1] \in 1..Len(s) /\ t[2] \in 1..Len(s[t[1]].addrs)
    BY <1>1, NamedFacts DEF Owned
  <1>3. Machine(s) /\ Sane(s)
    BY <1>1, RunFacts
  <1>4. Table(i) = s[t[1]].tdata[t[2]]
    BY <1>1 DEF Table
  <1>5. s[t[1]].tdata[t[2]] \in Seq(Addresses)
    <2>1. s[t[1]] \in Instances /\ Shaped(s[t[1]])
      BY <1>2, <1>3, MachineFacts
    <2> QED BY <1>2, <2>1, InstFacts
  <1>6. ASSUME NEW j \in DOMAIN Table(i), Table(i)[j] \notin Nothing
        PROVE  Owned(s, Table(i)[j], "func")
    <2>1. j \in 1..Len(s[t[1]].tdata[t[2]])
      BY <1>4, <1>5
    <2> QED BY <1>2, <1>3, <1>4, <1>6, <2>1 DEF Sane, TableRefs
  <1>7. \A j \in DOMAIN Table(i) : Table(i)[j] \in Addresses
    BY <1>4, <1>5
  <1> QED BY <1>1, <1>4, <1>5, <1>6, <1>7 DEF Contents

\* A local or a global holds a function or nothing.
LEMMA AnyRefFacts ==
  ASSUME Inv, NEW v \in VMs, NEW a \in AnyRefs(v)
  PROVE  a \in Addresses /\ (a \in Nothing \/ Owned(instances[v], a, "func"))
  <1>1. CASE a \in Nothing
    BY <1>1 DEF Nothing, NULL, nullref, Addresses
  <1>2. CASE a \notin Nothing
    <2>1. /\ a \in UNION {{p} \X DOMAIN instances[v][p].addrs : p \in DOMAIN instances[v]}
          /\ Defines(v, a, "func")
      BY <1>2 DEF AnyRefs, Nothing
    <2>2. PICK p \in DOMAIN instances[v] : a \in {p} \X DOMAIN instances[v][p].addrs
      BY <2>1
    <2>3. a[1] = p /\ a[2] \in DOMAIN instances[v][p].addrs /\ a = <<a[1], a[2]>>
      BY <2>2
    <2>4. Machine(instances[v])
      BY InvFacts DEF Machines
    <2>5. p \in 1..Len(instances[v])
      BY <2>4 DEF Machine
    <2>6. instances[v][p].addrs \in Seq(Addresses)
      BY <2>4, <2>5, MachineFacts, InstFacts
    <2>7. a[2] \in 1..Len(instances[v][p].addrs)
      BY <2>3, <2>6
    <2>8. p \in Nat /\ a[2] \in Nat
      BY <2>5, <2>7
    <2> QED BY <2>1, <2>3, <2>5, <2>7, <2>8
            DEF Addresses, Owned, Defines, Ent, EntAt, EntOf, Imported
  <1> QED BY <1>1, <1>2

\* So is every reference that it can make.
LEMMA RefFacts ==
  ASSUME Inv, Running, NEW a \in Refs
  PROVE  a \in Addresses /\ (a \in Nothing \/ Owned(instances[on], a, "func"))
  <1>1. CASE a \in Nothing
    BY <1>1 DEF Nothing, NULL, nullref, Addresses
  <1>2. CASE \E i \in DOMAIN Here.addrs : EntOf(Here, i).kind = "func" /\ a = Here.addrs[i]
    <2>1. PICK i \in DOMAIN Here.addrs : EntOf(Here, i).kind = "func" /\ a = Here.addrs[i]
      BY <1>2
    <2>2. a # NULL => i \in Named("func")
      BY <2>1 DEF Named, EntOf
    <2> QED BY <1>1, <2>1, <2>2, NamedFacts DEF Nothing
  <1>3. CASE \E i \in Named("tab") : a \in Contents(i)
    BY <1>3, ContentFacts
  <1>4. CASE a \in AnyRefs(on)
    BY <1>4, RunFacts, AnyRefFacts
  <1>5. \/ a = nullref \/ a \in AnyRefs(on)
        \/ \E i \in DOMAIN Here.addrs : Desc[Here.mod].ents[i].kind = "func" /\ a = Here.addrs[i]
        \/ \E i \in Named("tab") : a \in Contents(i)
    <2>1. PICK F, T : /\ F = {Here.addrs[i] : i \in {j \in DOMAIN Here.addrs :
                                                   Desc[Here.mod].ents[j].kind = "func"}}
                      /\ T = UNION {Contents(i) : i \in Named("tab")}
      OBVIOUS
    <2>2. a = nullref \/ a \in F \/ a \in T \/ a \in AnyRefs(on)
      BY <2>1 DEF Refs
    <2>3. a \in F => \E i \in DOMAIN Here.addrs :
                      Desc[Here.mod].ents[i].kind = "func" /\ a = Here.addrs[i]
      BY <2>1
    <2>4. a \in T => \E i \in Named("tab") : a \in Contents(i)
      BY <2>1
    <2> QED BY <2>2, <2>3, <2>4
  <1> QED BY <1>1, <1>2, <1>3, <1>4, <1>5 DEF Nothing, EntOf

\* The machine in which code runs changes, and nothing else.
LEMMA RunUpdate ==
  ASSUME Inv, Running, Stay, Only(instances, instances', on), Machines(instances'),
         World(instances'), Grown(instances[on], instances'[on]),
         SameStates(instances, instances', on), SameAddrs(instances, instances', on),
         \A p \in 1..Len(instances[on]) : MoreDropped(instances[on][p], instances'[on][p])
  PROVE  Inv'
  <1>1. /\ UNCHANGED <<modules, names, vms, ref_count, call, frames, on>>
        /\ on \in VMs /\ call.step \in {"ok", "err", "start"} /\ call.step \notin Crashes
    BY RunFacts DEF Stay, Running
  <1>2. /\ Machines(instances) /\ Lives(instances, call, vms) /\ vms \in SUBSET VMs
        /\ call \in Calls /\ Activations(instances, call, vms, frames, on)
        /\ Machine(instances[on]) /\ Machine(instances'[on])
    BY <1>1, InvFacts DEF Machines
  <1>3. Lives(instances', call, vms)
    BY <1>1, <1>2, LivesRun
  <1>4. Activations(instances', call, vms, frames, on)
    <2>1. \A n \in 1..Len(frames) : Owned(instances[on], frames[n], "func")
      BY RunFacts
    <2>2. \A n \in 1..Len(frames) : Owned(instances'[on], frames[n], "func")
      BY <1>2, <2>1, OwnedStays
    <2> QED BY <1>2, <2>2 DEF Activations
  <1>5. NullCrash'
    BY <1>1, NoCrash DEF Crashes
  <1> QED BY <1>1, <1>2, <1>3, <1>4, <1>5, OneMachine

\* Segments that stay as they were are no less dropped.
LEMMA NothingDropped ==
  ASSUME NEW I, NEW J, NEW v \in VMs, Machines(I), SameElements(I, J, v), SameData(I, J, v)
  PROVE  \A p \in 1..Len(I[v]) : MoreDropped(I[v][p], J[v][p])
  BY DEF SameElements, SameData, MoreDropped

\* Direct and indirect calls.
LEMMA CallsStep ==
  ASSUME Inv, CallDirect \/ CallIndirect
  PROVE  Inv'
  <1>1. CASE CallDirect
    <2>1. Running
      BY <1>1 DEF CallDirect
    <2>2. PICK i \in Named("func") : Enter(Here.addrs[i])
      BY <1>1 DEF CallDirect
    <2> QED BY <2>1, <2>2, NamedFacts, EnterStep
  <1>2. CASE CallIndirect
    <2>1. Running
      BY <1>2 DEF CallIndirect
    <2>2. PICK i \in Named("tab") : \E a \in Contents(i) \ {NULL, nullref} : Enter(a)
      BY <1>2 DEF CallIndirect
    <2>3. PICK a \in Contents(i) \ {NULL, nullref} : Enter(a)
      BY <2>2
    <2>4. a \in Addresses /\ Owned(instances[on], a, "func")
      BY <2>1, ContentFacts DEF Nothing
    <2> QED BY <2>1, <2>3, <2>4, EnterStep
  <1> QED BY <1>1, <1>2

\* A table of the running code gets the contents u.
LEMMA TableUpdate ==
  ASSUME Inv, Running, Stay, NEW i \in Named("tab"), NEW u \in Seq(Addresses),
         Len(Table(i)) <= Len(u),
         Len(u) = Len(Table(i)) \/ Len(u) <= Ent(on, Here.addrs[i]).max,
         RefsFrom(instances[on], Table(i), u),
         instances' = WithTable(instances, on, Here.addrs[i][1], Here.addrs[i][2], u)
  PROVE  Inv'
  <1>1. on \in VMs /\ Machines(instances) /\ World(instances)
        /\ instances \in [VMs -> Seq(Instances)]
    BY RunFacts, InvFacts DEF Machines
  <1>2. PICK p, k : p = Here.addrs[i][1] /\ k = Here.addrs[i][2]
    OBVIOUS
  <1>3. p \in 1..Len(instances[on]) /\ k \in 1..Len(instances[on][p].addrs)
    BY <1>2, NamedFacts DEF Owned
  <1>4. Table(i) = instances[on][p].tdata[k] /\ Ent(on, Here.addrs[i]) = EntOf(instances[on][p], k)
    BY <1>2 DEF Table, Ent, EntOf
  <1>5. /\ Machines(instances') /\ World(instances')
        /\ Grown(instances[on], instances'[on])
    BY <1>1, <1>2, <1>3, <1>4, TableStep
  <1>6. k \in 1..Len(instances[on][p].tdata)
    <2>1. instances[on][p] \in Instances /\ Shaped(instances[on][p])
      BY <1>3, RunFacts, MachineFacts
    <2> QED BY <1>3, <2>1, InstFacts
  <1>7. /\ Only(instances, instances', on) /\ SameStates(instances, instances', on)
        /\ SameAddrs(instances, instances', on)
        /\ SameElements(instances, instances', on) /\ SameData(instances, instances', on)
    BY <1>1, <1>2, <1>3, <1>6, PutTable
  <1>8. \A q \in 1..Len(instances[on]) : MoreDropped(instances[on][q], instances'[on][q])
    BY <1>1, <1>7, NothingDropped
  <1> QED BY <1>5, <1>7, <1>8, RunUpdate

\* Writes into tables and their growth.
LEMMA TablesStep ==
  ASSUME Inv, TableSet \/ TableGrow
  PROVE  Inv'
  <1>1. CASE TableSet
    <2>1. Running /\ Stay
      BY <1>1 DEF TableSet
    <2>2. PICK i \in Named("tab"), a \in Refs : \E j \in DOMAIN Table(i) :
            instances' = [instances EXCEPT
              ![on][Here.addrs[i][1]].tdata[Here.addrs[i][2]][j] = a]
      BY <1>1 DEF TableSet
    <2>3. PICK j \in DOMAIN Table(i) :
            instances' = [instances EXCEPT
              ![on][Here.addrs[i][1]].tdata[Here.addrs[i][2]][j] = a]
      BY <2>2
    <2>4. a \in Addresses /\ (a \in Nothing \/ Owned(instances[on], a, "func"))
      BY <2>1, RefFacts
    <2>5. Table(i) \in Seq(Addresses)
      BY <2>1, ContentFacts
    <2>6. PICK w, u : w = Table(i) /\ u = [w EXCEPT ![j] = a]
      OBVIOUS
    <2>7. /\ u \in Seq(Addresses) /\ Len(u) = Len(w) /\ Len(w) \in Nat
          /\ \A k \in 1..Len(w) : u[k] = IF k = j THEN a ELSE w[k]
      BY <2>4, <2>5, <2>6
    <2>8. Len(w) <= Len(u)
      BY <2>7
    <2>9. RefsFrom(instances[on], w, u)
      BY <2>4, <2>7 DEF RefsFrom
    <2>10. instances' = WithTable(instances, on, Here.addrs[i][1], Here.addrs[i][2], u)
      BY <2>3, <2>6 DEF WithTable, Table
    <2> QED BY <2>1, <2>6, <2>7, <2>8, <2>9, <2>10, TableUpdate
  <1>2. CASE TableGrow
    <2>1. Running /\ Stay
      BY <1>2 DEF TableGrow
    <2>2. PICK i \in Named("tab"), a \in Refs :
            /\ Len(Table(i)) + 1 <= Ent(on, Here.addrs[i]).max
            /\ instances' = [instances EXCEPT
                 ![on][Here.addrs[i][1]].tdata[Here.addrs[i][2]] = Append(@, a)]
      BY <1>2 DEF TableGrow
    <2>3. a \in Addresses /\ (a \in Nothing \/ Owned(instances[on], a, "func"))
      BY <2>1, RefFacts
    <2>4. Table(i) \in Seq(Addresses)
      BY <2>1, ContentFacts
    <2>5. PICK w, u : w = Table(i) /\ u = Append(w, a)
      OBVIOUS
    <2>6. /\ u \in Seq(Addresses) /\ Len(u) = Len(w) + 1 /\ Len(w) \in Nat
          /\ \A k \in 1..Len(u) : (k \in 1..Len(w) /\ u[k] = w[k]) \/ u[k] = a
      BY <2>3, <2>4, <2>5
    <2>7. Len(w) <= Len(u) /\ Len(u) <= Ent(on, Here.addrs[i]).max
      <3>1. Len(w) <= Len(u)
        BY <2>6
      <3>2. Len(u) <= Ent(on, Here.addrs[i]).max
        <4>1. Len(Table(i)) + 1 = Len(u)
          BY <2>5, <2>6
        <4> QED BY <2>2, <4>1, Zenon
      <3> QED BY <3>1, <3>2
    <2>8. RefsFrom(instances[on], w, u)
      BY <2>3, <2>6 DEF RefsFrom
    <2>9. instances' = WithTable(instances, on, Here.addrs[i][1], Here.addrs[i][2], u)
      BY <2>2, <2>5 DEF WithTable, Table
    <2> QED BY <2>1, <2>5, <2>6, <2>7, <2>8, <2>9, TableUpdate
  <1> QED BY <1>1, <1>2

\* The growth of memories.
LEMMA MemoryStep ==
  ASSUME Inv, MemoryGrow
  PROVE  Inv'
  <1>1. Running /\ Stay
    BY DEF MemoryGrow
  <1>2. PICK i \in Named("mem") :
          /\ instances[on][Here.addrs[i][1]].pages[Here.addrs[i][2]] + 1
               <= Ent(on, Here.addrs[i]).max
          /\ instances' = [instances EXCEPT
               ![on][Here.addrs[i][1]].pages[Here.addrs[i][2]] = @ + 1]
    BY DEF MemoryGrow
  <1>3. PICK p, k : p = Here.addrs[i][1] /\ k = Here.addrs[i][2]
    OBVIOUS
  <1>4. p \in 1..Len(instances[on]) /\ k \in 1..Len(instances[on][p].addrs)
    BY <1>1, <1>3, NamedFacts DEF Owned
  <1>5. on \in VMs /\ Machines(instances) /\ World(instances)
        /\ instances \in [VMs -> Seq(Instances)]
    BY <1>1, RunFacts, InvFacts DEF Machines
  <1>6. instances[on][p].pages[k] \in Nat /\ k \in 1..Len(instances[on][p].pages)
    <2>1. instances[on][p] \in Instances /\ Shaped(instances[on][p])
      BY <1>1, <1>4, RunFacts, MachineFacts
    <2> QED BY <1>4, <2>1, InstFacts
  <1>7. PICK n : n = instances[on][p].pages[k] + 1
    OBVIOUS
  <1>8. n \in Nat /\ instances[on][p].pages[k] <= n
    BY <1>6, <1>7
  <1>9. n <= EntOf(instances[on][p], k).max
    BY <1>2, <1>3, <1>7 DEF Ent, EntOf
  <1>10. instances' = WithPages(instances, on, p, k, n)
    BY <1>2, <1>3, <1>7 DEF WithPages
  <1>11. /\ Machines(instances') /\ World(instances')
         /\ Grown(instances[on], instances'[on])
    BY <1>4, <1>5, <1>8, <1>9, <1>10, PagesStep
  <1>12. /\ Only(instances, instances', on) /\ SameStates(instances, instances', on)
         /\ SameAddrs(instances, instances', on)
         /\ SameElements(instances, instances', on) /\ SameData(instances, instances', on)
    BY <1>4, <1>5, <1>6, <1>8, <1>10, PutPages
  <1>13. \A q \in 1..Len(instances[on]) : MoreDropped(instances[on][q], instances'[on][q])
    BY <1>5, <1>12, NothingDropped
  <1> QED BY <1>1, <1>11, <1>12, <1>13, RunUpdate

\* elem.drop and data.drop.
LEMMA DropSegmentStep ==
  ASSUME Inv, SegmentDrop
  PROVE  Inv'
  <1>1. Running /\ Stay
    BY DEF SegmentDrop
  <1>2. PICK p : p = frames[Len(frames)][1]
    OBVIOUS
  <1>3. /\ on \in VMs /\ Machines(instances) /\ World(instances)
        /\ instances \in [VMs -> Seq(Instances)] /\ p \in 1..Len(instances[on])
        /\ Here = instances[on][p] /\ Here \in Instances
    BY <1>1, <1>2, RunFacts, InvFacts DEF Machines, Here
  <1>4. Here.dropped_elements \in Seq(BOOLEAN) /\ Here.dropped_data \in Seq(BOOLEAN)
    BY <1>3 DEF Instances
  <1>5. ASSUME NEW i \in DOMAIN Here.dropped_elements,
               instances' = [instances EXCEPT ![on][p].dropped_elements[i] = TRUE]
        PROVE  Inv'
    <2>1. i \in 1..Len(instances[on][p].dropped_elements)
      BY <1>3, <1>4
    <2>2. instances' = WithElement(instances, on, p, i, TRUE)
      BY <1>5 DEF WithElement
    <2>3. /\ Only(instances, instances', on) /\ SameStates(instances, instances', on)
          /\ SameAddrs(instances, instances', on) /\ SamePages(instances, instances', on)
          /\ SameTables(instances, instances', on) /\ SameData(instances, instances', on)
          /\ ElementPut(instances, instances', on, p, i, TRUE)
      BY <1>3, <2>1, <2>2, PutElement
    <2>4. SameLens(instances, instances', on)
      BY <2>3 DEF SameAddrs, SamePages, SameTables, SameData, ElementPut, SameLens
    <2>5. /\ Machines(instances') /\ World(instances')
          /\ Grown(instances[on], instances'[on])
      BY <1>3, <2>3, <2>4, MarkStep
    <2>6. \A q \in 1..Len(instances[on]) : MoreDropped(instances[on][q], instances'[on][q])
      BY <2>3 DEF SameData, ElementPut, MoreDropped
    <2> QED BY <1>1, <2>3, <2>5, <2>6, RunUpdate
  <1>6. ASSUME NEW i \in DOMAIN Here.dropped_data,
               instances' = [instances EXCEPT ![on][p].dropped_data[i] = TRUE]
        PROVE  Inv'
    <2>1. i \in 1..Len(instances[on][p].dropped_data)
      BY <1>3, <1>4
    <2>2. instances' = WithData(instances, on, p, i, TRUE)
      BY <1>6 DEF WithData
    <2>3. /\ Only(instances, instances', on) /\ SameStates(instances, instances', on)
          /\ SameAddrs(instances, instances', on) /\ SamePages(instances, instances', on)
          /\ SameTables(instances, instances', on) /\ SameElements(instances, instances', on)
          /\ DataPut(instances, instances', on, p, i, TRUE)
      BY <1>3, <2>1, <2>2, PutData
    <2>4. SameLens(instances, instances', on)
      BY <2>3 DEF SameAddrs, SamePages, SameTables, SameElements, DataPut, SameLens
    <2>5. /\ Machines(instances') /\ World(instances')
          /\ Grown(instances[on], instances'[on])
      BY <1>3, <2>3, <2>4, MarkStep
    <2>6. \A q \in 1..Len(instances[on]) : MoreDropped(instances[on][q], instances'[on][q])
      BY <2>3 DEF SameElements, DataPut, MoreDropped
    <2> QED BY <1>1, <2>3, <2>5, <2>6, RunUpdate
  <1> QED BY <1>2, <1>5, <1>6 DEF SegmentDrop

\* Only a failed instance has an address that is missing when code runs in it.
LEMMA UnsetFailed ==
  ASSUME Inv, Running, NEW i \in DOMAIN Here.addrs, Here.addrs[i] = NULL
  PROVE  Here.state = "init_failed"
  <1>1. PICK p : p = frames[Len(frames)][1]
    OBVIOUS
  <1>2. /\ on \in VMs /\ p \in 1..Len(instances[on]) /\ Here = instances[on][p]
        /\ Here \in Instances /\ Shaped(Here)
        /\ call.step \in {"ok", "start"} /\ call.step \notin Crashes
    BY <1>1, RunFacts DEF Here, Running
  <1>3. Lives(instances, call, vms)
    BY InvFacts
  <1>4. ~Whole(Here)
    BY <1>2, InstFacts DEF Whole
  <1>5. Here.state \in {"uninitialized", "init_failed", "ready"}
    BY <1>2 DEF Instances
  <1>6. Here.state # "ready"
    BY <1>2, <1>3, <1>4 DEF Lives, Readies, Finished
  <1>7. ASSUME Here.state = "uninitialized"
        PROVE  FALSE
    <2>1. call.step \in Steps /\ call.vm = on /\ p = Len(instances[on])
      BY <1>2, <1>3, <1>7 DEF Lives, Settled
    <2>2. Progress(Here, call)
      BY <1>2, <1>3, <2>1 DEF Lives, Constructing, Newest
    <2>3. call.step = "start"
      BY <1>2, <2>1 DEF Steps
    <2> QED BY <1>4, <2>2, <2>3 DEF Progress
  <1> QED BY <1>5, <1>6, <1>7

\* Running code that crashes leaves the instances as they are.
LEMMA CrashStep ==
  ASSUME Inv, Running, NEW how \in Crashes, Crash(how), UNCHANGED thvars, NullCrash'
  PROVE  Inv'
  <1>1. /\ UNCHANGED <<modules, names, vms, instances, ref_count, frames, on>>
        /\ call' = [call EXCEPT !.step = how]
    BY DEF Running, Crash, thvars
  <1>2. call = NoCall \/ call.step = "start"
    BY RunFacts
  <1>3. /\ Lives(instances, call, vms) /\ Machines(instances) /\ vms \in SUBSET VMs
        /\ call \in Calls /\ Activations(instances, call, vms, frames, on)
    BY InvFacts
  <1>4. call' \in Calls /\ call'.step \in Crashes /\ call'.vm = call.vm
    BY <1>1, <1>3 DEF Calls
  <1>5. Lives(instances, call', vms)
    <2>1. call.step \in {"link", "start"} \/ call.vm \notin VMs
      BY <1>2, CallTypes, VMsAssumption
    <2> QED BY <1>3, <1>4, <2>1, LivesCrash
  <1>6. Activations(instances, call', vms, frames', on')
    BY <1>1, <1>3, <1>4 DEF Activations
  <1> QED BY <1>1, <1>4, <1>5, <1>6, Unmoved

LEMMA UseNullStep ==
  ASSUME Inv, UseNull
  PROVE  Inv'
  <1>1. Running /\ Crash("crash") /\ UNCHANGED thvars
    BY DEF UseNull
  <1>2. PICK i \in DOMAIN Here.addrs : Here.addrs[i] = NULL
    BY DEF UseNull
  <1>3. PICK p : p = frames[Len(frames)][1]
    OBVIOUS
  <1>4. /\ on \in VMs /\ p \in 1..Len(instances[on]) /\ Here = instances[on][p]
        /\ frames # << >> /\ DOMAIN instances[on] = 1..Len(instances[on])
    BY <1>1, <1>3, RunFacts, MachineFacts DEF Here, Running
  <1>5. Here.state = "init_failed"
    BY <1>1, <1>2, UnsetFailed
  <1>6. UNCHANGED <<instances, frames, on>>
    BY <1>1 DEF Crash, thvars
  <1>7. NullCrash'
    BY <1>4, <1>5, <1>6 DEF NullCrash
  <1>8. "crash" \in Crashes
    BY DEF Crashes
  <1> QED BY <1>1, <1>7, <1>8, CrashStep

\* The other crashes need no address that is missing.
LEMMA OtherCrashStep ==
  ASSUME Inv, CallBadRef \/ UseNoMemory
  PROVE  Inv'
  <1>1. PICK how \in {"bad_ref", "no_memory"} : Running /\ Crash(how) /\ UNCHANGED thvars
    BY DEF CallBadRef, UseNoMemory
  <1>2. call \in Calls
    BY InvFacts
  <1>3. call'.step = how
    BY <1>1, <1>2 DEF Crash, Calls
  <1>4. NullCrash'
    BY <1>3, NoCrash
  <1>5. how \in Crashes
    BY DEF Crashes
  <1> QED BY <1>1, <1>4, <1>5, CrashStep

\* Returning from an activation, the start function's included.
LEMMA ReturnStep ==
  ASSUME Inv, Return
  PROVE  Inv'
  <1>1. Running /\ frames' = SubSeq(frames, 1, Len(frames) - 1)
    BY DEF Return
  <1>2. /\ frames \in Seq(Addresses) /\ Len(frames) >= 1
        /\ \A n \in 1..Len(frames) : Owned(instances[on], frames[n], "func")
        /\ on \in vms /\ call.step \notin Crashes /\ UNCHANGED <<modules, names, vms>>
        /\ \/ call = NoCall
           \/ call.step = "start" /\ on = call.vm /\ Desc[call.mod].start # 0
    BY <1>1, RunFacts DEF Running
  <1>3. Lives(instances, call, vms) /\ call \in Calls
    BY InvFacts
  <1>4. CASE Len(frames) > 1
    <2>1. UNCHANGED <<on, instances, ref_count, call>>
      BY <1>4 DEF Return
    <2>2. PICK gs : gs = SubSeq(frames, 1, Len(frames) - 1)
      OBVIOUS
    <2>3. /\ gs \in Seq(Addresses) /\ Len(gs) = Len(frames) - 1
          /\ \A n \in 1..Len(gs) : gs[n] = frames[n] /\ n \in 1..Len(frames)
      BY <1>2, <1>4, <2>2
    <2>4. Activations(instances, call, vms, gs, on)
      BY <1>2, <2>3 DEF Activations
    <2>5. NullCrash'
      BY <1>2, <2>1, NoCrash DEF Crashes
    <2> QED BY <1>1, <1>2, <1>3, <2>1, <2>2, <2>4, <2>5, Unmoved
  <1>5. CASE ~(Len(frames) > 1)
    <2>1. frames' = << >>
      <3>1. Len(frames) = 1
        <4>1. PICK k : k = Len(frames)
          OBVIOUS
        <4>2. k \in Nat /\ k >= 1
          BY <1>2, <4>1
        <4>3. ~(k > 1)
          BY <1>5, <4>1
        <4>4. k = 1
          BY <4>2, <4>3
        <4> QED BY <4>1, <4>4
      <3>2. PICK k : k = Len(frames) - 1
        OBVIOUS
      <3>3. k = 0 /\ frames' = SubSeq(frames, 1, k)
        BY <1>1, <3>1, <3>2
      <3>4. SubSeq(frames, 1, 0) = << >>
        <4>1. SubSeq(frames, 1, 0) \in Seq(Addresses) /\ Len(SubSeq(frames, 1, 0)) = 0
          BY <1>2, <3>1
        <4> QED BY <4>1
      <3> QED BY <3>3, <3>4
    <2>2. CASE call.step = "start"
      <3>1. Ready
        BY <1>5, <2>2 DEF Return
      <3> QED BY <1>2, <2>1, <2>2, <3>1, ReadyStep
    <2>3. CASE call.step # "start"
      <3>1. UNCHANGED <<instances, ref_count, call>>
        BY <1>5, <2>3 DEF Return
      <3>2. Activations(instances, call', vms, frames', on')
        BY <2>1, NoFrames
      <3>3. NullCrash'
        BY <1>2, <3>1, NoCrash DEF Crashes
      <3> QED BY <1>2, <1>3, <3>1, <3>2, <3>3, Unmoved
    <2> QED BY <2>2, <2>3
  <1> QED BY <1>4, <1>5

----------------------------------------------------------------------------
(***************************************************************************)
(* Linking and initialisation.                                             *)
(***************************************************************************)
LEMMA AdvanceFacts ==
  ASSUME call \in Calls, call.step \in Steps, NEW n, NEW next \in Steps, Advance(n, next)
  PROVE  /\ call' \in Calls /\ call'.vm = call.vm /\ call'.mod = call.mod /\ call'.step \in Steps
         /\ \/ call.i < n /\ call'.step = call.step /\ call'.i = call.i + 1
            \/ ~(call.i < n) /\ call'.step = next /\ call'.i = 1
  <1>1. CASE call.i < n
    <2>1. call' = [call EXCEPT !.i = @ + 1]
      BY <1>1 DEF Advance
    <2>2. /\ call' \in Calls /\ call'.vm = call.vm /\ call'.mod = call.mod
          /\ call'.step = call.step /\ call'.i = call.i + 1
      BY <2>1 DEF Calls
    <2> QED BY <1>1, <2>2
  <1>2. CASE ~(call.i < n)
    <2>1. call' = [call EXCEPT !.step = next, !.i = 1]
      BY <1>2 DEF Advance
    <2>2. /\ call' \in Calls /\ call'.vm = call.vm /\ call'.mod = call.mod
          /\ call'.step = next /\ call'.i = 1
      BY <2>1 DEF Calls
    <2> QED BY <1>2, <2>2
  <1> QED BY <1>1, <1>2

\* The items of a step can be counted.
LEMMA ItemsNat ==
  ASSUME NEW c, c.mod \in Mods
  PROVE  Items(c) \in Nat
  <1>1. /\ Desc[c.mod].ents \in Seq(Entities) /\ Desc[c.mod].elements \in Seq(Elements)
        /\ Desc[c.mod].data \in Seq(Segments)
    BY DescFacts
  <1>2. /\ Len(Desc[c.mod].ents) \in Nat /\ Len(Desc[c.mod].elements) \in Nat
        /\ Len(Desc[c.mod].data) \in Nat
    BY <1>1
  <1> QED BY <1>2 DEF Items

\* The construction goes on, with changes or without.
LEMMA GoOn ==
  ASSUME Inv, call.step \in Steps, frames' = << >>, UNCHANGED <<modules, names, vms, ref_count>>,
         Only(instances, instances', call.vm), Kept(instances, instances', call.vm, New),
         Machines(instances'), World(instances'), call' \in Calls, call'.step \in Steps,
         call'.vm = call.vm, call'.mod = call.mod,
         Progress(instances'[call.vm][New], call')
  PROVE  Inv'
  <1>1. /\ call.vm \in VMs /\ Machines(instances) /\ Lives(instances, call, vms)
        /\ vms \in SUBSET VMs
    BY StepFacts, InvFacts
  <1>2. Lives(instances', call', vms)
    <2>1. New = Len(instances[call.vm])
      BY DEF New
    <2> QED BY <1>1, <2>1, LivesProgress
  <1>3. Activations(instances', call', vms', frames', on')
    BY NoFrames
  <1>4. NullCrash'
    BY NoCrash DEF Steps
  <1> QED BY <1>1, <1>2, <1>3, <1>4, OneMachine

\* An instantiation that goes on without changing an instance.
LEMMA GoOnSame ==
  ASSUME Inv, call.step \in Steps, frames' = << >>,
         UNCHANGED <<modules, names, vms, ref_count, instances>>,
         call' \in Calls, call'.step \in Steps, call'.vm = call.vm, call'.mod = call.mod,
         Progress(Inst, call')
  PROVE  Inv'
  <1>1. /\ Machines(instances) /\ World(instances) /\ instances \in [VMs -> Seq(Instances)]
        /\ instances' = instances
    BY InvFacts DEF Machines
  <1>2. Only(instances, instances', call.vm)
    BY <1>1 DEF Only
  <1>3. Kept(instances, instances', call.vm, New)
    BY <1>1 DEF Kept
  <1>4. instances'[call.vm][New] = Inst
    BY <1>1 DEF Inst
  <1> QED BY <1>1, <1>2, <1>3, <1>4, GoOn

\* The entity that is being linked gets the address a.
LEMMA LinkTo ==
  ASSUME Inv, call.step = "link", frames' = << >>, UNCHANGED <<modules, names, vms, ref_count>>,
         call.i \in 1..Len(Desc[call.mod].ents), NEW a \in Addresses, a # NULL,
         Meets(instances[call.vm], a, EntOf(Inst, call.i)),
         instances' = WithAddr(instances, call.vm, New, call.i, a),
         Advance(Len(Desc[call.mod].ents), "global")
  PROVE  Inv'
  <1>1. /\ call.vm \in VMs /\ call.mod \in Mods /\ New \in 1..Len(instances[call.vm])
        /\ Inst \in Instances /\ Shaped(Inst) /\ Progress(Inst, call)
        /\ call.step \in Steps
    BY StepFacts DEF Steps
  <1>2. /\ Machines(instances) /\ World(instances) /\ instances \in [VMs -> Seq(Instances)]
        /\ call \in Calls
    BY InvFacts DEF Machines
  <1>3. PICK v, n, i : v = call.vm /\ n = New /\ i = call.i
    OBVIOUS
  <1>4. /\ Inst = instances[v][n] /\ Inst.mod = call.mod
        /\ Len(Inst.addrs) = Len(Desc[call.mod].ents)
        /\ i \in 1..Len(instances[v][n].addrs)
    BY <1>1, <1>3, InstFacts DEF Inst, Progress
  <1>5. Machines(instances') /\ World(instances')
    BY <1>1, <1>2, <1>3, <1>4, AddrStep
  <1>6. /\ Only(instances, instances', v)
        /\ SameStates(instances, instances', v) /\ SameElements(instances, instances', v)
        /\ SameData(instances, instances', v) /\ AddrPut(instances, instances', v, n, i, a)
    BY <1>1, <1>2, <1>3, <1>4, PutAddr
  <1>7. Kept(instances, instances', v, n)
    <2> SUFFICES ASSUME NEW p \in 1..Len(instances[v]), p # n
                 PROVE  instances'[v][p].addrs = instances[v][p].addrs
      BY <1>6 DEF Kept, SameStates, SameElements, SameData
    <2>1. /\ Len(instances'[v][p].addrs) = Len(instances[v][p].addrs)
          /\ \A j \in 1..Len(instances[v][p].addrs) :
               instances'[v][p].addrs[j] = instances[v][p].addrs[j]
      BY <1>6 DEF AddrPut
    <2>2. instances[v][p] \in Instances /\ instances'[v][p] \in Instances
      <3>1. p \in 1..Len(instances'[v]) /\ instances' \in [VMs -> Seq(Instances)]
        BY <1>6 DEF Only
      <3> QED BY <1>1, <1>2, <1>3, <3>1
    <2>3. /\ instances[v][p].addrs \in Seq(Addresses)
          /\ instances'[v][p].addrs \in Seq(Addresses)
      BY <2>2 DEF Instances
    <2> QED BY <2>1, <2>3, SMTT(30)
  <1>8. PICK x, y : x = instances[v][n] /\ y = instances'[v][n]
    OBVIOUS
  <1>9. /\ y.mod = x.mod /\ y.state = x.state /\ y.dropped_elements = x.dropped_elements
        /\ y.dropped_data = x.dropped_data /\ Len(y.addrs) = Len(x.addrs)
        /\ \A j \in 1..Len(x.addrs) : y.addrs[j] = IF j = i THEN a ELSE x.addrs[j]
    BY <1>1, <1>3, <1>6, <1>8 DEF Only, SameStates, SameElements, SameData, AddrPut
  <1>10. /\ call' \in Calls /\ call'.vm = call.vm /\ call'.mod = call.mod /\ call'.step \in Steps
         /\ \/ /\ i < Len(Desc[call.mod].ents) /\ call'.step = "link" /\ call'.i = i + 1
            \/ /\ ~(i < Len(Desc[call.mod].ents)) /\ call'.step = "global" /\ call'.i = 1
    BY <1>1, <1>2, <1>3, AdvanceFacts DEF Steps
  <1>11. Progress(x, call) /\ Len(x.addrs) = Len(Desc[call.mod].ents) /\ Len(x.addrs) \in Nat
    BY <1>1, <1>4, <1>8, InstFacts
  <1>12. NoData(y) /\ y.mod = call'.mod /\ y.state = "uninitialized"
    BY <1>9, <1>10, <1>11 DEF Progress, NoData
  <1>13. \A j \in 1..i : y.addrs[j] # NULL
    <2> SUFFICES ASSUME NEW j \in 1..i PROVE y.addrs[j] # NULL
      OBVIOUS
    <2>1. j \in 1..Len(x.addrs) /\ (j = i \/ j \in 1..(i - 1))
      BY <1>3, <1>11
    <2>2. j \in 1..(i - 1) => x.addrs[j] # NULL
      BY <1>3, <1>11 DEF Progress
    <2> QED BY <1>9, <2>1, <2>2
  <1>14. CASE /\ i < Len(Desc[call.mod].ents) /\ call'.step = "link" /\ call'.i = i + 1
    <2>1. Items(call') = Len(Desc[call.mod].ents)
      BY <1>10, <1>14 DEF Items
    <2>2. call'.i >= 1 /\ call'.i <= Items(call') /\ call'.i - 1 = i
      BY <1>3, <1>11, <1>14, <2>1
    <2>3. Progress(y, call')
      BY <1>12, <1>13, <1>14, <2>2 DEF Progress
    <2> QED BY <1>1, <1>3, <1>5, <1>6, <1>7, <1>8, <1>10, <2>3, GoOn
  <1>15. CASE /\ ~(i < Len(Desc[call.mod].ents)) /\ call'.step = "global" /\ call'.i = 1
    <2>1. Items(call') = 0
      BY <1>15 DEF Items
    <2>2. i = Len(y.addrs)
      BY <1>3, <1>9, <1>11, <1>15
    <2>3. Whole(y)
      BY <1>13, <2>2 DEF Whole
    <2>4. Progress(y, call')
      BY <1>12, <1>15, <2>1, <2>3 DEF Progress
    <2> QED BY <1>1, <1>3, <1>5, <1>6, <1>7, <1>8, <1>10, <2>4, GoOn
  <1> QED BY <1>10, <1>14, <1>15

\* vm_link_module_inst, for one entity.
LEMMA LinkStep ==
  ASSUME Inv, vm_link_module_inst, UNCHANGED thvars
  PROVE  Inv'
  <1>1. /\ call.step = "link" /\ call.step \in Steps /\ UNCHANGED <<modules, names, vms>>
    BY DEF vm_link_module_inst, At, Steps
  <1>2. frames = << >> /\ frames' = << >>
    BY <1>1, NotRunning DEF thvars
  <1>3. /\ call.vm \in VMs /\ call.mod \in Mods /\ New \in 1..Len(instances[call.vm])
        /\ Inst \in Instances /\ Shaped(Inst) /\ Progress(Inst, call)
        /\ Machine(instances[call.vm]) /\ Sane(instances[call.vm])
    BY <1>1, StepFacts
  <1>4. /\ call \in Calls /\ Types /\ Lives(instances, call, vms) /\ Machines(instances)
        /\ vms \in SUBSET VMs
    BY InvFacts DEF Inv
  <1>5. PICK v, i, es, s : v = call.vm /\ i = call.i /\ es = Desc[call.mod].ents /\ s = instances[v]
    OBVIOUS
  <1>6. PICK q : q = vm_find_module_inst(v, es[i].from[1])
    OBVIOUS
  <1>7. PICK x : x = FindExport(instances[v][q].mod, es[i].kind, es[i].from[2])
    OBVIOUS
  <1>8. /\ es \in Seq(Entities) /\ Len(es) \in Nat /\ i \in Nat /\ Inst.mod = call.mod
        /\ Len(Inst.addrs) = Len(es) /\ Inst = s[New] /\ s = instances[call.vm]
    <2>1. es \in Seq(Entities)
      BY <1>3, <1>5, DescFacts
    <2>2. i \in Nat
      BY <1>4, <1>5 DEF Calls
    <2>3. Inst.mod = call.mod
      BY <1>3 DEF Progress
    <2>4. Len(Inst.addrs) = Len(es)
      BY <1>3, <1>5, <2>3, InstFacts
    <2> QED BY <1>5, <2>1, <2>2, <2>3, <2>4 DEF Inst
  <1>9. CASE es = << >>
    <2>1. Advance(0, "global") /\ UNCHANGED <<instances, ref_count>>
      BY <1>5, <1>9 DEF vm_link_module_inst
    <2>2. /\ call' \in Calls /\ call'.vm = call.vm /\ call'.mod = call.mod
          /\ call'.step = "global" /\ call'.i = 1 /\ call'.step \in Steps
      BY <1>1, <1>4, <1>5, <1>8, <2>1, AdvanceFacts DEF Steps
    <2>3. Len(Inst.addrs) = 0
      BY <1>8, <1>9
    <2>4. Whole(Inst)
      BY <2>3 DEF Whole
    <2>5. Items(call') = 0
      BY <2>2 DEF Items
    <2>6. Progress(Inst, call')
      BY <1>1, <1>3, <2>2, <2>4, <2>5 DEF Progress
    <2> QED BY <1>1, <1>2, <2>1, <2>2, <2>6, GoOnSame
  <1>10. CASE es # << >>
    <2>1. i \in 1..Len(es)
      <3>1. Items(call) = Len(es)
        BY <1>1, <1>5 DEF Items
      <3>2. Len(es) # 0
        BY <1>8, <1>10
      <3>3. i >= 1 /\ (i <= Items(call) \/ Items(call) = 0)
        BY <1>3, <1>5 DEF Progress
      <3> QED BY <1>8, <3>1, <3>2, <3>3
    <2>2. PICK ent : ent = es[i]
      OBVIOUS
    <2>3. /\ ent = EntOf(Inst, i) /\ ent = EntOf(s[New], i)
          /\ ent \in Entities /\ ent.min \in Nat /\ ent.max \in Nat
          /\ ent.kind \in Kinds /\ (ent.kind = "mem" => ent.type = "")
      BY <1>3, <1>5, <1>8, <2>1, <2>2, DescFacts DEF EntOf
    <2>4. CASE ~Imported(ent)
      <3>1. PICK a : a = <<New, i>>
        OBVIOUS
      <3>2. /\ instances' = [instances EXCEPT ![call.vm][New].addrs[call.i] = a]
            /\ UNCHANGED ref_count /\ Advance(Len(es), "global")
        BY <1>5, <1>10, <2>2, <2>4, <3>1 DEF vm_link_module_inst
      <3>3. instances' = WithAddr(instances, call.vm, New, call.i, a)
        BY <3>2 DEF WithAddr
      <3>4. New \in 1..Len(s) /\ Len(s) \in Nat /\ i \in 1..Len(s[New].addrs)
        BY <1>3, <1>8, <2>1, MachineFacts
      <3>5. /\ a \in Addresses /\ a # NULL /\ a[1] = New /\ a[2] = i
            /\ EntAt(s, a) = ent /\ SizeAt(s, a) = Size(s[New], i)
        <4>1. a[1] = New /\ a[2] = i
          BY <3>1
        <4>2. PICK n : n = New
          OBVIOUS
        <4>3. n \in Nat /\ i \in Nat /\ n # 0
          BY <3>4, <4>2, <1>8
        <4>4. a \in Addresses /\ a # NULL
          BY <3>1, <4>2, <4>3 DEF Addresses, NULL
        <4>5. EntAt(s, a) = ent
          BY <2>3, <4>1 DEF EntAt
        <4>6. SizeAt(s, a) = Size(s[New], i)
          BY <4>1 DEF SizeAt
        <4> QED BY <4>1, <4>4, <4>5, <4>6
      <3>6. Owned(s, a, ent.kind)
        BY <2>4, <3>4, <3>5 DEF Owned, Imported
      <3>7. InLimits(s[New], i)
        BY <1>3, <1>8, <3>4 DEF Sane, Within
      <3>8. Meets(s, a, ent)
        <4>1. ent.from = << >> /\ EntAt(s, a).max <= ent.max
          <5>1. PICK n : n = ent.max
            OBVIOUS
          <5>2. n <= n
            <6>1. n \in Nat
              BY <2>3, <5>1, Zenon
            <6> QED BY <6>1
          <5>3. EntAt(s, a).max <= ent.max
            BY <3>5, <5>1, <5>2, Zenon
          <5>4. ent.from = << >>
            BY <2>4 DEF Imported
          <5> QED BY <5>3, <5>4
        <4>2. ent.kind \in {"mem", "tab"} => ent.min <= SizeAt(s, a) \/ WrapsAround(ent)
          BY <2>3, <3>5, <3>7, <4>1 DEF InLimits
        <4> QED BY <3>5, <3>6, <4>1, <4>2 DEF Meets
      <3>9. Meets(instances[call.vm], a, EntOf(Inst, call.i))
        BY <1>5, <1>8, <2>3, <3>8
      <3>10. call.i \in 1..Len(Desc[call.mod].ents) /\ Advance(Len(Desc[call.mod].ents), "global")
        BY <1>5, <2>1, <3>2
      <3> QED BY <1>1, <1>2, <3>2, <3>3, <3>5, <3>9, <3>10, LinkTo
    <2>5. CASE Imported(ent) /\ (q = 0 \/ x = 0)
      <3>1. Fail
        BY <1>5, <1>6, <1>7, <1>10, <2>2, <2>5 DEF vm_link_module_inst
      <3> QED BY <1>1, <1>2, <3>1, FailStep
    <2>6. CASE Imported(ent) /\ q # 0 /\ x # 0
      <3>1. /\ q \in 1..Len(s) /\ s[q] \in Instances /\ Shaped(s[q])
        <4>1. q \in 1..Len(instances[v])
          BY <1>3, <1>4, <1>5, <1>6, <2>6, FoundInst
        <4> QED BY <1>3, <1>5, <4>1, MachineFacts
      <3>2. x \in 1..Len(s[q].addrs) /\ EntOf(s[q], x).kind = ent.kind
        <4>1. s[q].mod \in Mods /\ Len(s[q].addrs) = Len(Desc[s[q].mod].ents)
          BY <3>1, InstFacts
        <4>2. x = FindExport(s[q].mod, ent.kind, es[i].from[2])
          BY <1>5, <1>7, <2>2
        <4>3. x \in 1..Len(Desc[s[q].mod].ents) /\ Desc[s[q].mod].ents[x].kind = ent.kind
          BY <2>6, <4>1, <4>2, FoundExport
        <4> QED BY <4>1, <4>3 DEF EntOf
      <3>3. PICK a : a = s[q].addrs[x]
        OBVIOUS
      <3>4. a = ExportAddr(v, q, x)
        BY <1>5, <3>3 DEF ExportAddr
      <3>5. CASE a = NULL
        <4>1. Crash("crash")
          BY <1>5, <1>6, <1>7, <1>10, <2>2, <2>6, <3>4, <3>5 DEF vm_link_module_inst
        <4>2. /\ call' = [call EXCEPT !.step = "crash"]
              /\ UNCHANGED <<modules, names, vms, instances, ref_count>>
          BY <1>1, <4>1 DEF Crash
        <4>3. /\ call' \in Calls /\ call'.step = "crash" /\ call'.vm = call.vm
              /\ call'.mod = call.mod /\ call'.i = call.i /\ call'.step \in Crashes
          BY <1>4, <4>2 DEF Calls, Crashes
        <4>4. Lives(instances, call', vms)
          BY <1>1, <1>4, <4>3, LivesCrash
        <4>5. Activations(instances, call', vms, frames', on')
          BY <1>2, NoFrames
        <4>6. q # New => s[q].state = "init_failed"
          <5> SUFFICES ASSUME q # New PROVE s[q].state = "init_failed"
            OBVIOUS
          <5>1. s[q].state \in {"uninitialized", "init_failed", "ready"}
            BY <3>1 DEF Instances
          <5>2. s[q].state # "ready"
            <6>1. Finished(s[q])
              BY <1>3, <1>4, <1>5, <3>1 DEF Lives, Readies
            <6> QED BY <3>2, <3>3, <3>5, <6>1 DEF Finished, Whole
          <5>3. s[q].state # "uninitialized"
            BY <1>1, <1>3, <1>4, <1>5, <3>1 DEF Lives, Settled, New, Crashes
          <5> QED BY <5>1, <5>2, <5>3
        <4>7. DOMAIN instances[v] = 1..Len(s)
          BY <1>3, <1>5, MachineFacts
        <4>8. NullCrash'
          <5>1. CASE q = New
            <6>1. vm_find_module_inst(call.vm, Desc[call.mod].ents[call.i].from[1]) = New
              BY <1>5, <1>6, <5>1
            <6>2. (vm_find_module_inst(call.vm, Desc[call.mod].ents[call.i].from[1]) = New)'
              BY <4>2, <4>3, <6>1 DEF vm_find_module_inst, New
            <6> QED BY <1>2, <1>3, <4>3, <6>2 DEF NullCrash
          <5>2. CASE q # New
            <6>1. q \in DOMAIN instances'[call'.vm] /\ instances'[call'.vm][q].state = "init_failed"
              BY <1>5, <3>1, <4>2, <4>3, <4>6, <4>7, <5>2
            <6> QED BY <1>2, <1>3, <4>3, <6>1 DEF NullCrash
          <5> QED BY <5>1, <5>2
        <4> QED BY <4>2, <4>3, <4>4, <4>5, <4>8, Unmoved
      <3>6. CASE a # NULL /\ ~Fits(v, ent, a)
        <4>1. Fail
          BY <1>5, <1>6, <1>7, <1>10, <2>2, <2>6, <3>4, <3>6 DEF vm_link_module_inst
        <4> QED BY <1>1, <1>2, <4>1, FailStep
      <3>7. CASE a # NULL /\ Fits(v, ent, a)
        <4>1. /\ instances' = [instances EXCEPT ![call.vm][New].addrs[call.i] = a]
              /\ UNCHANGED ref_count /\ Advance(Len(es), "global")
          BY <1>5, <1>6, <1>7, <1>10, <2>2, <2>6, <3>4, <3>7 DEF vm_link_module_inst
        <4>2. instances' = WithAddr(instances, call.vm, New, call.i, a)
          BY <4>1 DEF WithAddr
        <4>3. Owned(s, a, ent.kind) /\ a \in Addresses
          BY <1>3, <1>8, <3>1, <3>2, <3>3, <3>7, SetAddress
        <4>4. PICK y, k, def : y = s[a[1]] /\ k = a[2] /\ def = EntAt(s, a)
          OBVIOUS
        <4>5. /\ y \in Instances /\ Shaped(y) /\ k \in 1..Len(y.addrs) /\ def = EntOf(y, k)
              /\ def.kind = ent.kind /\ def.from = << >> /\ a[1] \in 1..Len(s)
              /\ SizeAt(s, a) = Size(y, k)
          BY <1>3, <1>8, <4>3, <4>4, MachineFacts DEF Owned, EntAt, SizeAt
        <4>6. /\ Size(y, k) \in Nat /\ def.min \in Nat /\ def.max \in Nat
              /\ (def.kind = "mem" => def.type = "")
          <5>1. y.mod \in Mods /\ Len(y.addrs) = Len(Desc[y.mod].ents)
            BY <4>5, InstFacts
          <5> QED BY <4>5, <5>1, InstFacts, DescFacts DEF EntOf
        <4>7. InLimits(y, k)
          BY <1>3, <1>8, <4>4, <4>5 DEF Sane, Within
        <4>8. def = Ent(v, a) /\ y = instances[v][a[1]]
          BY <1>5, <4>4 DEF Ent, EntAt, EntOf
        <4>9. def.type = ent.type
          BY <2>3, <3>7, <4>5, <4>6, <4>8 DEF Fits, Kinds
        <4>10. CASE ent.kind = "mem"
          <5>1. ent.min <= y.pages[k] /\ ent.max >= def.max
            BY <3>7, <4>4, <4>8, <4>10 DEF Fits
          <5>2. Size(y, k) = y.pages[k]
            BY <4>5, <4>10 DEF Size
          <5>3. ent.min <= SizeAt(s, a) /\ EntAt(s, a).max <= ent.max
            BY <2>3, <4>4, <4>5, <4>6, <5>1, <5>2
          <5>4. Meets(s, a, ent)
            BY <4>3, <4>4, <4>9, <5>3 DEF Meets
          <5> QED BY <1>1, <1>2, <1>5, <1>8, <2>1, <2>3, <3>7, <4>1, <4>2, <4>3, <5>4, LinkTo
        <4>11. CASE ent.kind = "tab"
          <5>1. ent.min <= def.min /\ ent.max >= def.max
            BY <3>7, <4>8, <4>11 DEF Fits
          <5>2. def.min <= Size(y, k)
            BY <4>5, <4>7, <4>11 DEF InLimits, WrapsAround
          <5>3. PICK e, d, z : e = ent.min /\ d = def.min /\ z = Size(y, k)
            OBVIOUS
          <5>4. e \in Nat /\ d \in Nat /\ z \in Nat /\ e <= d /\ d <= z
            BY <2>3, <4>6, <5>1, <5>2, <5>3
          <5>5. e <= z
            BY <5>4
          <5>6. EntAt(s, a).max <= ent.max
            BY <2>3, <4>4, <4>6, <5>1
          <5>7. ent.min <= SizeAt(s, a)
            BY <4>5, <5>3, <5>5
          <5>8. Meets(s, a, ent)
            BY <4>3, <4>4, <4>9, <5>6, <5>7 DEF Meets
          <5> QED BY <1>1, <1>2, <1>5, <1>8, <2>1, <2>3, <3>7, <4>1, <4>2, <4>3, <5>8, LinkTo
        <4>12. CASE ent.kind \notin {"mem", "tab"}
          <5>1. Meets(s, a, ent)
            BY <4>3, <4>4, <4>9, <4>12 DEF Meets
          <5> QED BY <1>1, <1>2, <1>5, <1>8, <2>1, <2>3, <3>7, <4>1, <4>2, <4>3, <5>1, LinkTo
        <4> QED BY <4>10, <4>11, <4>12
      <3> QED BY <3>5, <3>6, <3>7
    <2> QED BY <2>4, <2>5, <2>6
  <1> QED BY <1>9, <1>10

\* module_inst_init_global.
LEMMA GlobalStep ==
  ASSUME Inv, module_inst_init_global, UNCHANGED thvars
  PROVE  Inv'
  <1>1. call.step = "global" /\ call.step \in Steps /\ UNCHANGED <<modules, names, vms>>
    BY DEF module_inst_init_global, At, Steps
  <1>2. frames' = << >>
    BY <1>1, NotRunning DEF thvars
  <1>3. call \in Calls /\ call.i \in Nat
    BY InvFacts DEF Calls
  <1>4. Progress(Inst, call) /\ call.mod \in Mods
    BY <1>1, StepFacts
  <1>5. CASE Fail
    BY <1>1, <1>2, <1>5, FailStep
  <1>6. CASE Advance(0, "elem") /\ UNCHANGED <<instances, ref_count>>
    <2>1. /\ call' \in Calls /\ call'.vm = call.vm /\ call'.mod = call.mod
          /\ call'.step = "elem" /\ call'.i = 1 /\ call'.step \in Steps
      BY <1>1, <1>3, <1>6, AdvanceFacts DEF Steps
    <2>2. Items(call') \in Nat
      BY <1>4, <2>1, ItemsNat
    <2>3. 1 >= 1 /\ (1 <= Items(call') \/ Items(call') = 0)
      BY <2>2
    <2>4. ElementsDone(Inst, call'.i - 1)
      BY <2>1 DEF ElementsDone
    <2>5. Progress(Inst, call')
      BY <1>1, <1>4, <2>1, <2>3, <2>4 DEF Progress
    <2> QED BY <1>1, <1>2, <1>6, <2>1, <2>5, GoOnSame
  <1> QED BY <1>5, <1>6 DEF module_inst_init_global

\* The items of element segment i that name something name functions, and only a
\* module with references reads globals.
FuncItems(m, i) ==
  \A j \in 1..Len(Desc[m].elements[i].items) :
    Desc[m].elements[i].items[j] \notin {-1, 0} =>
      \/ Desc[m].elements[i].items[j] = -2 /\ Desc[m].refs
      \/ /\ Desc[m].elements[i].items[j] \in 1..Len(Desc[m].ents)
         /\ Desc[m].ents[Desc[m].elements[i].items[j]].kind = "func"

\* What the segments of a module are.
LEMMA SegmentFacts ==
  ASSUME NEW m \in Mods
  PROVE  /\ \A i \in 1..Len(Desc[m].elements) :
              /\ Desc[m].elements[i] \in Elements
              /\ Desc[m].elements[i].at # 0 =>
                   /\ Desc[m].elements[i].at \in 1..Len(Desc[m].ents)
                   /\ Desc[m].ents[Desc[m].elements[i].at].kind = "tab"
              /\ FuncItems(m, i)
         /\ \A i \in 1..Len(Desc[m].data) :
              /\ Desc[m].data[i] \in Segments
              /\ Desc[m].data[i].at # 0 =>
                   /\ Desc[m].data[i].at \in 1..Len(Desc[m].ents)
                   /\ Desc[m].ents[Desc[m].data[i].at].kind = "mem"
  <1>1. /\ Desc[m].ents \in Seq(Entities) /\ Desc[m].elements \in Seq(Elements)
        /\ Desc[m].data \in Seq(Segments)
    BY DescFacts
  <1>2. /\ DOMAIN Desc[m].ents = 1..Len(Desc[m].ents)
        /\ DOMAIN Desc[m].elements = 1..Len(Desc[m].elements)
        /\ DOMAIN Desc[m].data = 1..Len(Desc[m].data)
        /\ \A i \in 1..Len(Desc[m].elements) : Desc[m].elements[i] \in Elements
        /\ \A i \in 1..Len(Desc[m].data) : Desc[m].data[i] \in Segments
    BY <1>1
  <1>3. /\ \A i \in DOMAIN Desc[m].elements :
             /\ Desc[m].elements[i].at # 0 =>
                  /\ Desc[m].elements[i].at \in DOMAIN Desc[m].ents
                  /\ Desc[m].ents[Desc[m].elements[i].at].kind = "tab"
             /\ \A j \in DOMAIN Desc[m].elements[i].items :
                  \/ Desc[m].elements[i].items[j] \in {-1, 0}
                  \/ Desc[m].elements[i].items[j] = -2 /\ Desc[m].refs
                  \/ /\ Desc[m].elements[i].items[j] \in DOMAIN Desc[m].ents
                     /\ Desc[m].ents[Desc[m].elements[i].items[j]].kind = "func"
        /\ \A i \in DOMAIN Desc[m].data :
             Desc[m].data[i].at # 0 =>
               /\ Desc[m].data[i].at \in DOMAIN Desc[m].ents
               /\ Desc[m].ents[Desc[m].data[i].at].kind = "mem"
    BY DescAssumption, Zenon
  <1>4. \A e \in Elements : DOMAIN e.items = 1..Len(e.items)
    BY DEF Elements
  <1>5. ASSUME NEW i \in 1..Len(Desc[m].elements)
        PROVE  /\ Desc[m].elements[i].at # 0 =>
                    /\ Desc[m].elements[i].at \in 1..Len(Desc[m].ents)
                    /\ Desc[m].ents[Desc[m].elements[i].at].kind = "tab"
               /\ FuncItems(m, i)
    <2>1. Desc[m].elements[i] \in Elements
      BY <1>2
    <2>2. DOMAIN Desc[m].elements[i].items = 1..Len(Desc[m].elements[i].items)
      BY <1>4, <2>1
    <2> QED BY <1>2, <1>3, <1>5, <2>2, Zenon DEF FuncItems
  <1>6. \A i \in 1..Len(Desc[m].data) : Desc[m].data[i].at # 0 =>
          /\ Desc[m].data[i].at \in 1..Len(Desc[m].ents)
          /\ Desc[m].ents[Desc[m].data[i].at].kind = "mem"
    BY <1>2, <1>3
  <1> QED BY <1>2, <1>5, <1>6

\* The instance under construction has the address of every entity.
LEMMA OwnAddress ==
  ASSUME Inv, call.step \in Steps, call.step # "link",
         NEW k \in 1..Len(Desc[call.mod].ents)
  PROVE  /\ Inst.addrs[k] \in Addresses
         /\ Owned(instances[call.vm], Inst.addrs[k], Desc[call.mod].ents[k].kind)
  <1>1. /\ New \in 1..Len(instances[call.vm]) /\ Inst \in Instances /\ Shaped(Inst)
        /\ Progress(Inst, call) /\ Machine(instances[call.vm]) /\ Sane(instances[call.vm])
    BY StepFacts
  <1>2. Whole(Inst) /\ Inst.mod = call.mod
    BY <1>1 DEF Progress
  <1>3. k \in 1..Len(Inst.addrs)
    BY <1>1, <1>2, InstFacts
  <1>4. PICK s, n : s = instances[call.vm] /\ n = New
    OBVIOUS
  <1>5. Inst = s[n]
    BY <1>4 DEF Inst
  <1>6. s[n].addrs[k] # NULL
    BY <1>2, <1>3, <1>5 DEF Whole
  <1>7. /\ Owned(s, s[n].addrs[k], EntOf(s[n], k).kind) /\ s[n].addrs[k] \in Addresses
    BY <1>1, <1>3, <1>4, <1>5, <1>6, SetAddress
  <1>8. EntOf(s[n], k) = Desc[call.mod].ents[k]
    BY <1>2, <1>5 DEF EntOf
  <1> QED BY <1>4, <1>5, <1>7, <1>8

\* The first n items of el, the segment i of the module, can be copied.
Copyable(i, el, n) ==
  /\ i \in 1..Len(Desc[call.mod].elements) /\ el = Desc[call.mod].elements[i]
  /\ n \in Nat /\ n <= Len(el.items) /\ \A k \in 1..n : el.items[k] # -1
IsCopied(u, td, el, n) ==
  \E got \in [GlobalItems(el) -> AnyRefs(call.vm)] : u = Copied(td, el, n, got)

\* What an item leaves in a table: a global's value only if the module has
\* references.
ItemsCopied(u, td) ==
  /\ u = [j \in 1..Len(td) |-> u[j]]
  /\ \A j \in 1..Len(td) :
       \/ u[j] = td[j] \/ u[j] = nullref
       \/ u[j] \in AnyRefs(call.vm) /\ Desc[call.mod].refs
       \/ u[j] \in Addresses /\ Owned(instances[call.vm], u[j], "func")
LEMMA CopiedItem ==
  ASSUME Inv, call.step = "elem", NEW i, NEW el, NEW td \in Seq(Addresses),
         NEW n, Copyable(i, el, n), NEW u, IsCopied(u, td, el, n)
  PROVE  ItemsCopied(u, td)
  <1>1. call.mod \in Mods /\ call.step \in Steps /\ call.step # "link"
    BY StepFacts DEF Steps
  <1>2. /\ i \in 1..Len(Desc[call.mod].elements) /\ el = Desc[call.mod].elements[i]
        /\ n \in Nat /\ n <= Len(el.items) /\ \A k \in 1..n : el.items[k] # -1
    BY DEF Copyable
  <1>3. el \in Elements
    BY <1>2, <1>1, SegmentFacts
  <1>4. /\ el.items \in Seq(Int) /\ Len(el.items) \in Nat /\ el.offset \in Nat
        /\ DOMAIN td = 1..Len(td) /\ Len(td) \in Nat
    BY <1>3 DEF Elements
  <1>5. PICK got \in [GlobalItems(el) -> AnyRefs(call.vm)] : u = Copied(td, el, n, got)
    BY DEF IsCopied
  <1>6. /\ u = [j \in 1..Len(td) |-> u[j]]
        /\ \A j \in 1..Len(td) :
             u[j] = IF j - el.offset \notin 1..n THEN td[j]
                    ELSE IF j - el.offset \in GlobalItems(el) THEN got[j - el.offset]
                    ELSE Ref(el.items[j - el.offset])
    BY <1>4, <1>5 DEF Copied
  <1>7. ASSUME NEW k \in 1..n
        PROVE  /\ k \in GlobalItems(el) => got[k] \in AnyRefs(call.vm) /\ Desc[call.mod].refs
               /\ k \notin GlobalItems(el) =>
                    \/ Ref(el.items[k]) = nullref
                    \/ /\ Ref(el.items[k]) \in Addresses
                       /\ Owned(instances[call.vm], Ref(el.items[k]), "func")
    <2>1. k \in 1..Len(el.items) /\ el.items[k] # -1
      BY <1>2, <1>4, <1>7
    <2>2. PICK item : item = el.items[k]
      OBVIOUS
    <2>3. item \notin {-1, 0} =>
            \/ item = -2 /\ Desc[call.mod].refs
            \/ /\ item \in 1..Len(Desc[call.mod].ents)
               /\ Desc[call.mod].ents[item].kind = "func"
      <3>1. FuncItems(call.mod, i)
        BY <1>2, <1>1, SegmentFacts
      <3>2. k \in 1..Len(Desc[call.mod].elements[i].items)
        BY <1>2, <2>1
      <3> QED BY <1>2, <2>2, <3>1, <3>2, Zenon DEF FuncItems
    <2>4. k \in GlobalItems(el) <=> item = -2
      <3>1. DOMAIN el.items = 1..Len(el.items)
        BY <1>4
      <3> QED BY <2>1, <2>2, <3>1 DEF GlobalItems
    <2>5. CASE item = -2
      <3>1. item \notin {-1, 0} /\ \A j \in Nat : j # item
        BY <2>5
      <3>2. Desc[call.mod].refs
        BY <2>3, <3>1
      <3> QED BY <1>5, <2>4, <2>5, <3>2
    <2>6. CASE item = 0
      BY <2>2, <2>4, <2>6 DEF Ref
    <2>7. CASE item \notin {-2, 0}
      <3>1. item \notin {-1, 0} /\ item # -2
        BY <2>1, <2>2, <2>7
      <3>2. Inst.addrs[item] \in Addresses /\ Owned(instances[call.vm], Inst.addrs[item], "func")
        BY <1>1, <2>3, <3>1, OwnAddress
      <3>3. Ref(item) = Inst.addrs[item]
        BY <3>1 DEF Ref
      <3> QED BY <2>2, <2>4, <3>1, <3>2, <3>3
    <2> QED BY <2>5, <2>6, <2>7
  <1>8. ASSUME NEW j \in 1..Len(td)
        PROVE  \/ u[j] = td[j] \/ u[j] = nullref
               \/ u[j] \in AnyRefs(call.vm) /\ Desc[call.mod].refs
               \/ u[j] \in Addresses /\ Owned(instances[call.vm], u[j], "func")
    <2>1. PICK k : k = j - el.offset
      OBVIOUS
    <2>2. u[j] = IF k \notin 1..n THEN td[j]
                 ELSE IF k \in GlobalItems(el) THEN got[k] ELSE Ref(el.items[k])
      BY <1>6, <2>1
    <2> QED BY <1>7, <2>2
  <1> QED BY <1>6, <1>8 DEF ItemsCopied

\* The contents that an element segment leaves in a table.
LEMMA CopiedRefs ==
  ASSUME Inv, call.step = "elem", NEW i, NEW el, NEW td \in Seq(Addresses),
         NEW n, Copyable(i, el, n), NEW u, IsCopied(u, td, el, n)
  PROVE  u \in Seq(Addresses) /\ Len(u) = Len(td) /\ RefsFrom(instances[call.vm], td, u)
  <1>1. call.vm \in VMs
    BY StepFacts DEF Steps
  <1>2. /\ u = [j \in 1..Len(td) |-> u[j]]
        /\ \A j \in 1..Len(td) :
             \/ u[j] = td[j] \/ u[j] = nullref
             \/ u[j] \in AnyRefs(call.vm) /\ Desc[call.mod].refs
             \/ u[j] \in Addresses /\ Owned(instances[call.vm], u[j], "func")
    <2>1. ItemsCopied(u, td)
      BY CopiedItem
    <2> QED BY <2>1 DEF ItemsCopied
  <1>3. \A j \in 1..Len(td) :
          \/ u[j] = td[j]
          \/ u[j] \in Addresses /\ (u[j] \in Nothing \/ Owned(instances[call.vm], u[j], "func"))
    <2>1. nullref \in Addresses /\ nullref \in Nothing
      BY DEF nullref, Addresses, Nothing
    <2> QED BY <1>1, <1>2, <2>1, AnyRefFacts
  <1>4. Len(td) \in Nat /\ \A j \in 1..Len(td) : td[j] \in Addresses
    OBVIOUS
  <1>5. \A j \in 1..Len(td) : u[j] \in Addresses
    BY <1>3, <1>4
  <1>6. u \in Seq(Addresses) /\ Len(u) = Len(td)
    <2>1. u \in [1..Len(td) -> Addresses]
      BY <1>2, <1>5
    <2> QED BY <1>4, <2>1
  <1>7. RefsFrom(instances[call.vm], td, u)
    BY <1>3, <1>6 DEF RefsFrom
  <1> QED BY <1>6, <1>7

\* The length of a sequence is a number.
LEMMA SeqLen ==
  ASSUME NEW S, NEW q \in Seq(S)
  PROVE  Len(q) \in Nat /\ Len(q) <= Len(q)
  OBVIOUS

\* No element of a table is 0.
NoZeros(u) == \A j \in DOMAIN u : u[j] # NULL

\* A table that gets contents without a 0 leaves its machine free of it.
LEMMA ZeroPut ==
  ASSUME NEW I \in [VMs -> Seq(Instances)], NEW v, NEW p, NEW k, NEW u,
         NEW J, J = WithTable(I, v, p, k, u),
         NoZeros(u), NEW w \in VMs, ZeroFree(I[w])
  PROVE  ZeroFree(J[w])
  <1>1. PICK x, X, n, t : /\ x = I[v][p] /\ X = [x.tdata EXCEPT ![k] = u]
                          /\ n = [x EXCEPT !.tdata = X] /\ t = [I[v] EXCEPT ![p] = n]
    OBVIOUS
  <1>2. J = [I EXCEPT ![v] = t]
    BY <1>1 DEF WithTable
  <1>3. CASE w # v
    BY <1>2, <1>3
  <1>4. CASE w = v
    <2>1. J[w] = t /\ DOMAIN t = DOMAIN I[w]
      BY <1>1, <1>2, <1>4
    <2> SUFFICES ASSUME NEW q \in DOMAIN I[w], NEW i \in DOMAIN t[q].tdata,
                        NEW j \in DOMAIN t[q].tdata[i]
                 PROVE  t[q].tdata[i][j] # NULL
      BY <2>1 DEF ZeroFree
    <2>2. CASE q # p
      <3>1. t[q] = I[w][q]
        BY <1>1, <1>4, <2>2
      <3> QED BY <3>1 DEF ZeroFree
    <2>3. CASE q = p
      <3>1. t[q] = n /\ x = I[w][q] /\ x \in Instances
        BY <1>1, <1>4, <2>3
      <3>2. n.tdata = X
        BY <1>1, <3>1 DEF Instances
      <3>3. i \in DOMAIN x.tdata /\ X[i] = IF i = k THEN u ELSE x.tdata[i]
        BY <1>1, <3>1, <3>2
      <3> QED BY <3>1, <3>2, <3>3 DEF ZeroFree, NoZeros
    <2> QED BY <2>2, <2>3
  <1> QED BY <1>3, <1>4

\* Segment el goes to the table at a, with the contents td.
Target(el, a, td) ==
  /\ el.at # 0 /\ a = Inst.addrs[el.at]
  /\ td = instances[call.vm][a[1]].tdata[a[2]]

\* The instances after an element segment was copied, the whole of it or a part.
LEMMA CopyStep ==
  ASSUME Inv, call.step = "elem", NEW i, NEW el, NEW a, NEW td, Target(el, a, td),
         NEW n, Copyable(i, el, n), NEW u, IsCopied(u, td, el, n), NEW K,
         K = WithTable(instances, call.vm, a[1], a[2], u)
  PROVE  /\ Machines(K) /\ World(K) /\ Only(instances, K, call.vm)
         /\ SameStates(instances, K, call.vm) /\ SameAddrs(instances, K, call.vm)
         /\ SameElements(instances, K, call.vm) /\ SameData(instances, K, call.vm)
         /\ ZeroFree(instances[call.vm]) /\ ~Desc[call.mod].refs => ZeroFree(K[call.vm])
  <1>1. /\ call.vm \in VMs /\ call.mod \in Mods /\ Machine(instances[call.vm])
        /\ call.step \in Steps /\ call.step # "link"
    BY StepFacts DEF Steps
  <1>2. Machines(instances) /\ World(instances) /\ instances \in [VMs -> Seq(Instances)]
    BY InvFacts DEF Machines
  <1>3. el.at \in 1..Len(Desc[call.mod].ents) /\ Desc[call.mod].ents[el.at].kind = "tab"
    BY <1>1, SegmentFacts DEF Copyable, Target
  <1>4. a \in Addresses /\ Owned(instances[call.vm], a, "tab")
    BY <1>1, <1>3, OwnAddress DEF Target
  <1>5. PICK v, s, p, k : v = call.vm /\ s = instances[call.vm] /\ p = a[1] /\ k = a[2]
    OBVIOUS
  <1>6. p \in 1..Len(s) /\ k \in 1..Len(s[p].addrs)
    BY <1>4, <1>5 DEF Owned
  <1>7. s[p] \in Instances /\ Shaped(s[p])
    BY <1>1, <1>5, <1>6, MachineFacts
  <1>8. td = s[p].tdata[k] /\ td \in Seq(Addresses) /\ k \in 1..Len(s[p].tdata)
    BY <1>5, <1>6, <1>7, InstFacts DEF Target
  <1>9. u \in Seq(Addresses) /\ Len(u) = Len(td) /\ RefsFrom(s, td, u)
    <2>1. td \in Seq(Addresses)
      BY <1>8
    <2>2. u \in Seq(Addresses) /\ Len(u) = Len(td) /\ RefsFrom(instances[call.vm], td, u)
      BY <2>1, CopiedRefs
    <2> QED BY <1>5, <2>2, Zenon
  <1>10. Len(td) <= Len(u)
    <2>1. td \in Seq(Addresses)
      BY <1>8
    <2>2. Len(td) <= Len(td)
      BY <2>1, SeqLen, Zenon
    <2> QED BY <1>9, <2>2, Zenon
  <1>11. Machines(K) /\ World(K)
    <2>1. p \in 1..Len(instances[v]) /\ k \in 1..Len(instances[v][p].addrs)
      BY <1>5, <1>6
    <2>2. /\ Len(instances[v][p].tdata[k]) <= Len(u) /\ Len(u) = Len(instances[v][p].tdata[k])
          /\ RefsFrom(instances[v], instances[v][p].tdata[k], u)
      BY <1>5, <1>8, <1>9, <1>10, Zenon
    <2>3. v \in VMs /\ K = WithTable(instances, v, p, k, u)
      BY <1>1, <1>5
    <2> QED BY <1>2, <1>9, <2>1, <2>2, <2>3, TableStep
  <1>12. /\ Only(instances, K, v) /\ SameStates(instances, K, v) /\ SameAddrs(instances, K, v)
         /\ SameElements(instances, K, v) /\ SameData(instances, K, v)
    BY <1>1, <1>2, <1>5, <1>6, <1>8, <1>9, PutTable
  <1>13. ASSUME ZeroFree(s), ~Desc[call.mod].refs
         PROVE  ZeroFree(K[v])
    <2>1. NoZeros(u)
      <3> SUFFICES ASSUME NEW j \in DOMAIN u PROVE u[j] # NULL
        BY DEF NoZeros
      <3>1. td \in Seq(Addresses)
        BY <1>8
      <3>2. ItemsCopied(u, td)
        BY <3>1, CopiedItem
      <3>3. j \in 1..Len(td) /\ j \in DOMAIN td
        BY <1>8, <1>9
      <3>6. p \in DOMAIN s /\ k \in DOMAIN s[p].tdata
        <4>1. DOMAIN s = 1..Len(s) /\ DOMAIN s[p].tdata = 1..Len(s[p].tdata)
          BY <1>1, <1>5, <1>7, MachineFacts, InstFacts
        <4> QED BY <1>6, <1>8, <4>1
      <3>7. td[j] # NULL
        BY <1>8, <1>13, <3>3, <3>6 DEF ZeroFree
      <3>4. nullref # NULL
        BY DEF nullref, NULL
      <3>5. ~Owned(s, NULL, "func")
        BY DEF Owned, NULL
      <3> QED BY <1>5, <1>13, <3>2, <3>3, <3>4, <3>5, <3>7 DEF ItemsCopied
    <2>2. K = WithTable(instances, v, p, k, u) /\ ZeroFree(instances[v]) /\ v \in VMs
      BY <1>1, <1>5, <1>13
    <2> QED BY <1>2, <2>1, <2>2, ZeroPut
  <1> QED BY <1>5, <1>11, <1>12, <1>13

\* Another element is done.
LEMMA ElementNext ==
  ASSUME Inv, call.step = "elem", call.i \in 1..Len(Desc[call.mod].elements),
         Advance(Len(Desc[call.mod].elements), "data"), NEW y, NEW b,
         y.mod = Inst.mod, y.state = Inst.state, y.addrs = Inst.addrs,
         y.dropped_data = Inst.dropped_data,
         Len(y.dropped_elements) = Len(Inst.dropped_elements),
         \A j \in 1..Len(Inst.dropped_elements) :
           y.dropped_elements[j] = IF j = call.i THEN b ELSE Inst.dropped_elements[j],
         Desc[call.mod].elements[call.i].mode = "active" => b
  PROVE  /\ call' \in Calls /\ call'.step \in Steps /\ call'.vm = call.vm
         /\ call'.mod = call.mod /\ Progress(y, call')
  <1>1. /\ call.mod \in Mods /\ Inst \in Instances /\ Shaped(Inst) /\ Progress(Inst, call)
        /\ call.step \in Steps /\ call \in Calls
    BY StepFacts, InvFacts DEF Steps
  <1>2. PICK x, i, n : x = Inst /\ i = call.i /\ n = Len(Desc[call.mod].elements)
    OBVIOUS
  <1>3. x.mod = call.mod /\ Len(x.dropped_elements) = n /\ n \in Nat /\ i \in 1..n
    <2>1. x.mod = call.mod
      BY <1>1, <1>2 DEF Progress
    <2>2. Len(x.dropped_elements) = n
      BY <1>1, <1>2, <2>1, InstFacts
    <2>3. Desc[call.mod].elements \in Seq(Elements)
      BY <1>1, DescFacts
    <2> QED BY <1>2, <2>1, <2>2, <2>3
  <1>4. /\ call' \in Calls /\ call'.vm = call.vm /\ call'.mod = call.mod /\ call'.step \in Steps
        /\ \/ i < n /\ call'.step = "elem" /\ call'.i = i + 1
           \/ ~(i < n) /\ call'.step = "data" /\ call'.i = 1
    BY <1>1, <1>2, AdvanceFacts DEF Steps
  <1>5. Whole(y) /\ NoData(y) /\ y.mod = call'.mod /\ y.state = "uninitialized"
    BY <1>1, <1>2, <1>3, <1>4 DEF Progress, Whole, NoData
  <1>6. ElementsDone(y, i)
    <2> SUFFICES ASSUME NEW j \in 1..i, Desc[y.mod].elements[j].mode = "active"
                 PROVE  y.dropped_elements[j]
      BY DEF ElementsDone
    <2>1. j \in 1..n /\ (j = i \/ j \in 1..(i - 1))
      BY <1>3
    <2>2. CASE j = i
      <3>1. b /\ y.dropped_elements[j] = b
        BY <1>2, <1>3, <2>1, <2>2
      <3> QED BY <3>1
    <2>3. CASE j # i
      <3>1. ElementsDone(x, i - 1)
        BY <1>1, <1>2 DEF Progress
      <3>2. x.dropped_elements[j]
        BY <1>2, <2>1, <2>3, <3>1 DEF ElementsDone
      <3>3. y.dropped_elements[j] = x.dropped_elements[j]
        BY <1>2, <1>3, <2>1, <2>3
      <3> QED BY <3>2, <3>3
    <2> QED BY <2>2, <2>3
  <1>7. CASE i < n /\ call'.step = "elem" /\ call'.i = i + 1
    <2>1. Items(call') = n
      BY <1>2, <1>4, <1>7 DEF Items
    <2>2. call'.i >= 1 /\ call'.i <= Items(call') /\ call'.i - 1 = i
      BY <1>3, <1>7, <2>1
    <2>3. Progress(y, call')
      BY <1>5, <1>6, <1>7, <2>2 DEF Progress
    <2> QED BY <1>4, <2>3
  <1>8. CASE ~(i < n) /\ call'.step = "data" /\ call'.i = 1
    <2>1. Items(call') \in Nat
      BY <1>1, <1>4, ItemsNat
    <2>2. call'.i >= 1 /\ (call'.i <= Items(call') \/ Items(call') = 0) /\ call'.i - 1 = 0
      BY <1>8, <2>1
    <2>3. AllElements(y)
      <3>1. i = Len(y.dropped_elements)
        BY <1>2, <1>3, <1>8
      <3> QED BY <1>6, <3>1 DEF AllElements
    <2>4. DataDone(y, call'.i - 1)
      BY <2>2 DEF DataDone
    <2>5. Progress(y, call')
      BY <1>5, <1>8, <2>2, <2>3, <2>4 DEF Progress
    <2> QED BY <1>4, <2>5
  <1> QED BY <1>4, <1>7, <1>8

\* K differs from I in the contents of tables of machine v at most.
Touched(I, K, v) ==
  /\ Machines(K) /\ World(K) /\ Only(I, K, v)
  /\ SameStates(I, K, v) /\ SameAddrs(I, K, v) /\ SameElements(I, K, v) /\ SameData(I, K, v)

\* An element segment is marked, after its items were copied.
LEMMA MarkElement ==
  ASSUME Inv, call.step = "elem", frames' = << >>, UNCHANGED <<modules, names, vms, ref_count>>,
         call.i \in 1..Len(Desc[call.mod].elements), NEW K, Touched(instances, K, call.vm),
         NEW b \in BOOLEAN, Desc[call.mod].elements[call.i].mode = "active" => b,
         instances' = WithElement(K, call.vm, New, call.i, b),
         Advance(Len(Desc[call.mod].elements), "data")
  PROVE  Inv'
  <1>1. /\ call.vm \in VMs /\ call.mod \in Mods /\ New \in 1..Len(instances[call.vm])
        /\ Inst \in Instances /\ Shaped(Inst) /\ Progress(Inst, call) /\ call.step \in Steps
    BY StepFacts DEF Steps
  <1>2. PICK v, n, i : v = call.vm /\ n = New /\ i = call.i
    OBVIOUS
  <1>3. /\ Machines(K) /\ World(K) /\ Only(instances, K, v) /\ SameStates(instances, K, v)
        /\ SameAddrs(instances, K, v) /\ SameElements(instances, K, v)
        /\ SameData(instances, K, v) /\ K \in [VMs -> Seq(Instances)]
    BY <1>2 DEF Touched, Machines
  <1>4. PICK x, k, y : x = instances[v][n] /\ k = K[v][n] /\ y = instances'[v][n]
    OBVIOUS
  <1>5. /\ x = Inst /\ k.mod = x.mod /\ k.state = x.state /\ k.addrs = x.addrs
        /\ k.dropped_elements = x.dropped_elements /\ k.dropped_data = x.dropped_data
        /\ n \in 1..Len(K[v]) /\ n \in 1..Len(instances[v])
    BY <1>1, <1>2, <1>3, <1>4
       DEF Inst, Only, SameStates, SameAddrs, SameElements, SameData
  <1>6. i \in 1..Len(K[v][n].dropped_elements)
    <2>1. Inst.mod = call.mod
      BY <1>1 DEF Progress
    <2>2. Len(Inst.dropped_elements) = Len(Desc[call.mod].elements)
      BY <1>1, <2>1, InstFacts
    <2> QED BY <1>2, <1>4, <1>5, <2>2
  <1>7. /\ Only(K, instances', v) /\ SameStates(K, instances', v) /\ SameAddrs(K, instances', v)
        /\ SamePages(K, instances', v) /\ SameTables(K, instances', v)
        /\ SameData(K, instances', v) /\ ElementPut(K, instances', v, n, i, b)
    BY <1>1, <1>2, <1>3, <1>5, <1>6, PutElement
  <1>8. SameLens(K, instances', v)
    BY <1>7 DEF SameAddrs, SamePages, SameTables, SameData, ElementPut, SameLens
  <1>9. Machines(instances') /\ World(instances')
    BY <1>1, <1>2, <1>3, <1>7, <1>8, MarkStep
  <1>10. Only(instances, instances', v)
    BY <1>3, <1>7 DEF Only
  <1>11. Kept(instances, instances', v, n)
    <2> SUFFICES ASSUME NEW p \in 1..Len(instances[v]), p # n
                 PROVE  /\ instances'[v][p].state = instances[v][p].state
                        /\ instances'[v][p].addrs = instances[v][p].addrs
                        /\ instances'[v][p].dropped_elements = instances[v][p].dropped_elements
                        /\ instances'[v][p].dropped_data = instances[v][p].dropped_data
      BY DEF Kept
    <2>1. p \in 1..Len(K[v]) /\ p \in 1..Len(instances'[v])
      BY <1>3, <1>7 DEF Only
    <2>2. /\ Len(instances'[v][p].dropped_elements) = Len(K[v][p].dropped_elements)
          /\ \A j \in 1..Len(K[v][p].dropped_elements) :
               instances'[v][p].dropped_elements[j] = K[v][p].dropped_elements[j]
      BY <1>7, <2>1 DEF ElementPut
    <2>3. K[v][p] \in Instances /\ instances'[v][p] \in Instances
      BY <1>1, <1>2, <1>3, <1>9, <2>1 DEF Machines
    <2>4. /\ K[v][p].dropped_elements \in Seq(BOOLEAN)
          /\ instances'[v][p].dropped_elements \in Seq(BOOLEAN)
      BY <2>3 DEF Instances
    <2>5. instances'[v][p].dropped_elements = K[v][p].dropped_elements
      BY <2>2, <2>4, SMTT(30)
    <2>6. /\ instances'[v][p].state = K[v][p].state /\ instances'[v][p].addrs = K[v][p].addrs
          /\ instances'[v][p].dropped_data = K[v][p].dropped_data
      BY <1>7, <2>1 DEF SameStates, SameAddrs, SameData
    <2> QED BY <1>3, <2>5, <2>6 DEF SameStates, SameAddrs, SameElements, SameData
  <1>12. /\ y.mod = x.mod /\ y.state = x.state /\ y.addrs = x.addrs
         /\ y.dropped_data = x.dropped_data
         /\ Len(y.dropped_elements) = Len(x.dropped_elements)
         /\ \A j \in 1..Len(x.dropped_elements) :
              y.dropped_elements[j] = IF j = i THEN b ELSE x.dropped_elements[j]
    <2>1. /\ y.mod = k.mod /\ y.state = k.state /\ y.addrs = k.addrs
          /\ y.dropped_data = k.dropped_data
      BY <1>4, <1>5, <1>7 DEF Only, SameStates, SameAddrs, SameData
    <2>2. /\ Len(y.dropped_elements) = Len(k.dropped_elements)
          /\ \A j \in 1..Len(k.dropped_elements) :
               y.dropped_elements[j] = IF j = i THEN b ELSE k.dropped_elements[j]
      BY <1>4, <1>5, <1>7 DEF ElementPut
    <2> QED BY <1>5, <2>1, <2>2
  <1>13. /\ call' \in Calls /\ call'.step \in Steps /\ call'.vm = call.vm
         /\ call'.mod = call.mod /\ Progress(y, call')
    BY <1>2, <1>5, <1>12, ElementNext
  <1> QED BY <1>1, <1>2, <1>4, <1>9, <1>10, <1>11, <1>13, GoOn

\* An element segment that is copied in part: the construction has failed.
LEMMA FailTouched ==
  ASSUME Inv, call.step = "elem", frames' = << >>, UNCHANGED <<modules, names, vms, ref_count>>,
         NEW K, Touched(instances, K, call.vm),
         instances' = WithState(K, call.vm, New, "init_failed"),
         call' = [call EXCEPT !.step = "err"]
  PROVE  Inv'
  <1>1. /\ call.vm \in VMs /\ New \in 1..Len(instances[call.vm]) /\ call.step \in Steps
        /\ Machines(instances) /\ Lives(instances, call, vms) /\ vms \in SUBSET VMs
        /\ call \in Calls
    BY StepFacts, InvFacts DEF Steps
  <1>2. PICK v, n : v = call.vm /\ n = New
    OBVIOUS
  <1>3. /\ Machines(K) /\ World(K) /\ Only(instances, K, v) /\ SameStates(instances, K, v)
        /\ SameAddrs(instances, K, v) /\ SameElements(instances, K, v)
        /\ SameData(instances, K, v) /\ K \in [VMs -> Seq(Instances)]
    BY <1>2 DEF Touched, Machines
  <1>4. n \in 1..Len(K[v]) /\ n \in 1..Len(instances[v])
    BY <1>1, <1>2, <1>3 DEF Only
  <1>5. /\ Only(K, instances', v) /\ SameAddrs(K, instances', v)
        /\ SamePages(K, instances', v) /\ SameTables(K, instances', v)
        /\ SameElements(K, instances', v) /\ SameData(K, instances', v)
        /\ StatePut(K, instances', v, n, "init_failed")
    BY <1>1, <1>2, <1>3, <1>4, PutState
  <1>6. SameLens(K, instances', v)
    BY <1>5 DEF SameAddrs, SamePages, SameTables, SameElements, SameData, SameLens
  <1>7. Machines(instances') /\ World(instances')
    BY <1>1, <1>2, <1>3, <1>5, <1>6, MarkStep
  <1>8. Only(instances, instances', v)
    BY <1>3, <1>5 DEF Only
  <1>9. Kept(instances, instances', v, n)
    <2> SUFFICES ASSUME NEW p \in 1..Len(instances[v]), p # n
                 PROVE  /\ instances'[v][p].state = instances[v][p].state
                        /\ instances'[v][p].addrs = instances[v][p].addrs
                        /\ instances'[v][p].dropped_elements = instances[v][p].dropped_elements
                        /\ instances'[v][p].dropped_data = instances[v][p].dropped_data
      BY DEF Kept
    <2>1. p \in 1..Len(K[v])
      BY <1>3 DEF Only
    <2>2. /\ instances'[v][p].state = K[v][p].state /\ instances'[v][p].addrs = K[v][p].addrs
          /\ instances'[v][p].dropped_elements = K[v][p].dropped_elements
          /\ instances'[v][p].dropped_data = K[v][p].dropped_data
      BY <1>5, <2>1 DEF StatePut, SameAddrs, SameElements, SameData
    <2> QED BY <1>3, <2>2 DEF SameStates, SameAddrs, SameElements, SameData
  <1>10. call' \in Calls /\ call'.step = "err"
    BY <1>1 DEF Calls
  <1>11. Lives(instances', call', vms)
    <2>1. instances'[v][n].state = "init_failed"
      BY <1>4, <1>5 DEF StatePut
    <2>2. Finished(instances'[v][n]) /\ instances'[v][n].state # "uninitialized"
      BY <2>1 DEF Finished
    <2>3. n = Len(instances[v])
      BY <1>2 DEF New
    <2> QED BY <1>1, <1>2, <1>8, <1>9, <1>10, <2>2, <2>3, LivesEnd
  <1>12. Activations(instances', call', vms', frames', on')
    BY NoFrames
  <1>13. NullCrash'
    BY <1>10, NoCrash
  <1> QED BY <1>1, <1>2, <1>7, <1>8, <1>10, <1>11, <1>12, <1>13, OneMachine

\* The items before the first bad one, or all of them, can be copied.
LEMMA GoodItems ==
  ASSUME NEW xs \in Seq(Int), NEW bad, bad = {j \in DOMAIN xs : xs[j] = -1},
         NEW n, n = IF bad = {} THEN Len(xs) ELSE Min(bad) - 1
  PROVE  n \in Nat /\ n <= Len(xs) /\ \A k \in 1..n : xs[k] # -1
  <1>1. PICK l : l = Len(xs)
    OBVIOUS
  <1>2. l \in Nat /\ DOMAIN xs = 1..l
    BY <1>1
  <1>3. CASE bad = {}
    <2>1. n = l
      BY <1>1, <1>3
    <2>2. \A k \in 1..l : xs[k] # -1
      BY <1>1, <1>2, <1>3
    <2>3. n \in Nat /\ n <= l
      BY <1>2, <2>1
    <2> QED BY <1>1, <2>1, <2>2, <2>3
  <1>4. CASE bad # {}
    <2>1. bad \in SUBSET Nat /\ bad \subseteq 1..l
      BY <1>1, <1>2
    <2>2. Min(bad) \in bad /\ \A y \in bad : Min(bad) <= y
      BY <1>4, <2>1, LeastIn
    <2>3. PICK z : z = Min(bad)
      OBVIOUS
    <2>4. z \in 1..l /\ n = z - 1
      BY <1>4, <2>1, <2>2, <2>3
    <2>5. ASSUME NEW k \in 1..n, xs[k] = -1
          PROVE  FALSE
      <3>1. k \in 1..l /\ ~(z <= k)
        BY <1>2, <2>4, <2>5
      <3>2. k \in bad
        BY <1>1, <1>2, <2>5, <3>1
      <3>3. z <= k
        BY <2>2, <2>3, <3>2, Zenon
      <3> QED BY <3>1, <3>3
    <2>6. n \in Nat /\ n <= l
      BY <1>2, <2>4
    <2> QED BY <1>1, <2>5, <2>6
  <1> QED BY <1>3, <1>4

\* What module_inst_init_elem makes of an element segment: K is what is copied,
\* b whether the segment is dropped.
ElemMarks(K, b) ==
  /\ Touched(instances, K, call.vm) /\ b \in BOOLEAN
  /\ call.i \in 1..Len(Desc[call.mod].elements)
  /\ Desc[call.mod].elements[call.i].mode = "active" => b
  /\ instances' = WithElement(K, call.vm, New, call.i, b)
  /\ UNCHANGED ref_count /\ Advance(Len(Desc[call.mod].elements), "data")
  /\ ZeroFree(instances[call.vm]) /\ ~Desc[call.mod].refs => ZeroFree(K[call.vm])
ElemFails(K) ==
  /\ Touched(instances, K, call.vm)
  /\ ZeroFree(instances[call.vm]) /\ ~Desc[call.mod].refs => ZeroFree(K[call.vm])
  /\ instances' = WithState(K, call.vm, New, "init_failed")
  /\ UNCHANGED ref_count /\ call' = [call EXCEPT !.step = "err"]

\* How an element is copied: it fails at once, is copied and marked, or is
\* copied up to an item that is none.
LEMMA ElemCases ==
  ASSUME Inv, module_inst_init_elem, Desc[call.mod].elements # << >>
  PROVE  \/ Fail
         \/ \E K, b : ElemMarks(K, b)
         \/ \E K : ElemFails(K)
  <1>1. call.step = "elem" /\ call.step \in Steps /\ UNCHANGED <<modules, names, vms>>
    BY DEF module_inst_init_elem, At, Steps
  <1>2. /\ call.vm \in VMs /\ call.mod \in Mods /\ Inst \in Instances /\ Shaped(Inst)
        /\ Progress(Inst, call)
    BY <1>1, StepFacts
  <1>3. /\ call \in Calls /\ call.i \in Nat /\ Machines(instances) /\ World(instances)
        /\ instances \in [VMs -> Seq(Instances)]
    BY InvFacts DEF Calls, Machines
  <1>4. PICK i, els : i = call.i /\ els = Desc[call.mod].elements
    OBVIOUS
  <1>5. els \in Seq(Elements) /\ Len(els) \in Nat /\ Len(Inst.dropped_elements) = Len(els)
    <2>1. els \in Seq(Elements)
      BY <1>2, <1>4, DescFacts
    <2>2. Inst.mod = call.mod
      BY <1>2 DEF Progress
    <2> QED BY <1>2, <1>4, <2>1, <2>2, InstFacts
  <1>6. els # << >>
    BY <1>4
  <1>7. Fail \/ (\E K, b : ElemMarks(K, b)) \/ (\E K : ElemFails(K))
    <2>1. i \in 1..Len(els)
      <3>1. Items(call) = Len(els)
        BY <1>1, <1>4 DEF Items
      <3>2. Len(els) # 0
        BY <1>5, <1>6
      <3>3. i >= 1 /\ (i <= Items(call) \/ Items(call) = 0)
        BY <1>2, <1>4 DEF Progress
      <3> QED BY <1>3, <1>4, <1>5, <3>1, <3>2, <3>3
    <2>2. PICK el : el = els[i]
      OBVIOUS
    <2>3. PICK a : a = Inst.addrs[el.at]
      OBVIOUS
    <2>4. PICK td : td = instances[call.vm][a[1]].tdata[a[2]]
      OBVIOUS
    <2>5. PICK bad : bad = BadItems(el)
      OBVIOUS
    <2>6. PICK n : n = IF bad = {} THEN Len(el.items) ELSE Min(bad) - 1
      OBVIOUS
    <2>9. el \in Elements /\ el.items \in Seq(Int)
      <3>1. el \in Elements
        BY <1>5, <2>1, <2>2
      <3> QED BY <3>1 DEF Elements
    <2>10. call.i \in 1..Len(Desc[call.mod].elements) /\ el = Desc[call.mod].elements[call.i]
      BY <1>4, <2>1, <2>2
    <2>11. CASE el.mode # "active"
      <3>1. PICK b : b = (el.mode = "declarative")
        OBVIOUS
      <3>2. /\ instances' = [instances EXCEPT ![call.vm][New].dropped_elements[call.i] = b]
            /\ UNCHANGED ref_count /\ Advance(Len(els), "data")
        BY <1>4, <1>6, <2>2, <2>11, <3>1 DEF module_inst_init_elem
      <3>3. instances' = WithElement(instances, call.vm, New, call.i, b) /\ b \in BOOLEAN
        BY <3>1, <3>2 DEF WithElement
      <3>4. Touched(instances, instances, call.vm)
        BY <1>3 DEF Touched, Only, SameStates, SameAddrs, SameElements, SameData
      <3>5. ElemMarks(instances, b)
        BY <1>4, <2>10, <2>11, <3>2, <3>3, <3>4 DEF ElemMarks
      <3> QED BY <3>5
    <2>12. CASE el.mode = "active" /\ (el.at = 0 \/ el.offset + Len(el.items) > Len(td))
      <3>1. Fail
        BY <1>4, <1>6, <2>2, <2>3, <2>4, <2>12 DEF module_inst_init_elem
      <3> QED BY <3>1
    <2>13. CASE el.mode = "active" /\ el.at # 0 /\ ~(el.offset + Len(el.items) > Len(td))
      <3>1. Copyable(i, el, n)
        <4>1. PICK xs : xs = el.items
          OBVIOUS
        <4>2. /\ xs \in Seq(Int) /\ bad = {j \in DOMAIN xs : xs[j] = -1}
              /\ n = IF bad = {} THEN Len(xs) ELSE Min(bad) - 1
          BY <2>5, <2>6, <2>9, <4>1 DEF BadItems
        <4>3. n \in Nat /\ n <= Len(xs) /\ \A k \in 1..n : xs[k] # -1
          BY <4>2, GoodItems
        <4> QED BY <1>4, <2>1, <2>2, <4>1, <4>3 DEF Copyable
      <3>2. Target(el, a, td)
        BY <2>3, <2>4, <2>13 DEF Target
      <3>3. PICK K \in AfterCopy(call.vm, a, el, n) :
              \/ /\ bad # {}
                 /\ instances' = [K EXCEPT ![call.vm][New].state = "init_failed"]
                 /\ UNCHANGED ref_count /\ call' = [call EXCEPT !.step = "err"]
              \/ /\ bad = {}
                 /\ instances' = [K EXCEPT ![call.vm][New].dropped_elements[call.i] = TRUE]
                 /\ UNCHANGED ref_count /\ Advance(Len(els), "data")
        BY <1>4, <1>6, <2>2, <2>3, <2>4, <2>5, <2>6, <2>13 DEF module_inst_init_elem
      <3>4. PICK got \in [GlobalItems(el) -> AnyRefs(call.vm)] :
              K = [instances EXCEPT ![call.vm][a[1]].tdata[a[2]] = Copied(td, el, n, got)]
        BY <2>4 DEF AfterCopy
      <3>5. /\ Touched(instances, K, call.vm)
            /\ ZeroFree(instances[call.vm]) /\ ~Desc[call.mod].refs => ZeroFree(K[call.vm])
        <4>1. PICK u : u = Copied(td, el, n, got)
          OBVIOUS
        <4>2. IsCopied(u, td, el, n)
          BY <3>4, <4>1 DEF IsCopied
        <4>3. K = WithTable(instances, call.vm, a[1], a[2], u)
          BY <3>4, <4>1 DEF WithTable
        <4> QED BY <1>1, <3>1, <3>2, <4>2, <4>3, CopyStep DEF Touched
      <3>7. CASE bad # {}
        <4>1. /\ instances' = [K EXCEPT ![call.vm][New].state = "init_failed"]
              /\ UNCHANGED ref_count /\ call' = [call EXCEPT !.step = "err"]
          BY <3>3, <3>7
        <4>2. instances' = WithState(K, call.vm, New, "init_failed")
          BY <4>1 DEF WithState
        <4>3. ElemFails(K)
          BY <3>5, <4>1, <4>2 DEF ElemFails
        <4> QED BY <4>3
      <3>8. CASE bad = {}
        <4>1. /\ instances' = [K EXCEPT ![call.vm][New].dropped_elements[call.i] = TRUE]
              /\ UNCHANGED ref_count /\ Advance(Len(els), "data")
          BY <3>3, <3>8
        <4>2. instances' = WithElement(K, call.vm, New, call.i, TRUE)
          BY <4>1 DEF WithElement
        <4>3. ElemMarks(K, TRUE)
          BY <1>4, <2>10, <3>5, <4>1, <4>2 DEF ElemMarks
        <4> QED BY <4>3
      <3> QED BY <3>7, <3>8
    <2> QED BY <2>11, <2>12, <2>13
  <1> QED BY <1>7

\* module_inst_init_elem, for one segment.
LEMMA ElemStep ==
  ASSUME Inv, module_inst_init_elem, UNCHANGED thvars
  PROVE  Inv'
  <1>1. call.step = "elem" /\ call.step \in Steps /\ UNCHANGED <<modules, names, vms>>
    BY DEF module_inst_init_elem, At, Steps
  <1>2. frames' = << >>
    BY <1>1, NotRunning DEF thvars
  <1>3. /\ call.vm \in VMs /\ call.mod \in Mods /\ Inst \in Instances /\ Shaped(Inst)
        /\ Progress(Inst, call)
    BY <1>1, StepFacts
  <1>4. /\ call \in Calls /\ call.i \in Nat /\ Machines(instances) /\ World(instances)
        /\ instances \in [VMs -> Seq(Instances)]
    BY InvFacts DEF Calls, Machines
  <1>5. PICK i, els : i = call.i /\ els = Desc[call.mod].elements
    OBVIOUS
  <1>6. els \in Seq(Elements) /\ Len(els) \in Nat /\ Len(Inst.dropped_elements) = Len(els)
    <2>1. els \in Seq(Elements)
      BY <1>3, <1>5, DescFacts
    <2>2. Inst.mod = call.mod
      BY <1>3 DEF Progress
    <2> QED BY <1>3, <1>5, <2>1, <2>2, InstFacts
  <1>7. CASE els = << >>
    <2>1. Advance(0, "data") /\ UNCHANGED <<instances, ref_count>>
      BY <1>5, <1>7 DEF module_inst_init_elem
    <2>2. /\ call' \in Calls /\ call'.vm = call.vm /\ call'.mod = call.mod
          /\ call'.step = "data" /\ call'.i = 1 /\ call'.step \in Steps
      BY <1>1, <1>4, <2>1, AdvanceFacts DEF Steps
    <2>3. Len(Inst.dropped_elements) = 0
      BY <1>6, <1>7
    <2>4. AllElements(Inst)
      BY <2>3 DEF AllElements, ElementsDone
    <2>5. DataDone(Inst, call'.i - 1)
      BY <2>2 DEF DataDone
    <2>6. Items(call') \in Nat
      BY <1>3, <2>2, ItemsNat
    <2>7. 1 >= 1 /\ (1 <= Items(call') \/ Items(call') = 0)
      BY <2>6
    <2>8. Progress(Inst, call')
      BY <1>1, <1>3, <2>2, <2>4, <2>5, <2>7 DEF Progress
    <2> QED BY <1>1, <1>2, <2>1, <2>2, <2>8, GoOnSame
  <1>8. CASE els # << >>
    <2>1. Fail \/ (\E K, b : ElemMarks(K, b)) \/ (\E K : ElemFails(K))
      BY <1>5, <1>8, ElemCases
    <2>2. CASE Fail
      BY <1>1, <1>2, <2>2, FailStep
    <2>3. ASSUME NEW K, NEW b, ElemMarks(K, b)
          PROVE  Inv'
      BY <1>1, <1>2, <2>3, MarkElement DEF ElemMarks
    <2>4. ASSUME NEW K, ElemFails(K)
          PROVE  Inv'
      BY <1>1, <1>2, <2>4, FailTouched DEF ElemFails
    <2> QED BY <2>1, <2>2, <2>3, <2>4
  <1> QED BY <1>7, <1>8

\* Another data segment is done.
LEMMA DataNext ==
  ASSUME Inv, call.step = "data", call.i \in 1..Len(Desc[call.mod].data),
         Advance(Len(Desc[call.mod].data), "start"), NEW y,
         y.mod = Inst.mod, y.state = Inst.state, y.addrs = Inst.addrs,
         y.dropped_elements = Inst.dropped_elements,
         Len(y.dropped_data) = Len(Inst.dropped_data),
         \A j \in 1..Len(Inst.dropped_data) :
           j # call.i => y.dropped_data[j] = Inst.dropped_data[j],
         Desc[call.mod].data[call.i].active => y.dropped_data[call.i]
  PROVE  /\ call' \in Calls /\ call'.step \in Steps /\ call'.vm = call.vm
         /\ call'.mod = call.mod /\ Progress(y, call')
  <1>1. /\ call.mod \in Mods /\ Inst \in Instances /\ Shaped(Inst) /\ Progress(Inst, call)
        /\ call.step \in Steps /\ call \in Calls
    BY StepFacts, InvFacts DEF Steps
  <1>2. PICK x, i, n : x = Inst /\ i = call.i /\ n = Len(Desc[call.mod].data)
    OBVIOUS
  <1>3. x.mod = call.mod /\ Len(x.dropped_data) = n /\ n \in Nat /\ i \in 1..n
    <2>1. x.mod = call.mod
      BY <1>1, <1>2 DEF Progress
    <2>2. Len(x.dropped_data) = n
      BY <1>1, <1>2, <2>1, InstFacts
    <2>3. Desc[call.mod].data \in Seq(Segments)
      BY <1>1, DescFacts
    <2> QED BY <1>2, <2>1, <2>2, <2>3
  <1>4. /\ call' \in Calls /\ call'.vm = call.vm /\ call'.mod = call.mod /\ call'.step \in Steps
        /\ \/ i < n /\ call'.step = "data" /\ call'.i = i + 1
           \/ ~(i < n) /\ call'.step = "start" /\ call'.i = 1
    BY <1>1, <1>2, AdvanceFacts DEF Steps
  <1>5. Whole(y) /\ AllElements(y) /\ y.mod = call'.mod /\ y.state = "uninitialized"
    BY <1>1, <1>2, <1>3, <1>4 DEF Progress, Whole, AllElements, ElementsDone
  <1>6. DataDone(y, i)
    <2> SUFFICES ASSUME NEW j \in 1..i, Desc[y.mod].data[j].active
                 PROVE  y.dropped_data[j]
      BY DEF DataDone
    <2>1. j \in 1..n /\ (j = i \/ j \in 1..(i - 1))
      BY <1>3
    <2>2. CASE j = i
      BY <1>2, <1>3, <2>2
    <2>3. CASE j # i
      <3>1. DataDone(x, i - 1)
        BY <1>1, <1>2 DEF Progress
      <3>2. x.dropped_data[j]
        BY <1>2, <2>1, <2>3, <3>1 DEF DataDone
      <3>3. y.dropped_data[j] = x.dropped_data[j]
        BY <1>2, <1>3, <2>1, <2>3
      <3> QED BY <3>2, <3>3
    <2> QED BY <2>2, <2>3
  <1>7. CASE i < n /\ call'.step = "data" /\ call'.i = i + 1
    <2>1. Items(call') = n
      BY <1>2, <1>4, <1>7 DEF Items
    <2>2. call'.i >= 1 /\ call'.i <= Items(call') /\ call'.i - 1 = i
      BY <1>3, <1>7, <2>1
    <2>3. Progress(y, call')
      BY <1>5, <1>6, <1>7, <2>2 DEF Progress
    <2> QED BY <1>4, <2>3
  <1>8. CASE ~(i < n) /\ call'.step = "start" /\ call'.i = 1
    <2>1. Items(call') = 0
      BY <1>8 DEF Items
    <2>2. AllData(y)
      <3>1. i = Len(y.dropped_data)
        BY <1>2, <1>3, <1>8
      <3> QED BY <1>6, <3>1 DEF AllData
    <2>3. Progress(y, call')
      BY <1>5, <1>8, <2>1, <2>2 DEF Progress
    <2> QED BY <1>4, <2>3
  <1> QED BY <1>4, <1>7, <1>8

\* A data segment is marked.
LEMMA MarkData ==
  ASSUME Inv, call.step = "data", frames' = << >>, UNCHANGED <<modules, names, vms, ref_count>>,
         call.i \in 1..Len(Desc[call.mod].data),
         instances' = WithData(instances, call.vm, New, call.i, TRUE),
         Advance(Len(Desc[call.mod].data), "start")
  PROVE  Inv'
  <1>1. /\ call.vm \in VMs /\ call.mod \in Mods /\ New \in 1..Len(instances[call.vm])
        /\ Inst \in Instances /\ Shaped(Inst) /\ Progress(Inst, call) /\ call.step \in Steps
        /\ Machines(instances) /\ World(instances) /\ instances \in [VMs -> Seq(Instances)]
    BY StepFacts, InvFacts DEF Steps, Machines
  <1>2. PICK v, n, i : v = call.vm /\ n = New /\ i = call.i
    OBVIOUS
  <1>3. PICK x, y : x = instances[v][n] /\ y = instances'[v][n]
    OBVIOUS
  <1>4. x = Inst /\ i \in 1..Len(x.dropped_data) /\ n \in 1..Len(instances[v])
    <2>1. Inst.mod = call.mod
      BY <1>1 DEF Progress
    <2>2. Len(Inst.dropped_data) = Len(Desc[call.mod].data)
      BY <1>1, <2>1, InstFacts
    <2> QED BY <1>1, <1>2, <1>3, <2>2 DEF Inst
  <1>5. /\ Only(instances, instances', v) /\ SameStates(instances, instances', v)
        /\ SameAddrs(instances, instances', v) /\ SamePages(instances, instances', v)
        /\ SameTables(instances, instances', v) /\ SameElements(instances, instances', v)
        /\ DataPut(instances, instances', v, n, i, TRUE)
    BY <1>1, <1>2, <1>3, <1>4, PutData
  <1>6. SameLens(instances, instances', v)
    BY <1>5 DEF SameAddrs, SamePages, SameTables, SameElements, DataPut, SameLens
  <1>7. Machines(instances') /\ World(instances')
    BY <1>1, <1>2, <1>5, <1>6, MarkStep
  <1>8. Kept(instances, instances', v, n)
    <2> SUFFICES ASSUME NEW p \in 1..Len(instances[v]), p # n
                 PROVE  instances'[v][p].dropped_data = instances[v][p].dropped_data
      BY <1>5 DEF Kept, SameStates, SameAddrs, SameElements
    <2>1. p \in 1..Len(instances'[v])
      BY <1>5 DEF Only
    <2>2. /\ Len(instances'[v][p].dropped_data) = Len(instances[v][p].dropped_data)
          /\ \A j \in 1..Len(instances[v][p].dropped_data) :
               instances'[v][p].dropped_data[j] = instances[v][p].dropped_data[j]
      BY <1>5 DEF DataPut
    <2>3. instances[v][p] \in Instances /\ instances'[v][p] \in Instances
      <3>1. PICK J : J = instances'
        OBVIOUS
      <3>2. J \in [VMs -> Seq(Instances)] /\ p \in 1..Len(J[v]) /\ v \in VMs
        BY <1>1, <1>2, <1>5, <2>1, <3>1 DEF Only
      <3>3. J[v][p] \in Instances
        BY <3>2
      <3>4. instances[v] \in Seq(Instances)
        BY <1>1, <1>2
      <3>5. instances[v][p] \in Instances
        BY <3>4
      <3> QED BY <3>1, <3>3, <3>5
    <2>4. /\ instances[v][p].dropped_data \in Seq(BOOLEAN)
          /\ instances'[v][p].dropped_data \in Seq(BOOLEAN)
      BY <2>3 DEF Instances
    <2>5. PICK e, f : e = instances[v][p].dropped_data /\ f = instances'[v][p].dropped_data
      OBVIOUS
    <2>6. /\ e \in Seq(BOOLEAN) /\ f \in Seq(BOOLEAN) /\ Len(f) = Len(e)
          /\ \A j \in 1..Len(e) : f[j] = e[j]
      BY <2>2, <2>4, <2>5
    <2>7. f = e
      BY <2>6
    <2> QED BY <2>5, <2>7
  <1>9. /\ y.mod = x.mod /\ y.state = x.state /\ y.addrs = x.addrs
        /\ y.dropped_elements = x.dropped_elements
        /\ Len(y.dropped_data) = Len(x.dropped_data)
        /\ \A j \in 1..Len(x.dropped_data) : j # i => y.dropped_data[j] = x.dropped_data[j]
        /\ y.dropped_data[i]
    <2>1. /\ y.mod = x.mod /\ y.state = x.state /\ y.addrs = x.addrs
          /\ y.dropped_elements = x.dropped_elements
      BY <1>3, <1>4, <1>5 DEF Only, SameStates, SameAddrs, SameElements
    <2>2. /\ Len(y.dropped_data) = Len(x.dropped_data)
          /\ \A j \in 1..Len(x.dropped_data) :
               y.dropped_data[j] = IF j = i THEN TRUE ELSE x.dropped_data[j]
      BY <1>3, <1>4, <1>5 DEF DataPut
    <2> QED BY <1>4, <2>1, <2>2
  <1>10. /\ call' \in Calls /\ call'.step \in Steps /\ call'.vm = call.vm
         /\ call'.mod = call.mod /\ Progress(y, call')
    BY <1>2, <1>4, <1>9, DataNext
  <1> QED BY <1>1, <1>2, <1>3, <1>5, <1>7, <1>8, <1>10, GoOn

\* module_inst_init_data, for one segment.
LEMMA DataStep ==
  ASSUME Inv, module_inst_init_data, UNCHANGED thvars
  PROVE  Inv'
  <1>1. call.step = "data" /\ call.step \in Steps /\ UNCHANGED <<modules, names, vms>>
    BY DEF module_inst_init_data, At, Steps
  <1>2. frames' = << >>
    BY <1>1, NotRunning DEF thvars
  <1>3. /\ call.vm \in VMs /\ call.mod \in Mods /\ Inst \in Instances /\ Shaped(Inst)
        /\ Progress(Inst, call)
    BY <1>1, StepFacts
  <1>4. call \in Calls /\ call.i \in Nat
    BY InvFacts DEF Calls
  <1>5. PICK i, ds : i = call.i /\ ds = Desc[call.mod].data
    OBVIOUS
  <1>6. ds \in Seq(Segments) /\ Len(ds) \in Nat /\ Len(Inst.dropped_data) = Len(ds)
    <2>1. ds \in Seq(Segments)
      BY <1>3, <1>5, DescFacts
    <2>2. Inst.mod = call.mod
      BY <1>3 DEF Progress
    <2> QED BY <1>3, <1>5, <2>1, <2>2, InstFacts
  <1>7. CASE ds = << >>
    <2>1. Advance(0, "start") /\ UNCHANGED <<instances, ref_count>>
      BY <1>5, <1>7 DEF module_inst_init_data
    <2>2. /\ call' \in Calls /\ call'.vm = call.vm /\ call'.mod = call.mod
          /\ call'.step = "start" /\ call'.i = 1 /\ call'.step \in Steps
      BY <1>1, <1>4, <2>1, AdvanceFacts DEF Steps
    <2>3. Len(Inst.dropped_data) = 0
      BY <1>6, <1>7
    <2>4. AllData(Inst)
      BY <2>3 DEF AllData, DataDone
    <2>5. Items(call') = 0
      BY <2>2 DEF Items
    <2>6. Progress(Inst, call')
      BY <1>1, <1>3, <2>2, <2>4, <2>5 DEF Progress
    <2> QED BY <1>1, <1>2, <2>1, <2>2, <2>6, GoOnSame
  <1>8. CASE ds # << >>
    <2>1. i \in 1..Len(ds)
      <3>1. Items(call) = Len(ds)
        BY <1>1, <1>5 DEF Items
      <3>2. Len(ds) # 0
        BY <1>6, <1>8
      <3>3. i >= 1 /\ (i <= Items(call) \/ Items(call) = 0)
        BY <1>3, <1>5 DEF Progress
      <3> QED BY <1>4, <1>5, <1>6, <3>1, <3>2, <3>3
    <2>2. PICK d : d = ds[i]
      OBVIOUS
    <2>3. call.i \in 1..Len(Desc[call.mod].data) /\ d = Desc[call.mod].data[call.i]
      BY <1>5, <2>1, <2>2
    <2>4. \/ ~d.active /\ Advance(Len(ds), "start") /\ UNCHANGED <<instances, ref_count>>
          \/ Fail
          \/ /\ instances' = [instances EXCEPT ![call.vm][New].dropped_data[call.i] = TRUE]
             /\ UNCHANGED ref_count /\ Advance(Len(ds), "start")
      BY <1>5, <1>8, <2>2 DEF module_inst_init_data
    <2>5. CASE ~d.active /\ Advance(Len(ds), "start") /\ UNCHANGED <<instances, ref_count>>
      <3>1. /\ call' \in Calls /\ call'.step \in Steps /\ call'.vm = call.vm
            /\ call'.mod = call.mod /\ Progress(Inst, call')
        BY <1>1, <1>5, <2>3, <2>5, DataNext
      <3> QED BY <1>1, <1>2, <2>5, <3>1, GoOnSame
    <2>6. CASE Fail
      BY <1>1, <1>2, <2>6, FailStep
    <2>7. CASE /\ instances' = [instances EXCEPT ![call.vm][New].dropped_data[call.i] = TRUE]
               /\ UNCHANGED ref_count /\ Advance(Len(ds), "start")
      <3>1. instances' = WithData(instances, call.vm, New, call.i, TRUE)
        BY <2>7 DEF WithData
      <3> QED BY <1>1, <1>2, <1>5, <2>3, <2>7, <3>1, MarkData
    <2> QED BY <2>4, <2>5, <2>6, <2>7
  <1> QED BY <1>7, <1>8

\* The steps of vm_instantiate_module.
LEMMA ConstructStep ==
  ASSUME Inv, HostConstruct
  PROVE  Inv'
  <1>1. UNCHANGED thvars /\ Construct
    BY DEF HostConstruct
  <1>2. CASE NoStart
    <2>1. /\ call.step = "start" /\ call.step \in Steps /\ Desc[call.mod].start = 0 /\ Ready
          /\ UNCHANGED <<modules, names, vms>>
      BY <1>2 DEF NoStart, At, Steps
    <2>2. frames' = << >>
      BY <1>1, <2>1, NotRunning DEF thvars
    <2> QED BY <2>1, <2>2, ReadyStep
  <1> QED BY <1>1, <1>2, LinkStep, GlobalStep, ElemStep, DataStep DEF Construct

----------------------------------------------------------------------------
(***************************************************************************)
(* The invariant always holds.                                             *)
(***************************************************************************)
\* At first there is nothing.
LEMMA InitInv ==
  ASSUME Init
  PROVE  Inv
  <1>1. /\ modules = {} /\ names = [m \in Mods |-> {}] /\ ref_count = [m \in Mods |-> 0]
        /\ vms = {} /\ instances = [v \in VMs |-> << >>] /\ call = NoCall /\ frames = << >>
    BY DEF Init, RtInit
  <1>2. \A v \in VMs : instances[v] = << >> /\ Len(instances[v]) = 0
    BY <1>1
  <1>3. instances \in [VMs -> Seq(Instances)]
    BY <1>1
  <1>4. Machines(instances)
    BY <1>2, <1>3 DEF Machines, Machine
  <1>5. World(instances)
    BY <1>2 DEF World, Sane, Addressed, Within, TableRefs
  <1>6. call \in Calls /\ call.step = "ok"
    BY <1>1, CallTypes
  <1>7. Types
    BY <1>1, <1>3, <1>4, <1>6 DEF Types, RtTypeOK
  <1>8. Lives(instances, call, vms)
    BY <1>2, <1>6 DEF Lives, Constructing, Settled, Readies, Stopped, Steps
  <1>9. Counted(instances, ref_count, modules, vms)
    <2>1. ASSUME NEW m \in Mods
          PROVE  Cardinality(UsersOf(instances, VMs, m)) = 0
      <3>1. UsersOf(instances, VMs, m) = {}
        <4>1. UsersOf(instances, VMs, m) =
                {x \in VMs \X Nat : x[1] \in VMs /\ x[2] \in 1..Len(instances[x[1]])
                                      /\ instances[x[1]][x[2]].mod = m}
          BY <1>4, UserIs
        <4>2. \A x \in VMs \X Nat : x[1] \in VMs => x[2] \notin 1..Len(instances[x[1]])
          BY <1>2
        <4> QED BY <4>1, <4>2
      <3> QED BY <3>1, FS_EmptySet
    <2> QED BY <1>1, <1>2, <2>1 DEF Counted
  <1>10. Activations(instances, call, vms, frames, on)
    BY <1>1, NoFrames
  <1>11. NullCrash
    BY <1>6 DEF NullCrash
  <1> QED BY <1>5, <1>7, <1>8, <1>9, <1>10, <1>11 DEF Inv

\* Nothing happens.
LEMMA StutterInv ==
  ASSUME Inv, UNCHANGED allvars
  PROVE  Inv'
  <1>1. /\ UNCHANGED <<modules, names, vms, ref_count, instances>>
        /\ call' = call /\ frames' = frames /\ on' = on
    BY DEF allvars, rtvars, thvars
  <1>2. /\ call \in Calls /\ Lives(instances, call, vms)
        /\ Activations(instances, call, vms, frames, on) /\ NullCrash
    BY InvFacts DEF Inv
  <1>3. NullCrash'
    BY <1>1, <1>2 DEF NullCrash, vm_find_module_inst, New
  <1> QED BY <1>1, <1>2, <1>3, Unmoved

\* Every step keeps the invariant.
LEMMA NextInv ==
  ASSUME Inv, [Next]_allvars
  PROVE  Inv'
  <1>1. CASE HostRegister
    BY <1>1, RegisterStep
  <1>2. CASE HostVm
    BY <1>2, VmStep
  <1>3. CASE HostConstruct
    BY <1>3, ConstructStep
  <1>4. ASSUME NEW v \in VMs, thread_reset(v)
        PROVE  Inv'
    BY <1>4, ResetStep
  <1>5. ASSUME NEW v \in VMs, NEW n \in Names, NEW field \in Fields, HostCall(v, n, field)
        PROVE  Inv'
    BY <1>5, HostCallStep
  <1>6. CASE CallStart
    BY <1>6, CallStartStep
  <1>7. CASE CallDirect \/ CallIndirect
    BY <1>7, CallsStep
  <1>8. CASE TableSet \/ TableGrow
    BY <1>8, TablesStep
  <1>9. CASE MemoryGrow
    BY <1>9, MemoryStep
  <1>10. CASE SegmentDrop
    BY <1>10, DropSegmentStep
  <1>11. CASE UseNull \/ CallBadRef \/ UseNoMemory
    BY <1>11, UseNullStep, OtherCrashStep
  <1>12. CASE Trap
    BY <1>12, UnwindStep DEF Trap
  <1>13. CASE Return
    BY <1>13, ReturnStep
  <1>14. CASE UNCHANGED allvars
    BY <1>14, StutterInv
  <1> QED BY <1>1, <1>2, <1>3, <1>4, <1>5, <1>6, <1>7, <1>8, <1>9, <1>10, <1>11, <1>12,
             <1>13, <1>14 DEF Next, Crashed

\* The invariant is one.
LEMMA InvAlways == Spec => []Inv
  <1>1. Init => Inv
    BY InitInv
  <1>2. Inv /\ [Next]_allvars => Inv'
    BY NextInv
  <1> QED BY <1>1, <1>2, PTL DEF Spec

----------------------------------------------------------------------------
(***************************************************************************)
(* What the invariant says.                                                *)
(***************************************************************************)
\* In all runs of the host, of instantiations and of the code in instances, the
\* registry and the machines have their types; no module's reference count
\* falls below zero in vm_drop or runtime_drop.
THEOREM RuntimeTyped == Spec => []RtTypeOK
  <1>1. Inv => RtTypeOK
    BY DEF Inv, Types
  <1> QED BY <1>1, InvAlways, PTL

\* In all runs a module's ref_count is the number of its instances in all
\* machines, failed ones included, and no module with an instance is dropped.
THEOREM CountsInstances == Spec => []RefCounts
  <1>1. Inv => RefCounts
    <2> SUFFICES ASSUME Inv PROVE RefCounts
      OBVIOUS
    <2>1. Counted(instances, ref_count, modules, vms)
      BY InvFacts
    <2>2. \A v \in VMs : DOMAIN instances[v] = 1..Len(instances[v])
      BY InvFacts, MachineFacts
    <2>3. \A m \in Mods : UsersOf(instances, VMs, m) = Users(VMs, m)
      BY DEF UsersOf, Users
    <2>4. \A m \in Mods : ref_count[m] = Cardinality(Users(VMs, m))
      BY <2>1, <2>3 DEF Counted
    <2> QED BY <2>1, <2>2, <2>4 DEF Counted, RefCounts
  <1> QED BY <1>1, InvAlways, PTL

\* What the instance at p of machine v is.
LEMMA InstanceAt ==
  ASSUME Inv, NEW v \in VMs, NEW p \in DOMAIN instances[v]
  PROVE  /\ Machine(instances[v]) /\ Sane(instances[v]) /\ p \in 1..Len(instances[v])
         /\ instances[v][p] \in Instances /\ Shaped(instances[v][p])
         /\ DOMAIN instances[v] = 1..Len(instances[v])
         /\ DOMAIN instances[v][p].addrs = 1..Len(instances[v][p].addrs)
         /\ DOMAIN instances[v][p].tdata = 1..Len(instances[v][p].addrs)
  <1>1. Machine(instances[v]) /\ Sane(instances[v])
    BY InvFacts
  <1>2. /\ p \in 1..Len(instances[v]) /\ instances[v][p] \in Instances
        /\ Shaped(instances[v][p]) /\ DOMAIN instances[v] = 1..Len(instances[v])
    BY <1>1, MachineFacts
  <1>3. PICK x : x = instances[v][p]
    OBVIOUS
  <1>4. /\ x.addrs \in Seq(Addresses) /\ x.tdata \in Seq(Seq(Addresses))
        /\ Len(x.tdata) = Len(x.addrs)
    BY <1>2, <1>3, InstFacts
  <1>5. DOMAIN x.addrs = 1..Len(x.addrs) /\ DOMAIN x.tdata = 1..Len(x.addrs)
    BY <1>4
  <1> QED BY <1>1, <1>2, <1>3, <1>5

\* A definition in the terms of the specification.
LEMMA OwnedDefines ==
  ASSUME NEW v, NEW a, NEW kind, Owned(instances[v], a, kind),
         DOMAIN instances[v] = 1..Len(instances[v])
  PROVE  Defines(v, a, kind) /\ Ent(v, a) = EntAt(instances[v], a)
  BY DEF Owned, Defines, Ent, EntAt, EntOf, Imported

\* In all runs every entity of an instance that is past its linking has the
\* address of a definition of its kind and type, of the instance that owns it.
THEOREM AllLinked == Spec => []Linked
  <1>1. Inv => Linked
    <2> SUFFICES ASSUME Inv, NEW v \in VMs, NEW p \in DOMAIN instances[v], PastLinking(v, p),
                        NEW i \in DOMAIN instances[v][p].addrs
                 PROVE  /\ Defines(v, instances[v][p].addrs[i], Ent(v, <<p, i>>).kind)
                        /\ Ent(v, instances[v][p].addrs[i]).type = Ent(v, <<p, i>>).type
      BY DEF Linked
    <2>1. /\ Machine(instances[v]) /\ Sane(instances[v]) /\ p \in 1..Len(instances[v])
          /\ i \in 1..Len(instances[v][p].addrs)
          /\ DOMAIN instances[v] = 1..Len(instances[v])
      BY InstanceAt
    <2>2. Lives(instances, call, vms)
      BY InvFacts
    <2>3. Whole(instances[v][p])
      <3>1. CASE instances[v][p].state = "ready"
        BY <2>1, <2>2, <3>1 DEF Lives, Readies, Finished
      <3>2. CASE Building(v, p) /\ call.step \in {"global", "elem", "data", "start"}
        <4>1. /\ call.step \in Steps /\ call.step # "link" /\ call.vm = v
              /\ p = Len(instances[call.vm])
          BY <3>2 DEF Building, Steps
        <4>2. Progress(Newest(instances, call), call)
          BY <2>2, <4>1 DEF Lives, Constructing
        <4> QED BY <4>1, <4>2 DEF Progress, Newest
      <3> QED BY <3>1, <3>2 DEF PastLinking
    <2>4. PICK a : a = instances[v][p].addrs[i]
      OBVIOUS
    <2>5. a # NULL
      BY <2>1, <2>3, <2>4 DEF Whole
    <2>6. Meets(instances[v], a, EntOf(instances[v][p], i))
      BY <2>1, <2>4, <2>5, SetAddress
    <2>7. EntOf(instances[v][p], i) = Ent(v, <<p, i>>)
      BY DEF EntOf, Ent
    <2>8. /\ Owned(instances[v], a, Ent(v, <<p, i>>).kind)
          /\ EntAt(instances[v], a).type = Ent(v, <<p, i>>).type
      BY <2>6, <2>7 DEF Meets
    <2>9. Defines(v, a, Ent(v, <<p, i>>).kind) /\ Ent(v, a) = EntAt(instances[v], a)
      BY <2>1, <2>8, OwnedDefines
    <2> QED BY <2>4, <2>8, <2>9
  <1> QED BY <1>1, InvAlways, PTL

\* In all runs what an import asked for stays true: however memories and tables
\* grow, their size is within the limits of everyone who imports them and of their
\* own declaration, except that a memory declared with WASM_MEM_MAX_PAGES at least
\* may be smaller than declared.
THEOREM ImportsAlwaysFit == Spec => []ImportsFit
  <1>1. Inv => ImportsFit
    <2> SUFFICES ASSUME Inv, NEW v \in VMs, NEW p \in DOMAIN instances[v],
                        NEW i \in DOMAIN instances[v][p].addrs,
                        Ent(v, <<p, i>>).kind \in {"mem", "tab"},
                        instances[v][p].addrs[i] # NULL
                 PROVE  /\ \/ Ent(v, <<p, i>>).min <= SizeOf(v, instances[v][p].addrs[i])
                           \/ WrapsAround(Ent(v, <<p, i>>))
                        /\ SizeOf(v, instances[v][p].addrs[i]) <= Ent(v, <<p, i>>).max
      BY DEF ImportsFit
    <2>1. /\ Machine(instances[v]) /\ Sane(instances[v]) /\ p \in 1..Len(instances[v])
          /\ i \in 1..Len(instances[v][p].addrs)
          /\ instances[v][p] \in Instances /\ Shaped(instances[v][p])
      BY InstanceAt
    <2>2. PICK s, a, ent : s = instances[v] /\ a = instances[v][p].addrs[i] /\ ent = Ent(v, <<p, i>>)
      OBVIOUS
    <2>3. ent = EntOf(s[p], i) /\ ent.max \in Nat
      <3>1. ent = EntOf(s[p], i)
        BY <2>2 DEF EntOf, Ent
      <3>2. EntOf(instances[v][p], i).max \in Nat
        BY <2>1, InstFacts
      <3> QED BY <2>2, <3>1, <3>2
    <2>4. Meets(s, a, ent)
      BY <2>1, <2>2, <2>3, SetAddress
    <2>5. PICK y, k, def : y = s[a[1]] /\ k = a[2] /\ def = EntAt(s, a)
      OBVIOUS
    <2>6. /\ a[1] \in 1..Len(s) /\ k \in 1..Len(y.addrs) /\ def = EntOf(y, k)
          /\ def.kind = ent.kind /\ def.from = << >> /\ SizeAt(s, a) = Size(y, k)
          /\ ent.min <= SizeAt(s, a) \/ WrapsAround(ent)
          /\ def.max <= ent.max
      BY <2>2, <2>4, <2>5 DEF Meets, Owned, EntAt, SizeAt
    <2>7. y \in Instances /\ Shaped(y)
      BY <2>1, <2>2, <2>5, <2>6, MachineFacts
    <2>8. Size(y, k) \in Nat /\ def.max \in Nat
      BY <2>6, <2>7, InstFacts
    <2>9. Size(y, k) <= def.max
      <3>1. InLimits(y, k)
        BY <2>1, <2>2, <2>5, <2>6 DEF Sane, Within
      <3> QED BY <2>2, <2>6, <3>1 DEF InLimits
    <2>10. PICK z, d, m : z = Size(y, k) /\ d = def.max /\ m = ent.max
      OBVIOUS
    <2>11. z <= m
      <3>1. z \in Nat /\ d \in Nat /\ m \in Nat
        BY <2>3, <2>8, <2>10
      <3>2. z <= d /\ d <= m
        BY <2>6, <2>9, <2>10, Zenon
      <3> QED BY <3>1, <3>2
    <2>12. SizeOf(v, a) = SizeAt(s, a)
      BY <2>2 DEF SizeOf, SizeAt, Size, Ent, EntOf
    <2>13. (ent.min <= SizeOf(v, a) \/ WrapsAround(ent)) /\ SizeOf(v, a) <= ent.max
      BY <2>6, <2>10, <2>11, <2>12, Zenon
    <2> QED BY <2>2, <2>13, Zenon
  <1> QED BY <1>1, InvAlways, PTL

\* In all runs an instance is ready only when its active segments were all
\* copied, and no data is copied before all elements are.
THEOREM InitialisedWhole == Spec => []InitComplete
  <1>1. Inv => InitComplete
    <2> SUFFICES ASSUME Inv, NEW v \in VMs, NEW p \in DOMAIN instances[v], NEW x,
                        x = instances[v][p]
                 PROVE  /\ x.state = "ready" =>
                             /\ \A i \in DOMAIN Desc[x.mod].elements :
                                  Desc[x.mod].elements[i].mode = "active" => x.dropped_elements[i]
                             /\ \A i \in DOMAIN Desc[x.mod].data :
                                  Desc[x.mod].data[i].active => x.dropped_data[i]
                        /\ Building(v, p) /\ (\E i \in DOMAIN Desc[x.mod].data : x.dropped_data[i])
                             => \A i \in DOMAIN Desc[x.mod].elements :
                                  Desc[x.mod].elements[i].mode = "active" => x.dropped_elements[i]
      BY DEF InitComplete
    <2>1. /\ p \in 1..Len(instances[v]) /\ x \in Instances /\ Shaped(x)
      BY InstanceAt
    <2>2. Lives(instances, call, vms) /\ call \in Calls
      BY InvFacts
    <2>3. /\ DOMAIN Desc[x.mod].elements = 1..Len(x.dropped_elements)
          /\ DOMAIN Desc[x.mod].data = 1..Len(x.dropped_data)
      <3>1. /\ x.mod \in Mods /\ Len(x.dropped_elements) = Len(Desc[x.mod].elements)
            /\ Len(x.dropped_data) = Len(Desc[x.mod].data)
        BY <2>1, InstFacts
      <3>2. Desc[x.mod].elements \in Seq(Elements) /\ Desc[x.mod].data \in Seq(Segments)
        BY <3>1, DescFacts
      <3>3. /\ DOMAIN Desc[x.mod].elements = 1..Len(Desc[x.mod].elements)
            /\ DOMAIN Desc[x.mod].data = 1..Len(Desc[x.mod].data)
        BY <3>2
      <3> QED BY <3>1, <3>3
    <2>4. AllElements(x) => \A i \in DOMAIN Desc[x.mod].elements :
            Desc[x.mod].elements[i].mode = "active" => x.dropped_elements[i]
      BY <2>3 DEF AllElements, ElementsDone
    <2>5. AllData(x) => \A i \in DOMAIN Desc[x.mod].data :
            Desc[x.mod].data[i].active => x.dropped_data[i]
      BY <2>3 DEF AllData, DataDone
    <2>6. x.state = "ready" => AllElements(x) /\ AllData(x)
      BY <2>1, <2>2 DEF Lives, Readies, Finished
    <2>7. ASSUME Building(v, p), ~NoData(x)
          PROVE  AllElements(x)
      <3>1. x = Newest(instances, call) /\ call.vm = v /\ instances[v] # << >>
        <4>1. call.vm = v /\ p = Len(instances[v])
          BY <2>7 DEF Building
        <4>2. instances[v] # << >>
          BY <2>1
        <4> QED BY <4>1, <4>2 DEF Newest
      <3>2. call.step \in Steps \/ call.step \in Crashes
        BY <2>2, <2>7 DEF Building, Idle, Calls
      <3>3. CASE call.step \in Steps
        <4>1. Progress(x, call)
          BY <2>2, <3>1, <3>3 DEF Lives, Constructing
        <4> QED BY <2>7, <3>3, <4>1 DEF Progress, Steps
      <3>4. CASE call.step \in Crashes
        BY <2>2, <2>7, <3>1, <3>4 DEF Lives, Stopped, Ordered
      <3> QED BY <3>2, <3>3, <3>4
    <2>8. (\E i \in DOMAIN Desc[x.mod].data : x.dropped_data[i]) => ~NoData(x)
      BY <2>3 DEF NoData
    <2> QED BY <2>4, <2>5, <2>6, <2>7, <2>8
  <1> QED BY <1>1, InvAlways, PTL

----------------------------------------------------------------------------
(***************************************************************************)
(* What no step may do.                                                    *)
(***************************************************************************)
\* The instances of all machines are where they were, in the states they had.
SameLife(I, J) ==
  \A w \in VMs :
    /\ DOMAIN J[w] = DOMAIN I[w]
    /\ \A q \in DOMAIN I[w] : J[w][q].mod = I[w][q].mod /\ J[w][q].state = I[w][q].state

\* An instance is replaced by one of the same module in the same state.
LEMMA SameLifePut ==
  ASSUME NEW I \in [VMs -> Seq(Instances)], NEW v, NEW p, NEW n,
         v \in VMs /\ p \in DOMAIN I[v] => n.mod = I[v][p].mod /\ n.state = I[v][p].state,
         NEW J, J = [I EXCEPT ![v] = [I[v] EXCEPT ![p] = n]]
  PROVE  SameLife(I, J)
  <1> SUFFICES ASSUME NEW w \in VMs
               PROVE  /\ DOMAIN J[w] = DOMAIN I[w]
                      /\ \A q \in DOMAIN I[w] :
                           J[w][q].mod = I[w][q].mod /\ J[w][q].state = I[w][q].state
    BY DEF SameLife
  <1>1. CASE w # v
    BY <1>1
  <1>2. CASE w = v
    <2>1. J[w] = [I[w] EXCEPT ![p] = n]
      BY <1>2
    <2>2. DOMAIN J[w] = DOMAIN I[w] /\ \A q \in DOMAIN I[w] : J[w][q] = IF q = p THEN n ELSE I[w][q]
      BY <2>1
    <2> QED BY <1>2, <2>2
  <1> QED BY <1>1, <1>2

\* The tables, the memories and the flags of an instance do not say its state.
LEMMA SameLifeField ==
  ASSUME NEW I \in [VMs -> Seq(Instances)], NEW v, NEW p, NEW X, NEW J,
         \/ J = [I EXCEPT ![v][p].addrs = X]
         \/ J = [I EXCEPT ![v][p].pages = X]
         \/ J = [I EXCEPT ![v][p].tdata = X]
         \/ J = [I EXCEPT ![v][p].dropped_elements = X]
         \/ J = [I EXCEPT ![v][p].dropped_data = X]
  PROVE  SameLife(I, J)
  <1>1. v \in VMs /\ p \in DOMAIN I[v] => I[v][p] \in Instances
    OBVIOUS
  <1>2. PICK x : x = I[v][p]
    OBVIOUS
  <1>3. ASSUME NEW n, \/ n = [x EXCEPT !.addrs = X] \/ n = [x EXCEPT !.pages = X]
                      \/ n = [x EXCEPT !.tdata = X] \/ n = [x EXCEPT !.dropped_elements = X]
                      \/ n = [x EXCEPT !.dropped_data = X],
               J = [I EXCEPT ![v] = [I[v] EXCEPT ![p] = n]]
        PROVE  SameLife(I, J)
    <2>1. x \in Instances => n.mod = x.mod /\ n.state = x.state
      BY <1>3 DEF Instances
    <2>2. v \in VMs /\ p \in DOMAIN I[v] => n.mod = I[v][p].mod /\ n.state = I[v][p].state
      BY <1>1, <1>2, <2>1
    <2> QED BY <1>3, <2>2, SameLifePut
  <1>4. CASE J = [I EXCEPT ![v][p].addrs = X]
    <2>1. PICK n : n = [x EXCEPT !.addrs = X]
      OBVIOUS
    <2>2. J = [I EXCEPT ![v] = [I[v] EXCEPT ![p] = n]]
      BY <1>2, <1>4, <2>1
    <2> QED BY <1>3, <2>1, <2>2
  <1>5. CASE J = [I EXCEPT ![v][p].pages = X]
    <2>1. PICK n : n = [x EXCEPT !.pages = X]
      OBVIOUS
    <2>2. J = [I EXCEPT ![v] = [I[v] EXCEPT ![p] = n]]
      BY <1>2, <1>5, <2>1
    <2> QED BY <1>3, <2>1, <2>2
  <1>6. CASE J = [I EXCEPT ![v][p].tdata = X]
    <2>1. PICK n : n = [x EXCEPT !.tdata = X]
      OBVIOUS
    <2>2. J = [I EXCEPT ![v] = [I[v] EXCEPT ![p] = n]]
      BY <1>2, <1>6, <2>1
    <2> QED BY <1>3, <2>1, <2>2
  <1>7. CASE J = [I EXCEPT ![v][p].dropped_elements = X]
    <2>1. PICK n : n = [x EXCEPT !.dropped_elements = X]
      OBVIOUS
    <2>2. J = [I EXCEPT ![v] = [I[v] EXCEPT ![p] = n]]
      BY <1>2, <1>7, <2>1
    <2> QED BY <1>3, <2>1, <2>2
  <1>8. CASE J = [I EXCEPT ![v][p].dropped_data = X]
    <2>1. PICK n : n = [x EXCEPT !.dropped_data = X]
      OBVIOUS
    <2>2. J = [I EXCEPT ![v] = [I[v] EXCEPT ![p] = n]]
      BY <1>2, <1>8, <2>1
    <2> QED BY <1>3, <2>1, <2>2
  <1> QED BY <1>4, <1>5, <1>6, <1>7, <1>8

\* Then nothing is said anew of an instance.
LEMMA SameLifeFinal ==
  ASSUME SameLife(instances, instances')
  PROVE  Final
  BY DEF SameLife, Final

\* What changes no instance.
LEMMA UnchangedFinal ==
  ASSUME UNCHANGED instances
  PROVE  Final
  BY DEF Final

\* The instance under construction, in K, is given a state: it had none.
LEMMA MarkedFinal ==
  ASSUME Inv, call.step \in Steps, NEW K \in [VMs -> Seq(Instances)], SameLife(instances, K),
         NEW st, instances' = [K EXCEPT ![call.vm][New].state = st]
  PROVE  Final
  <1>1. /\ call.vm \in VMs /\ New \in 1..Len(instances[call.vm]) /\ Progress(Inst, call)
        /\ Machine(instances[call.vm])
    BY StepFacts
  <1>2. PICK v, n : v = call.vm /\ n = New
    OBVIOUS
  <1>3. instances[v][n].state = "uninitialized" /\ n \in DOMAIN instances[v]
    BY <1>1, <1>2, MachineFacts DEF Progress, Inst
  <1>4. K[v][n] \in Instances /\ n \in DOMAIN K[v]
    <2>1. n \in DOMAIN K[v] /\ K[v] \in Seq(Instances)
      BY <1>1, <1>2, <1>3 DEF SameLife
    <2> QED BY <2>1
  <1>5. PICK x, y, t : /\ x = K[v][n] /\ y = [x EXCEPT !.state = st]
                       /\ t = [K[v] EXCEPT ![n] = y]
    OBVIOUS
  <1>6. y.mod = x.mod
    BY <1>4, <1>5 DEF Instances
  <1>7. instances' = [K EXCEPT ![v] = t]
    BY <1>2, <1>5
  <1>8. \A w \in VMs : w # v => instances'[w] = K[w]
    BY <1>7
  <1>9. instances'[v] = t
    BY <1>1, <1>2, <1>7
  <1>10. /\ DOMAIN t = DOMAIN K[v]
         /\ \A q \in DOMAIN K[v] : t[q] = IF q = n THEN y ELSE K[v][q]
    BY <1>5
  <1> SUFFICES ASSUME NEW w \in VMs, NEW p \in DOMAIN instances[w]
               PROVE  /\ p \in DOMAIN instances'[w]
                      /\ instances'[w][p].mod = instances[w][p].mod
                      /\ instances[w][p].state \in {"ready", "init_failed"} =>
                           instances'[w][p].state = instances[w][p].state
    BY DEF Final
  <1>11. /\ p \in DOMAIN K[w] /\ K[w][p].mod = instances[w][p].mod
         /\ K[w][p].state = instances[w][p].state
    BY DEF SameLife
  <1>12. CASE w # v
    BY <1>8, <1>11, <1>12
  <1>13. CASE w = v /\ p # n
    BY <1>9, <1>10, <1>11, <1>13
  <1>14. CASE w = v /\ p = n
    <2>1. instances'[w][p] = y
      BY <1>9, <1>10, <1>11, <1>14
    <2>2. y.mod = instances[w][p].mod
      BY <1>5, <1>6, <1>11, <1>14
    <2>3. instances[w][p].state = "uninitialized"
      BY <1>3, <1>14
    <2>4. p \in DOMAIN instances'[w]
      BY <1>9, <1>10, <1>11, <1>14
    <2> QED BY <2>1, <2>2, <2>3, <2>4
  <1> QED BY <1>12, <1>13, <1>14

\* Fail and Ready.
LEMMA EndFinal ==
  ASSUME Inv, call.step \in Steps, Fail \/ Ready
  PROVE  Final
  <1>1. instances \in [VMs -> Seq(Instances)]
    BY InvFacts DEF Machines
  <1>2. SameLife(instances, instances)
    BY DEF SameLife
  <1>3. \E st : instances' = [instances EXCEPT ![call.vm][New].state = st]
    BY DEF Fail, Ready
  <1> QED BY <1>1, <1>2, <1>3, MarkedFinal

\* The host's operations on the registry: an instance is added at the end.
LEMMA RegisterFinal ==
  ASSUME Inv, HostRegister
  PROVE  Final
  <1>1. Register
    BY DEF HostRegister
  <1>2. ASSUME NEW m \in Mods, runtime_module_add(m) \/ runtime_module_drop(m)
        PROVE  Final
    BY <1>2, UnchangedFinal DEF runtime_module_add, runtime_module_drop
  <1>3. ASSUME NEW alias \in Aliases, module_register_name(alias[1], alias[2])
        PROVE  Final
    BY <1>3, UnchangedFinal DEF module_register_name
  <1>4. ASSUME NEW v \in VMs, NEW m \in Mods, Instantiate(v, m)
        PROVE  Final
    <2>1. CASE UNCHANGED instances
      BY <2>1, UnchangedFinal
    <2>2. CASE instances' = [instances EXCEPT ![v] = Append(@, module_inst_new(m))]
      <3>1. PICK x, t : x = module_inst_new(m) /\ t = Append(instances[v], x)
        OBVIOUS
      <3>2. /\ instances \in [VMs -> Seq(Instances)] /\ x \in Instances
            /\ instances[v] \in Seq(Instances)
        BY <3>1, InvFacts, NewInst DEF Machines
      <3>3. instances' = [instances EXCEPT ![v] = t]
        BY <2>2, <3>1
      <3>4. \A p \in DOMAIN instances[v] : p \in DOMAIN t /\ t[p] = instances[v][p]
        BY <3>1, <3>2
      <3>5. instances'[v] = t /\ \A w \in VMs : w # v => instances'[w] = instances[w]
        BY <3>2, <3>3
      <3> QED BY <3>4, <3>5 DEF Final
    <2> QED BY <1>4, <2>1, <2>2 DEF Instantiate
  <1> QED BY <1>1, <1>2, <1>3, <1>4 DEF Register

\* The host's operations on machines: the instances that go had their machine
\* dropped.
LEMMA VmFinal ==
  ASSUME Inv, HostVm
  PROVE  Final
  <1>1. ASSUME NEW v \in VMs, runtime_vm_new(v)
        PROVE  Final
    BY <1>1, UnchangedFinal DEF runtime_vm_new
  <1>2. ASSUME NEW v \in VMs, runtime_vm_drop(v)
        PROVE  Final
    <2>1. vms' = vms \ {v} /\ instances' = [instances EXCEPT ![v] = << >>]
      BY <1>2 DEF runtime_vm_drop
    <2>2. instances \in [VMs -> Seq(Instances)]
      BY InvFacts DEF Machines
    <2>3. \A w \in VMs : w \in vms' => instances'[w] = instances[w]
      BY <2>1, <2>2
    <2> QED BY <2>3 DEF Final
  <1>3. CASE runtime_drop
    BY <1>3 DEF runtime_drop, Final
  <1> QED BY <1>1, <1>2, <1>3 DEF HostVm

\* Tables with other contents.
LEMMA TouchedLife ==
  ASSUME Inv, call.step \in Steps, NEW K, Touched(instances, K, call.vm)
  PROVE  K \in [VMs -> Seq(Instances)] /\ SameLife(instances, K)
  <1>1. /\ K \in [VMs -> Seq(Instances)] /\ instances \in [VMs -> Seq(Instances)]
        /\ Only(instances, K, call.vm) /\ SameStates(instances, K, call.vm)
    BY InvFacts DEF Touched, Machines
  <1>2. \A w \in VMs : /\ DOMAIN K[w] = 1..Len(K[w])
                       /\ DOMAIN instances[w] = 1..Len(instances[w])
    BY <1>1
  <1> SUFFICES ASSUME NEW w \in VMs
               PROVE  /\ DOMAIN K[w] = DOMAIN instances[w]
                      /\ \A q \in DOMAIN instances[w] :
                           /\ K[w][q].mod = instances[w][q].mod
                           /\ K[w][q].state = instances[w][q].state
    BY <1>1 DEF SameLife
  <1>3. CASE w = call.vm
    BY <1>1, <1>2, <1>3 DEF Only, SameStates
  <1>4. CASE w # call.vm
    BY <1>1, <1>4 DEF Only
  <1> QED BY <1>3, <1>4

\* vm_instantiate_module: only the instance that it constructs gets a state.
LEMMA ConstructFinal ==
  ASSUME Inv, HostConstruct
  PROVE  Final
  <1>1. Construct /\ instances \in [VMs -> Seq(Instances)]
    BY InvFacts DEF HostConstruct, Machines
  <1>2. CASE vm_link_module_inst
    <2>1. call.step \in Steps
      BY <1>2 DEF vm_link_module_inst, At, Steps
    <2>2. \/ UNCHANGED instances \/ Fail
          \/ \E a : instances' = [instances EXCEPT ![call.vm][New].addrs[call.i] = a]
      BY <1>2 DEF vm_link_module_inst, Crash
    <2>3. ASSUME NEW a, instances' = [instances EXCEPT ![call.vm][New].addrs[call.i] = a]
          PROVE  Final
      <3>1. PICK v, n, X : v = call.vm /\ n = New /\ X = [instances[v][n].addrs EXCEPT ![call.i] = a]
        OBVIOUS
      <3>2. instances' = [instances EXCEPT ![v][n].addrs = X]
        BY <2>3, <3>1
      <3> QED BY <1>1, <3>2, SameLifeField, SameLifeFinal
    <2> QED BY <2>1, <2>2, <2>3, EndFinal, UnchangedFinal
  <1>3. CASE module_inst_init_global
    <2>1. call.step \in Steps
      BY <1>3 DEF module_inst_init_global, At, Steps
    <2>2. UNCHANGED instances \/ Fail
      BY <1>3 DEF module_inst_init_global
    <2> QED BY <2>1, <2>2, EndFinal, UnchangedFinal
  <1>4. CASE module_inst_init_data
    <2>1. call.step \in Steps
      BY <1>4 DEF module_inst_init_data, At, Steps
    <2>2. \/ UNCHANGED instances \/ Fail
          \/ instances' = [instances EXCEPT ![call.vm][New].dropped_data[call.i] = TRUE]
      BY <1>4 DEF module_inst_init_data
    <2>3. CASE instances' = [instances EXCEPT ![call.vm][New].dropped_data[call.i] = TRUE]
      <3>1. PICK v, n, X : /\ v = call.vm /\ n = New
                           /\ X = [instances[v][n].dropped_data EXCEPT ![call.i] = TRUE]
        OBVIOUS
      <3>2. instances' = [instances EXCEPT ![v][n].dropped_data = X]
        BY <2>3, <3>1
      <3> QED BY <1>1, <3>2, SameLifeField, SameLifeFinal
    <2> QED BY <2>1, <2>2, <2>3, EndFinal, UnchangedFinal
  <1>5. CASE NoStart
    <2>1. call.step \in Steps /\ Ready
      BY <1>5 DEF NoStart, At, Steps
    <2> QED BY <2>1, EndFinal
  <1>6. CASE module_inst_init_elem
    <2>1. call.step \in Steps
      BY <1>6 DEF module_inst_init_elem, At, Steps
    <2>2. CASE Desc[call.mod].elements = << >>
      BY <1>6, <2>2, UnchangedFinal DEF module_inst_init_elem
    <2>3. CASE Fail
      BY <2>1, <2>3, EndFinal
    <2>4. ASSUME NEW K, Touched(instances, K, call.vm)
          PROVE  K \in [VMs -> Seq(Instances)] /\ SameLife(instances, K)
      BY <1>1, <2>1, <2>4, TouchedLife
    <2>5. ASSUME NEW K, NEW b, ElemMarks(K, b)
          PROVE  Final
      <3>1. /\ K \in [VMs -> Seq(Instances)] /\ SameLife(instances, K)
            /\ instances' = WithElement(K, call.vm, New, call.i, b)
        BY <2>4, <2>5 DEF ElemMarks
      <3>2. PICK v, n, X : /\ v = call.vm /\ n = New
                           /\ X = [K[v][n].dropped_elements EXCEPT ![call.i] = b]
        OBVIOUS
      <3>3. instances' = [K EXCEPT ![v][n].dropped_elements = X]
        BY <3>1, <3>2 DEF WithElement
      <3>4. SameLife(K, instances')
        <4>1. K \in [VMs -> Seq(Instances)]
          BY <3>1
        <4> QED BY <3>3, <4>1, SameLifeField
      <3>5. SameLife(instances, instances')
        BY <3>1, <3>4 DEF SameLife
      <3> QED BY <3>5, SameLifeFinal
    <2>6. ASSUME NEW K, ElemFails(K)
          PROVE  Final
      <3>1. /\ K \in [VMs -> Seq(Instances)] /\ SameLife(instances, K)
            /\ instances' = [K EXCEPT ![call.vm][New].state = "init_failed"]
        BY <2>4, <2>6 DEF ElemFails, WithState
      <3> QED BY <2>1, <3>1, MarkedFinal
    <2> QED BY <1>6, <2>2, <2>3, <2>5, <2>6, ElemCases
  <1> QED BY <1>1, <1>2, <1>3, <1>4, <1>5, <1>6 DEF Construct

\* Running code: the tables, memories and flags change, or a start function ends.
LEMMA RunFinal ==
  ASSUME Inv, \/ CallDirect \/ CallIndirect \/ TableSet \/ TableGrow \/ MemoryGrow
              \/ SegmentDrop \/ UseNull \/ CallBadRef \/ UseNoMemory \/ Trap \/ Return
  PROVE  Final
  <1>1. instances \in [VMs -> Seq(Instances)]
    BY InvFacts DEF Machines
  <1>2. Unwind => Final
    <2>1. Unwind => UNCHANGED instances \/ (call.step = "start" /\ Fail)
      BY DEF Unwind
    <2> QED BY <2>1, EndFinal, UnchangedFinal DEF Steps
  <1>3. ASSUME NEW a, Enter(a)
        PROVE  Final
    <2>1. Unwind \/ UNCHANGED instances
      BY <1>3 DEF Enter
    <2> QED BY <1>2, <2>1, UnchangedFinal
  <1>4. CASE CallDirect \/ CallIndirect
    BY <1>3, <1>4 DEF CallDirect, CallIndirect
  <1>5. CASE TableSet
    <2>1. PICK i \in Named("tab"), a \in Refs : \E j \in DOMAIN Table(i) :
            instances' = [instances EXCEPT
              ![on][Here.addrs[i][1]].tdata[Here.addrs[i][2]][j] = a]
      BY <1>5 DEF TableSet
    <2>2. PICK j, p, k :
            /\ p = Here.addrs[i][1] /\ k = Here.addrs[i][2]
            /\ instances' = [instances EXCEPT
                 ![on][Here.addrs[i][1]].tdata[Here.addrs[i][2]][j] = a]
      BY <2>1
    <2>3. instances' = [instances EXCEPT ![on][p].tdata[k][j] = a]
      BY <2>2
    <2>4. PICK X : X = [instances[on][p].tdata EXCEPT ![k][j] = a]
      OBVIOUS
    <2>5. instances' = [instances EXCEPT ![on][p].tdata = X]
      BY <2>3, <2>4
    <2> QED BY <1>1, <2>5, SameLifeField, SameLifeFinal
  <1>6. CASE TableGrow
    <2>1. PICK i \in Named("tab"), a \in Refs : instances' = [instances EXCEPT
            ![on][Here.addrs[i][1]].tdata[Here.addrs[i][2]] = Append(@, a)]
      BY <1>6 DEF TableGrow
    <2>2. PICK p, k : p = Here.addrs[i][1] /\ k = Here.addrs[i][2]
      OBVIOUS
    <2>3. instances' = [instances EXCEPT ![on][p].tdata[k] = Append(@, a)]
      BY <2>1, <2>2
    <2>4. PICK X : X = [instances[on][p].tdata EXCEPT ![k] = Append(@, a)]
      OBVIOUS
    <2>5. instances' = [instances EXCEPT ![on][p].tdata = X]
      BY <2>3, <2>4
    <2> QED BY <1>1, <2>5, SameLifeField, SameLifeFinal
  <1>7. CASE MemoryGrow
    <2>1. PICK p, k : instances' = [instances EXCEPT ![on][p].pages[k] = @ + 1]
      BY <1>7 DEF MemoryGrow
    <2>2. PICK X : X = [instances[on][p].pages EXCEPT ![k] = @ + 1]
      OBVIOUS
    <2>3. instances' = [instances EXCEPT ![on][p].pages = X]
      BY <2>1, <2>2
    <2> QED BY <1>1, <2>3, SameLifeField, SameLifeFinal
  <1>8. CASE SegmentDrop
    <2>1. PICK p, i :
            \/ instances' = [instances EXCEPT ![on][p].dropped_elements[i] = TRUE]
            \/ instances' = [instances EXCEPT ![on][p].dropped_data[i] = TRUE]
      BY <1>8 DEF SegmentDrop
    <2>2. PICK X, Y : /\ X = [instances[on][p].dropped_elements EXCEPT ![i] = TRUE]
                      /\ Y = [instances[on][p].dropped_data EXCEPT ![i] = TRUE]
      OBVIOUS
    <2>3. \/ instances' = [instances EXCEPT ![on][p].dropped_elements = X]
          \/ instances' = [instances EXCEPT ![on][p].dropped_data = Y]
      BY <2>1, <2>2
    <2>4. CASE instances' = [instances EXCEPT ![on][p].dropped_elements = X]
      BY <1>1, <2>4, SameLifeField, SameLifeFinal
    <2>5. CASE instances' = [instances EXCEPT ![on][p].dropped_data = Y]
      BY <1>1, <2>5, SameLifeField, SameLifeFinal
    <2> QED BY <2>3, <2>4, <2>5
  <1>9. CASE UseNull \/ CallBadRef \/ UseNoMemory
    BY <1>9, UnchangedFinal DEF UseNull, CallBadRef, UseNoMemory, Crash
  <1>10. CASE Trap
    BY <1>2, <1>10 DEF Trap
  <1>11. CASE Return
    <2>1. UNCHANGED instances \/ (call.step = "start" /\ Ready)
      BY <1>11 DEF Return
    <2> QED BY <2>1, EndFinal, UnchangedFinal DEF Steps
  <1> QED BY <1>4, <1>5, <1>6, <1>7, <1>8, <1>9, <1>10, <1>11

\* Every step that changes the registry or the machines.
LEMMA NextFinal ==
  ASSUME Inv, [Next]_allvars
  PROVE  [Final]_rtvars
  <1>1. CASE HostRegister
    BY <1>1, RegisterFinal
  <1>2. CASE HostVm
    BY <1>2, VmFinal
  <1>3. CASE HostConstruct
    BY <1>3, ConstructFinal
  <1>4. CASE \E v \in VMs : thread_reset(v)
    BY <1>4, UnchangedFinal DEF thread_reset
  <1>5. CASE \E v \in VMs, n \in Names, field \in Fields : HostCall(v, n, field)
    BY <1>5, UnchangedFinal DEF HostCall
  <1>6. CASE CallStart
    BY <1>6, UnchangedFinal DEF CallStart
  <1>7. CASE \/ CallDirect \/ CallIndirect \/ TableSet \/ TableGrow \/ MemoryGrow
             \/ SegmentDrop \/ UseNull \/ CallBadRef \/ UseNoMemory \/ Trap \/ Return
    BY <1>7, RunFinal
  <1>8. CASE UNCHANGED allvars
    BY <1>8 DEF allvars
  <1> QED BY <1>1, <1>2, <1>3, <1>4, <1>5, <1>6, <1>7, <1>8 DEF Next, Crashed

\* In all runs, whatever the host and the code in instances do, ready and failed
\* instances stay so, at their place, as long as their machine is in use.
THEOREM StatesAreFinal == Spec => StatesFinal
  <1>1. Inv /\ [Next]_allvars => [Final]_rtvars
    BY NextFinal
  <1> QED BY <1>1, InvAlways, PTL DEF Spec, StatesFinal

----------------------------------------------------------------------------
(***************************************************************************)
(* References that are no function's.  A machine is loose once an instance *)
(* of it has failed or holds references from elsewhere, and stays so; no   *)
(* table of another machine ever holds a 0.                                *)
(***************************************************************************)
Zeroed == \A v \in VMs : Loose(v) \/ ZeroFree(instances[v])

\* What call_indirect followed was in a table of a loose machine.
BadRefLoose ==
  LET v == IF frames # << >> THEN on ELSE call.vm
  IN  call.step = "bad_ref" => v \in VMs /\ Loose(v)

\* A step writes no 0 to the tables of a machine that is not loose.
ZeroKept == \A v \in VMs : ZeroFree(instances[v]) /\ ~Loose(v) => ZeroFree(instances'[v])

\* The tables of all machines are as they were.
SameTabs(I, J) ==
  \A w \in VMs : DOMAIN J[w] = DOMAIN I[w] /\ \A q \in DOMAIN I[w] : J[w][q].tdata = I[w][q].tdata

LEMMA SameTabsPut ==
  ASSUME NEW I \in [VMs -> Seq(Instances)], NEW v, NEW p, NEW n,
         v \in VMs /\ p \in DOMAIN I[v] => n.tdata = I[v][p].tdata,
         NEW J, J = [I EXCEPT ![v] = [I[v] EXCEPT ![p] = n]]
  PROVE  SameTabs(I, J)
  <1> SUFFICES ASSUME NEW w \in VMs
               PROVE  /\ DOMAIN J[w] = DOMAIN I[w]
                      /\ \A q \in DOMAIN I[w] : J[w][q].tdata = I[w][q].tdata
    BY DEF SameTabs
  <1>1. CASE w # v
    BY <1>1
  <1>2. CASE w = v
    <2>1. J[w] = [I[w] EXCEPT ![p] = n]
      BY <1>2
    <2>2. DOMAIN J[w] = DOMAIN I[w] /\ \A q \in DOMAIN I[w] : J[w][q] = IF q = p THEN n ELSE I[w][q]
      BY <2>1
    <2> QED BY <1>2, <2>2
  <1> QED BY <1>1, <1>2

\* The state, the addresses, the memories and the flags of an instance.
LEMMA SameTabsField ==
  ASSUME NEW I \in [VMs -> Seq(Instances)], NEW v, NEW p, NEW X, NEW J,
         \/ J = [I EXCEPT ![v][p].state = X]
         \/ J = [I EXCEPT ![v][p].addrs = X]
         \/ J = [I EXCEPT ![v][p].pages = X]
         \/ J = [I EXCEPT ![v][p].dropped_elements = X]
         \/ J = [I EXCEPT ![v][p].dropped_data = X]
  PROVE  SameTabs(I, J)
  <1>1. v \in VMs /\ p \in DOMAIN I[v] => I[v][p] \in Instances
    OBVIOUS
  <1>2. PICK x : x = I[v][p]
    OBVIOUS
  <1>3. ASSUME NEW n, \/ n = [x EXCEPT !.state = X] \/ n = [x EXCEPT !.addrs = X]
                      \/ n = [x EXCEPT !.pages = X] \/ n = [x EXCEPT !.dropped_elements = X]
                      \/ n = [x EXCEPT !.dropped_data = X],
               J = [I EXCEPT ![v] = [I[v] EXCEPT ![p] = n]]
        PROVE  SameTabs(I, J)
    <2>1. x \in Instances => n.tdata = x.tdata
      BY <1>3 DEF Instances
    <2>2. v \in VMs /\ p \in DOMAIN I[v] => n.tdata = I[v][p].tdata
      BY <1>1, <1>2, <2>1
    <2> QED BY <1>3, <2>2, SameTabsPut
  <1>4. CASE J = [I EXCEPT ![v][p].state = X]
    <2>1. PICK n : n = [x EXCEPT !.state = X]
      OBVIOUS
    <2>2. J = [I EXCEPT ![v] = [I[v] EXCEPT ![p] = n]]
      BY <1>2, <1>4, <2>1
    <2> QED BY <1>3, <2>1, <2>2
  <1>5. CASE J = [I EXCEPT ![v][p].addrs = X]
    <2>1. PICK n : n = [x EXCEPT !.addrs = X]
      OBVIOUS
    <2>2. J = [I EXCEPT ![v] = [I[v] EXCEPT ![p] = n]]
      BY <1>2, <1>5, <2>1
    <2> QED BY <1>3, <2>1, <2>2
  <1>6. CASE J = [I EXCEPT ![v][p].pages = X]
    <2>1. PICK n : n = [x EXCEPT !.pages = X]
      OBVIOUS
    <2>2. J = [I EXCEPT ![v] = [I[v] EXCEPT ![p] = n]]
      BY <1>2, <1>6, <2>1
    <2> QED BY <1>3, <2>1, <2>2
  <1>7. CASE J = [I EXCEPT ![v][p].dropped_elements = X]
    <2>1. PICK n : n = [x EXCEPT !.dropped_elements = X]
      OBVIOUS
    <2>2. J = [I EXCEPT ![v] = [I[v] EXCEPT ![p] = n]]
      BY <1>2, <1>7, <2>1
    <2> QED BY <1>3, <2>1, <2>2
  <1>8. CASE J = [I EXCEPT ![v][p].dropped_data = X]
    <2>1. PICK n : n = [x EXCEPT !.dropped_data = X]
      OBVIOUS
    <2>2. J = [I EXCEPT ![v] = [I[v] EXCEPT ![p] = n]]
      BY <1>2, <1>8, <2>1
    <2> QED BY <1>3, <2>1, <2>2
  <1> QED BY <1>4, <1>5, <1>6, <1>7, <1>8

\* The same tables hold the same references.
LEMMA SameTabsFree ==
  ASSUME NEW I, NEW J, SameTabs(I, J), NEW w \in VMs, ZeroFree(I[w])
  PROVE  ZeroFree(J[w])
  BY DEF SameTabs, ZeroFree

LEMMA SameTabsZero ==
  ASSUME SameTabs(instances, instances')
  PROVE  ZeroKept
  BY SameTabsFree DEF ZeroKept

LEMMA UnchangedZero ==
  ASSUME UNCHANGED instances
  PROVE  ZeroKept
  BY DEF ZeroKept

\* Fail and Ready.
LEMMA EndZero ==
  ASSUME Inv, Fail \/ Ready
  PROVE  ZeroKept
  <1>1. instances \in [VMs -> Seq(Instances)]
    BY InvFacts DEF Machines
  <1>2. PICK st : instances' = [instances EXCEPT ![call.vm][New].state = st]
    BY DEF Fail, Ready
  <1> QED BY <1>1, <1>2, SameTabsField, SameTabsZero

\* A new instance has tables of nullref.
LEMMA RegisterZero ==
  ASSUME Inv, HostRegister
  PROVE  ZeroKept
  <1>1. Register
    BY DEF HostRegister
  <1>2. ASSUME NEW m \in Mods, runtime_module_add(m) \/ runtime_module_drop(m)
        PROVE  ZeroKept
    BY <1>2, UnchangedZero DEF runtime_module_add, runtime_module_drop
  <1>3. ASSUME NEW alias \in Aliases, module_register_name(alias[1], alias[2])
        PROVE  ZeroKept
    BY <1>3, UnchangedZero DEF module_register_name
  <1>4. ASSUME NEW v \in VMs, NEW m \in Mods, Instantiate(v, m)
        PROVE  ZeroKept
    <2>1. CASE UNCHANGED instances
      BY <2>1, UnchangedZero
    <2>2. CASE instances' = [instances EXCEPT ![v] = Append(@, module_inst_new(m))]
      <3>1. PICK x, t : x = module_inst_new(m) /\ t = Append(instances[v], x)
        OBVIOUS
      <3>2. /\ instances \in [VMs -> Seq(Instances)] /\ x \in Instances
            /\ instances[v] \in Seq(Instances) /\ Shaped(x) /\ Blank(x)
        BY <3>1, InvFacts, NewInst DEF Machines
      <3>3. instances' = [instances EXCEPT ![v] = t]
        BY <2>2, <3>1
      <3>4. \A p \in DOMAIN t : t[p] = x \/ (p \in DOMAIN instances[v] /\ t[p] = instances[v][p])
        BY <3>1, <3>2
      <3>5. instances'[v] = t /\ \A w \in VMs : w # v => instances'[w] = instances[w]
        BY <3>2, <3>3
      <3>6. \A i \in DOMAIN x.tdata : \A j \in DOMAIN x.tdata[i] : x.tdata[i][j] # NULL
        <4>1. /\ DOMAIN x.tdata = 1..Len(x.addrs)
              /\ \A i \in 1..Len(x.addrs) : DOMAIN x.tdata[i] = 1..Len(x.tdata[i])
          <5>1. /\ x.tdata \in Seq(Seq(Addresses)) /\ Len(x.tdata) = Len(x.addrs)
                /\ \A i \in 1..Len(x.addrs) : x.tdata[i] \in Seq(Addresses)
            BY <3>2, InstFacts
          <5> QED BY <5>1
        <4>2. nullref # NULL
          BY DEF nullref, NULL
        <4> QED BY <3>2, <4>1, <4>2 DEF Blank
      <3>7. ZeroFree(instances[v]) => ZeroFree(t)
        BY <3>4, <3>6 DEF ZeroFree
      <3> QED BY <3>5, <3>7 DEF ZeroKept
    <2> QED BY <1>4, <2>1, <2>2 DEF Instantiate
  <1> QED BY <1>1, <1>2, <1>3, <1>4 DEF Register

\* Machines that are dropped have no tables.
LEMMA VmZero ==
  ASSUME Inv, HostVm
  PROVE  ZeroKept
  <1>1. ZeroFree(<< >>)
    BY DEF ZeroFree
  <1>2. ASSUME NEW v \in VMs, runtime_vm_new(v)
        PROVE  ZeroKept
    BY <1>2, UnchangedZero DEF runtime_vm_new
  <1>3. ASSUME NEW v \in VMs, runtime_vm_drop(v)
        PROVE  ZeroKept
    <2>1. instances' = [instances EXCEPT ![v] = << >>]
      BY <1>3 DEF runtime_vm_drop
    <2>2. instances \in [VMs -> Seq(Instances)]
      BY InvFacts DEF Machines
    <2>3. \A w \in VMs : instances'[w] = instances[w] \/ instances'[w] = << >>
      BY <2>1, <2>2
    <2> QED BY <1>1, <2>3 DEF ZeroKept
  <1>4. CASE runtime_drop
    <2>1. \A w \in VMs : instances'[w] = << >>
      BY <1>4 DEF runtime_drop
    <2> QED BY <1>1, <2>1 DEF ZeroKept
  <1> QED BY <1>2, <1>3, <1>4 DEF HostVm

\* Linking and initialisation: only a module with references copies what is no
\* function's.
LEMMA ConstructZero ==
  ASSUME Inv, HostConstruct
  PROVE  ZeroKept
  <1>1. Construct /\ instances \in [VMs -> Seq(Instances)]
    BY InvFacts DEF HostConstruct, Machines
  <1>2. CASE vm_link_module_inst
    <2>1. \/ UNCHANGED instances \/ Fail
          \/ \E a : instances' = [instances EXCEPT ![call.vm][New].addrs[call.i] = a]
      BY <1>2 DEF vm_link_module_inst, Crash
    <2>2. ASSUME NEW a, instances' = [instances EXCEPT ![call.vm][New].addrs[call.i] = a]
          PROVE  ZeroKept
      <3>1. PICK v, n, X : v = call.vm /\ n = New /\ X = [instances[v][n].addrs EXCEPT ![call.i] = a]
        OBVIOUS
      <3>2. instances' = [instances EXCEPT ![v][n].addrs = X]
        BY <2>2, <3>1
      <3> QED BY <1>1, <3>2, SameTabsField, SameTabsZero
    <2> QED BY <2>1, <2>2, EndZero, UnchangedZero
  <1>3. CASE module_inst_init_global
    <2>1. UNCHANGED instances \/ Fail
      BY <1>3 DEF module_inst_init_global
    <2> QED BY <2>1, EndZero, UnchangedZero
  <1>4. CASE module_inst_init_data
    <2>1. \/ UNCHANGED instances \/ Fail
          \/ instances' = [instances EXCEPT ![call.vm][New].dropped_data[call.i] = TRUE]
      BY <1>4 DEF module_inst_init_data
    <2>2. CASE instances' = [instances EXCEPT ![call.vm][New].dropped_data[call.i] = TRUE]
      <3>1. PICK v, n, X : /\ v = call.vm /\ n = New
                           /\ X = [instances[v][n].dropped_data EXCEPT ![call.i] = TRUE]
        OBVIOUS
      <3>2. instances' = [instances EXCEPT ![v][n].dropped_data = X]
        BY <2>2, <3>1
      <3> QED BY <1>1, <3>2, SameTabsField, SameTabsZero
    <2> QED BY <2>1, <2>2, EndZero, UnchangedZero
  <1>5. CASE NoStart
    BY <1>5, EndZero DEF NoStart
  <1>6. CASE module_inst_init_elem
    <2>1. call.step \in Steps
      BY <1>6 DEF module_inst_init_elem, At, Steps
    <2>2. CASE Desc[call.mod].elements = << >>
      BY <1>6, <2>2, UnchangedZero DEF module_inst_init_elem
    <2>3. CASE Fail
      BY <2>3, EndZero
    <2>4. Desc[call.mod].refs => Loose(call.vm)
      <3>1. /\ New \in 1..Len(instances[call.vm]) /\ Progress(Inst, call)
            /\ Machine(instances[call.vm])
        BY <2>1, StepFacts
      <3>2. New \in DOMAIN instances[call.vm]
        BY <3>1, MachineFacts
      <3> QED BY <3>1, <3>2 DEF Loose, Progress, Inst
    <2>5. ASSUME NEW K, Touched(instances, K, call.vm), SameTabs(K, instances'),
                 ZeroFree(instances[call.vm]) /\ ~Desc[call.mod].refs => ZeroFree(K[call.vm])
          PROVE  ZeroKept
      <3> SUFFICES ASSUME NEW w \in VMs, ZeroFree(instances[w]), ~Loose(w)
                   PROVE  ZeroFree(instances'[w])
        BY DEF ZeroKept
      <3>1. ZeroFree(K[w])
        BY <2>4, <2>5 DEF Touched, Only
      <3> QED BY <2>5, <3>1, SameTabsFree
    <2>6. ASSUME NEW K, NEW b, ElemMarks(K, b)
          PROVE  ZeroKept
      <3>1. /\ K \in [VMs -> Seq(Instances)] /\ Touched(instances, K, call.vm)
            /\ instances' = WithElement(K, call.vm, New, call.i, b)
            /\ ZeroFree(instances[call.vm]) /\ ~Desc[call.mod].refs => ZeroFree(K[call.vm])
        BY <2>1, <2>6, TouchedLife DEF ElemMarks
      <3>2. PICK v, n, X : /\ v = call.vm /\ n = New
                           /\ X = [K[v][n].dropped_elements EXCEPT ![call.i] = b]
        OBVIOUS
      <3>3. instances' = [K EXCEPT ![v][n].dropped_elements = X]
        BY <3>1, <3>2 DEF WithElement
      <3>4. SameTabs(K, instances')
        <4>1. K \in [VMs -> Seq(Instances)]
          BY <3>1
        <4> QED BY <3>3, <4>1, SameTabsField
      <3> QED BY <2>5, <3>1, <3>4
    <2>7. ASSUME NEW K, ElemFails(K)
          PROVE  ZeroKept
      <3>1. /\ K \in [VMs -> Seq(Instances)] /\ Touched(instances, K, call.vm)
            /\ instances' = [K EXCEPT ![call.vm][New].state = "init_failed"]
            /\ ZeroFree(instances[call.vm]) /\ ~Desc[call.mod].refs => ZeroFree(K[call.vm])
        BY <2>1, <2>7, TouchedLife DEF ElemFails, WithState
      <3>2. PICK v, n, X : v = call.vm /\ n = New /\ X = "init_failed"
        OBVIOUS
      <3>3. instances' = [K EXCEPT ![v][n].state = X]
        BY <3>1, <3>2
      <3>4. SameTabs(K, instances')
        <4>1. K \in [VMs -> Seq(Instances)]
          BY <3>1
        <4> QED BY <3>3, <4>1, SameTabsField
      <3> QED BY <2>5, <3>1, <3>4
    <2> QED BY <1>6, <2>2, <2>3, <2>6, <2>7, ElemCases
  <1> QED BY <1>1, <1>2, <1>3, <1>4, <1>5, <1>6 DEF Construct

\* Where running code is, and what its tables hold.
LEMMA TableIn ==
  ASSUME Inv, Running, NEW i \in Named("tab"), ZeroFree(instances[on])
  PROVE  \A a \in Contents(i) : a # NULL
  <1>1. PICK s, t : s = instances[on] /\ t = Here.addrs[i]
    OBVIOUS
  <1>2. t[1] \in 1..Len(s) /\ t[2] \in 1..Len(s[t[1]].addrs)
    BY <1>1, NamedFacts DEF Owned
  <1>3. Machine(s)
    BY <1>1, RunFacts
  <1>4. s[t[1]] \in Instances /\ Shaped(s[t[1]]) /\ DOMAIN s = 1..Len(s)
    BY <1>2, <1>3, MachineFacts
  <1>5. DOMAIN s[t[1]].tdata = 1..Len(s[t[1]].addrs)
    <2>1. s[t[1]].tdata \in Seq(Seq(Addresses)) /\ Len(s[t[1]].tdata) = Len(s[t[1]].addrs)
      BY <1>4, InstFacts
    <2> QED BY <2>1
  <1>6. Table(i) = s[t[1]].tdata[t[2]]
    BY <1>1 DEF Table
  <1>7. t[1] \in DOMAIN s /\ t[2] \in DOMAIN s[t[1]].tdata
    BY <1>2, <1>4, <1>5
  <1> QED BY <1>1, <1>6, <1>7 DEF Contents, ZeroFree

\* The code makes a 0 only in a failed instance or in a module with references,
\* or finds it in a table.
LEMMA RefNotZero ==
  ASSUME Inv, Running, ZeroFree(instances[on]), ~Loose(on), NEW a \in Refs
  PROVE  a # NULL
  <1>1. PICK p : p = frames[Len(frames)][1]
    OBVIOUS
  <1>2. p \in DOMAIN instances[on] /\ Here = instances[on][p]
    BY <1>1, RunFacts, MachineFacts DEF Here
  <1>3. ~Desc[Here.mod].refs /\ Here.state # "init_failed"
    BY <1>2 DEF Loose
  <1>4. nullref # NULL
    BY DEF nullref, NULL
  <1>5. \A i \in DOMAIN Here.addrs : Here.addrs[i] # NULL
    BY <1>3, UnsetFailed
  <1>6. \A i \in Named("tab") : \A b \in Contents(i) : b # NULL
    BY TableIn
  <1>7. PICK F, T : /\ F = {Here.addrs[i] : i \in {j \in DOMAIN Here.addrs :
                                                 Desc[Here.mod].ents[j].kind = "func"}}
                    /\ T = UNION {Contents(i) : i \in Named("tab")}
    OBVIOUS
  <1>8. a = nullref \/ a \in F \/ a \in T
    BY <1>3, <1>7 DEF Refs
  <1>9. a \in F => a # NULL
    BY <1>5, <1>7
  <1>10. a \in T => a # NULL
    BY <1>6, <1>7
  <1> QED BY <1>4, <1>8, <1>9, <1>10

\* Running code.
LEMMA RunZero ==
  ASSUME Inv, \/ CallDirect \/ CallIndirect \/ TableSet \/ TableGrow \/ MemoryGrow
              \/ SegmentDrop \/ UseNull \/ CallBadRef \/ UseNoMemory \/ Trap \/ Return
  PROVE  ZeroKept
  <1>1. instances \in [VMs -> Seq(Instances)]
    BY InvFacts DEF Machines
  <1>2. Unwind => ZeroKept
    BY EndZero, UnchangedZero DEF Unwind
  <1>3. ASSUME NEW a, Enter(a)
        PROVE  ZeroKept
    BY <1>2, <1>3, UnchangedZero DEF Enter
  <1>4. CASE CallDirect \/ CallIndirect
    BY <1>3, <1>4 DEF CallDirect, CallIndirect
  <1>5. ASSUME Running, NEW i \in Named("tab"), NEW a \in Refs, NEW p, NEW k, NEW u,
               p = Here.addrs[i][1], k = Here.addrs[i][2],
               u = Append(Table(i), a) \/ \E j \in DOMAIN Table(i) : u = [Table(i) EXCEPT ![j] = a],
               instances' = [instances EXCEPT ![on][p].tdata[k] = u]
        PROVE  ZeroKept
    <2> SUFFICES ASSUME NEW w \in VMs, ZeroFree(instances[w]), ~Loose(w)
                 PROVE  ZeroFree(instances'[w])
      BY DEF ZeroKept
    <2>1. CASE w = on
      <3>1. a # NULL
        BY <1>5, <2>1, RefNotZero
      <3>2. \A j \in DOMAIN Table(i) : Table(i)[j] # NULL
        BY <1>5, <2>1, TableIn DEF Contents
      <3>3. Table(i) \in Seq(Addresses)
        BY <1>5, ContentFacts
      <3>4. NoZeros(u)
        <4>1. CASE u = Append(Table(i), a)
          BY <3>1, <3>2, <3>3, <4>1 DEF NoZeros
        <4>2. ASSUME NEW j \in DOMAIN Table(i), u = [Table(i) EXCEPT ![j] = a]
              PROVE  NoZeros(u)
          BY <3>1, <3>2, <4>2 DEF NoZeros
        <4> QED BY <1>5, <4>1, <4>2
      <3>5. PICK I, v, K : I = instances /\ v = on /\ K = instances'
        OBVIOUS
      <3>6. /\ K = WithTable(I, v, p, k, u) /\ I \in [VMs -> Seq(Instances)]
            /\ w \in VMs /\ ZeroFree(I[w])
        BY <1>1, <1>5, <3>5 DEF WithTable
      <3>7. ZeroFree(K[w])
        BY <3>4, <3>6, ZeroPut
      <3> QED BY <3>5, <3>7
    <2>2. CASE w # on
      <3>1. on \in VMs
        BY <1>5, RunFacts
      <3>2. instances'[w] = instances[w]
        BY <1>1, <1>5, <2>2, <3>1
      <3> QED BY <3>2
    <2> QED BY <2>1, <2>2
  <1>6. CASE TableSet
    <2>1. PICK i \in Named("tab"), a \in Refs : \E j \in DOMAIN Table(i) :
            instances' = [instances EXCEPT
              ![on][Here.addrs[i][1]].tdata[Here.addrs[i][2]][j] = a]
      BY <1>6 DEF TableSet
    <2>2. PICK j \in DOMAIN Table(i) :
            instances' = [instances EXCEPT
              ![on][Here.addrs[i][1]].tdata[Here.addrs[i][2]][j] = a]
      BY <2>1
    <2>3. PICK p, k : p = Here.addrs[i][1] /\ k = Here.addrs[i][2]
      OBVIOUS
    <2>4. instances' = [instances EXCEPT ![on][p].tdata[k][j] = a]
      BY <2>2, <2>3
    <2>5. PICK u : u = [Table(i) EXCEPT ![j] = a]
      OBVIOUS
    <2>6. Table(i) = instances[on][p].tdata[k]
      BY <2>3 DEF Table
    <2>7. instances' = [instances EXCEPT ![on][p].tdata[k] = u]
      BY <2>4, <2>5, <2>6
    <2>8. Running
      BY <1>6 DEF TableSet
    <2> QED BY <1>5, <2>3, <2>5, <2>7, <2>8
  <1>7. CASE TableGrow
    <2>1. PICK i \in Named("tab"), a \in Refs : instances' = [instances EXCEPT
            ![on][Here.addrs[i][1]].tdata[Here.addrs[i][2]] = Append(@, a)]
      BY <1>7 DEF TableGrow
    <2>2. PICK p, k : p = Here.addrs[i][1] /\ k = Here.addrs[i][2]
      OBVIOUS
    <2>3. PICK u : u = Append(Table(i), a)
      OBVIOUS
    <2>4. instances' = [instances EXCEPT ![on][p].tdata[k] = u]
      BY <2>1, <2>2, <2>3 DEF Table
    <2>5. Running
      BY <1>7 DEF TableGrow
    <2> QED BY <1>5, <2>2, <2>3, <2>4, <2>5
  <1>8. CASE MemoryGrow
    <2>1. PICK p, k : instances' = [instances EXCEPT ![on][p].pages[k] = @ + 1]
      BY <1>8 DEF MemoryGrow
    <2>2. PICK X : X = [instances[on][p].pages EXCEPT ![k] = @ + 1]
      OBVIOUS
    <2>3. instances' = [instances EXCEPT ![on][p].pages = X]
      BY <2>1, <2>2
    <2> QED BY <1>1, <2>3, SameTabsField, SameTabsZero
  <1>9. CASE SegmentDrop
    <2>1. PICK p, i :
            \/ instances' = [instances EXCEPT ![on][p].dropped_elements[i] = TRUE]
            \/ instances' = [instances EXCEPT ![on][p].dropped_data[i] = TRUE]
      BY <1>9 DEF SegmentDrop
    <2>2. PICK X, Y : /\ X = [instances[on][p].dropped_elements EXCEPT ![i] = TRUE]
                      /\ Y = [instances[on][p].dropped_data EXCEPT ![i] = TRUE]
      OBVIOUS
    <2>3. \/ instances' = [instances EXCEPT ![on][p].dropped_elements = X]
          \/ instances' = [instances EXCEPT ![on][p].dropped_data = Y]
      BY <2>1, <2>2
    <2>4. CASE instances' = [instances EXCEPT ![on][p].dropped_elements = X]
      BY <1>1, <2>4, SameTabsField, SameTabsZero
    <2>5. CASE instances' = [instances EXCEPT ![on][p].dropped_data = Y]
      BY <1>1, <2>5, SameTabsField, SameTabsZero
    <2> QED BY <2>3, <2>4, <2>5
  <1>10. CASE UseNull \/ CallBadRef \/ UseNoMemory
    BY <1>10, UnchangedZero DEF UseNull, CallBadRef, UseNoMemory, Crash
  <1>11. CASE Trap
    BY <1>2, <1>11 DEF Trap
  <1>12. CASE Return
    BY <1>12, EndZero, UnchangedZero DEF Return
  <1> QED BY <1>4, <1>6, <1>7, <1>8, <1>9, <1>10, <1>11, <1>12

LEMMA NextZero ==
  ASSUME Inv, [Next]_allvars
  PROVE  ZeroKept
  <1>1. CASE HostRegister
    BY <1>1, RegisterZero
  <1>2. CASE HostVm
    BY <1>2, VmZero
  <1>3. CASE HostConstruct
    BY <1>3, ConstructZero
  <1>4. CASE \E v \in VMs : thread_reset(v)
    BY <1>4, UnchangedZero DEF thread_reset
  <1>5. CASE \E v \in VMs, n \in Names, field \in Fields : HostCall(v, n, field)
    BY <1>5, UnchangedZero DEF HostCall
  <1>6. CASE CallStart
    BY <1>6, UnchangedZero DEF CallStart
  <1>7. CASE \/ CallDirect \/ CallIndirect \/ TableSet \/ TableGrow \/ MemoryGrow
             \/ SegmentDrop \/ UseNull \/ CallBadRef \/ UseNoMemory \/ Trap \/ Return
    BY <1>7, RunZero
  <1>8. CASE UNCHANGED allvars
    BY <1>8, UnchangedZero DEF allvars, rtvars
  <1> QED BY <1>1, <1>2, <1>3, <1>4, <1>5, <1>6, <1>7, <1>8 DEF Next, Crashed

\* Failed instances and modules stay, and with them what makes a machine loose,
\* until its machine is dropped and has no tables.
LEMMA ZeroedNext ==
  ASSUME Inv, Zeroed, [Next]_allvars
  PROVE  Zeroed'
  <1>1. [Final]_rtvars /\ ZeroKept /\ Inv'
    BY NextFinal, NextZero, NextInv
  <1> SUFFICES ASSUME NEW v \in VMs, ~Loose(v)'
               PROVE  ZeroFree(instances'[v])
    BY DEF Zeroed
  <1>2. CASE UNCHANGED instances
    BY <1>2 DEF Zeroed, Loose
  <1>3. CASE Final /\ v \notin vms'
    <2>1. Counted(instances, ref_count, modules, vms)' /\ Machines(instances)'
      BY <1>1 DEF Inv, Types
    <2>2. \A p \in 1..Len(instances'[v]) : v \in vms'
      BY <2>1 DEF Counted
    <2>3. DOMAIN instances'[v] = 1..Len(instances'[v])
      BY <2>1 DEF Machines
    <2> QED BY <1>3, <2>2, <2>3 DEF ZeroFree
  <1>4. CASE Final /\ v \in vms'
    <2>1. ~Loose(v)
      BY <1>4 DEF Loose, Final
    <2> QED BY <1>1, <2>1 DEF Zeroed, ZeroKept
  <1> QED BY <1>1, <1>2, <1>3, <1>4 DEF rtvars

\* Nothing but call_indirect follows a reference.
LEMMA OnlyBadRef ==
  ASSUME Inv, Next, call'.step = "bad_ref"
  PROVE  CallBadRef \/ UNCHANGED allvars
  <1>1. call \in Calls
    BY InvFacts
  <1>2. NoCall.step = "ok"
    BY DEF NoCall
  <1>3. CASE HostRegister
    BY <1>2, <1>3 DEF HostRegister, Register, runtime_module_add, runtime_module_drop,
                      module_register_name, Instantiate, Called
  <1>4. CASE HostVm
    <2>1. CASE \E v \in VMs : runtime_vm_new(v) \/ runtime_vm_drop(v)
      BY <1>2, <2>1 DEF runtime_vm_new, runtime_vm_drop
    <2>2. CASE runtime_drop
      <3>1. call' = NoCall \/ call' = [NoCall EXCEPT !.step = "crash"]
        BY <2>2 DEF runtime_drop
      <3> QED BY <1>2, <3>1 DEF NoCall
    <2> QED BY <1>4, <2>1, <2>2 DEF HostVm
  <1>5. ASSUME Fail \/ Ready
        PROVE  FALSE
    <2>1. call' = [call EXCEPT !.step = "err"] \/ call' = [call EXCEPT !.step = "ok"]
      BY <1>5 DEF Fail, Ready
    <2> QED BY <1>1, <2>1 DEF Calls
  <1>6. ASSUME call.step \in Steps, NEW n, NEW next \in Steps, Advance(n, next)
        PROVE  FALSE
    BY <1>1, <1>6, AdvanceFacts DEF Steps
  <1>7. CASE HostConstruct
    <2>1. Crash("crash") => FALSE
      BY <1>1 DEF Crash, Calls
    <2>2. Construct
      BY <1>7 DEF HostConstruct
    <2>3. CASE vm_link_module_inst
      <3>1. call.step \in Steps
        BY <2>3 DEF vm_link_module_inst, At, Steps
      <3>2. Fail \/ Crash("crash") \/ \E n : Advance(n, "global")
        BY <2>3 DEF vm_link_module_inst
      <3> QED BY <1>5, <1>6, <2>1, <3>1, <3>2 DEF Steps
    <2>4. CASE module_inst_init_global
      <3>1. call.step \in Steps
        BY <2>4 DEF module_inst_init_global, At, Steps
      <3>2. Fail \/ Advance(0, "elem")
        BY <2>4 DEF module_inst_init_global
      <3> QED BY <1>5, <1>6, <3>1, <3>2 DEF Steps
    <2>5. CASE module_inst_init_elem
      <3>1. call.step \in Steps
        BY <2>5 DEF module_inst_init_elem, At, Steps
      <3>2. \/ Fail \/ call' = [call EXCEPT !.step = "err"]
            \/ \E n : Advance(n, "data")
        BY <2>5 DEF module_inst_init_elem
      <3> QED BY <1>1, <1>5, <1>6, <3>1, <3>2 DEF Steps, Calls
    <2>6. CASE module_inst_init_data
      <3>1. call.step \in Steps
        BY <2>6 DEF module_inst_init_data, At, Steps
      <3>2. Fail \/ \E n : Advance(n, "start")
        BY <2>6 DEF module_inst_init_data
      <3> QED BY <1>5, <1>6, <3>1, <3>2 DEF Steps
    <2>7. CASE NoStart
      BY <1>5, <2>7 DEF NoStart
    <2> QED BY <2>2, <2>3, <2>4, <2>5, <2>6, <2>7 DEF Construct
  <1>8. CASE \E v \in VMs : thread_reset(v)
    BY <1>2, <1>8 DEF thread_reset
  <1>9. CASE \E v \in VMs, n \in Names, field \in Fields : HostCall(v, n, field)
    BY <1>2, <1>9 DEF HostCall
  <1>10. CASE CallStart
    BY <1>10 DEF CallStart, At
  <1>11. Running /\ UNCHANGED call => FALSE
    BY DEF Running, Crashes
  <1>12. ASSUME Running, Unwind
         PROVE  FALSE
    BY <1>5, <1>11, <1>12 DEF Unwind
  <1>13. CASE CallDirect \/ CallIndirect
    BY <1>11, <1>12, <1>13 DEF CallDirect, CallIndirect, Enter
  <1>14. CASE TableSet \/ TableGrow \/ MemoryGrow \/ SegmentDrop
    BY <1>11, <1>14 DEF TableSet, TableGrow, MemoryGrow, SegmentDrop, Stay
  <1>15. CASE UseNull \/ UseNoMemory
    BY <1>1, <1>15 DEF UseNull, UseNoMemory, Crash, Calls
  <1>16. CASE Trap
    BY <1>12, <1>16 DEF Trap
  <1>17. CASE Return
    BY <1>5, <1>11, <1>17 DEF Return
  <1> QED BY <1>3, <1>4, <1>7, <1>8, <1>9, <1>10, <1>13, <1>14, <1>15, <1>16, <1>17
          DEF Next, Crashed

LEMMA BadRefNext ==
  ASSUME Inv, Zeroed, BadRefLoose, [Next]_allvars
  PROVE  BadRefLoose'
  <1>1. CASE UNCHANGED allvars
    BY <1>1 DEF allvars, rtvars, thvars, BadRefLoose, Loose
  <1>2. CASE CallBadRef
    <2>1. Running /\ UNCHANGED <<instances, frames, on>>
      BY <1>2 DEF CallBadRef, Crash, thvars
    <2>2. PICK i \in Named("tab") : NULL \in Contents(i)
      BY <1>2 DEF CallBadRef
    <2>3. ~ZeroFree(instances[on])
      BY <2>1, <2>2, TableIn
    <2>4. on \in VMs /\ frames # << >>
      BY <2>1, RunFacts DEF Running
    <2>5. Loose(on)
      BY <2>3, <2>4 DEF Zeroed
    <2> QED BY <2>1, <2>4, <2>5 DEF BadRefLoose, Loose
  <1>3. CASE call'.step # "bad_ref"
    BY <1>3 DEF BadRefLoose
  <1> QED BY <1>1, <1>2, <1>3, OnlyBadRef

\* At first there are no tables.
LEMMA ZeroedInit ==
  ASSUME Init
  PROVE  Zeroed /\ BadRefLoose
  <1>1. instances = [v \in VMs |-> << >>] /\ call = NoCall
    BY DEF Init, RtInit
  <1> QED BY <1>1 DEF Zeroed, ZeroFree, BadRefLoose, NoCall

LEMMA ZeroedAlways == Spec => [](Zeroed /\ BadRefLoose)
  <1>1. Init => Zeroed /\ BadRefLoose
    BY ZeroedInit
  <1>2. Inv /\ (Zeroed /\ BadRefLoose) /\ [Next]_allvars => (Zeroed /\ BadRefLoose)'
    BY ZeroedNext, BadRefNext
  <1> QED BY <1>1, <1>2, InvAlways, PTL DEF Spec

\* In all runs every reference in a table, in whatever way it came there, is
\* nullref or the address of a function's definition in an instance that is still
\* there; a table holds another one, a 0, only where an instance failed or a module
\* has locals, globals or types of references.
THEOREM ReferencesGood == Spec => []References
  <1>1. Inv /\ Zeroed => References
    <2> SUFFICES ASSUME Inv, Zeroed, NEW v \in VMs, NEW p \in DOMAIN instances[v],
                        NEW i \in DOMAIN instances[v][p].tdata,
                        NEW j \in DOMAIN instances[v][p].tdata[i], NEW a,
                        a = instances[v][p].tdata[i][j]
                 PROVE  a = nullref \/ Defines(v, a, "func") \/ (a = NULL /\ Loose(v))
      BY DEF References
    <2>1. /\ Sane(instances[v]) /\ p \in 1..Len(instances[v])
          /\ i \in 1..Len(instances[v][p].addrs)
          /\ instances[v][p] \in Instances /\ Shaped(instances[v][p])
          /\ DOMAIN instances[v] = 1..Len(instances[v])
      BY InstanceAt
    <2>2. instances[v][p].tdata[i] \in Seq(Addresses)
      BY <2>1, InstFacts
    <2>3. j \in 1..Len(instances[v][p].tdata[i])
      BY <2>2
    <2>4. CASE a \notin Nothing
      <3>1. Owned(instances[v], a, "func")
        BY <2>1, <2>3, <2>4 DEF Sane, TableRefs
      <3> QED BY <2>1, <3>1, OwnedDefines
    <2>5. CASE a = NULL
      <3>1. ~ZeroFree(instances[v])
        BY <2>5 DEF ZeroFree
      <3> QED BY <2>5, <3>1 DEF Zeroed
    <2> QED BY <2>4, <2>5 DEF Nothing
  <1> QED BY <1>1, InvAlways, ZeroedAlways, PTL

\* In all runs linking and running follow an address that was never set only in a
\* machine with a failed instance, or by an import that names its own module, and
\* call_indirect follows what is no function only in a machine with a failed
\* instance or a module with locals, globals or types of references; runtime_drop
\* never finds a module in use.
THEOREM CrashesExplained == Spec => []CrashNeedsFailure
  <1>1. Inv /\ BadRefLoose => CrashNeedsFailure
    BY DEF Inv, NullCrash, BadRefLoose, CrashNeedsFailure
  <1> QED BY <1>1, InvAlways, ZeroedAlways, PTL

----------------------------------------------------------------------------
(***************************************************************************)
(* Sums.                                                                   *)
(***************************************************************************)
\* f holds the sums of the first numbers of s.
IsSum(f, s) ==
  f = [n \in 0..Len(s) |-> IF n = 0 THEN 0 ELSE f[n - 1] + s[n]]

\* What Total defines is a choice among such functions.
LEMMA TotalIsSum ==
  ASSUME NEW s, NEW f, IsSum(f, s), \A g : IsSum(g, s) => g = f
  PROVE  Total(s) = f[Len(s)]
  <1>1. PICK h : h = CHOOSE g : g = [n \in 0..Len(s) |-> IF n = 0 THEN 0 ELSE g[n - 1] + s[n]]
    OBVIOUS
  <1>2. \E g : g = [n \in 0..Len(s) |-> IF n = 0 THEN 0 ELSE g[n - 1] + s[n]]
    BY Zenon DEF IsSum
  <1>3. h = [n \in 0..Len(s) |-> IF n = 0 THEN 0 ELSE h[n - 1] + s[n]]
    BY <1>1, <1>2, Zenon
  <1>4. IsSum(h, s)
    BY <1>3, Zenon DEF IsSum
  <1>5. h = f
    BY <1>4
  <1>6. Total(s) = h[Len(s)]
    BY <1>1, Zenon DEF Total
  <1> QED BY <1>5, <1>6

\* Two sequences with the same first m numbers have the same first m sums.
LEMMA SumsAgree ==
  ASSUME NEW s \in Seq(Nat), NEW t \in Seq(Nat), NEW f, NEW g, IsSum(f, s), IsSum(g, t),
         NEW m \in Nat, m <= Len(s), m <= Len(t), \A n \in 1..m : s[n] = t[n]
  PROVE  \A n \in 0..m : f[n] = g[n] /\ f[n] \in Nat
  <1>1. PICK B : B = {n \in 0..m : ~(f[n] = g[n] /\ f[n] \in Nat)}
    OBVIOUS
  <1>2. SUFFICES B = {}
    BY <1>1
  <1>3. SUFFICES ASSUME B # {} PROVE FALSE
    OBVIOUS
  <1>4. B \in SUBSET Nat
    BY <1>1
  <1>5. PICK k : k = Min(B)
    OBVIOUS
  <1>6. k \in B /\ \A y \in B : k <= y
    BY <1>3, <1>4, <1>5, LeastIn
  <1>7. k \in 0..m /\ Len(s) \in Nat /\ Len(t) \in Nat /\ k \in 0..Len(s) /\ k \in 0..Len(t)
    BY <1>1, <1>6
  <1>8. /\ f[k] = IF k = 0 THEN 0 ELSE f[k - 1] + s[k]
        /\ g[k] = IF k = 0 THEN 0 ELSE g[k - 1] + t[k]
    BY <1>7 DEF IsSum
  <1>9. k # 0
    BY <1>1, <1>6, <1>8
  <1>10. k - 1 \in 0..m /\ ~(k <= k - 1)
    BY <1>7, <1>9
  <1>11. f[k - 1] = g[k - 1] /\ f[k - 1] \in Nat
    BY <1>1, <1>6, <1>10
  <1>12. s[k] = t[k] /\ s[k] \in Nat
    BY <1>7, <1>9
  <1>13. f[k] = g[k] /\ f[k] \in Nat
    BY <1>8, <1>9, <1>11, <1>12
  <1> QED BY <1>1, <1>6, <1>13

\* The sums of a sequence are one function.
LEMMA SumUnique ==
  ASSUME NEW s \in Seq(Nat), NEW f, NEW g, IsSum(f, s), IsSum(g, s)
  PROVE  g = f
  <1>1. Len(s) \in Nat
    OBVIOUS
  <1>2. \A n \in 0..Len(s) : f[n] = g[n]
    BY <1>1, SumsAgree
  <1>3. /\ f = [n \in 0..Len(s) |-> f[n]]
        /\ g = [n \in 0..Len(s) |-> g[n]]
    BY DEF IsSum
  <1> QED BY <1>2, <1>3

\* With one number more there is one sum more.
LEMMA SumAppended ==
  ASSUME NEW s \in Seq(Nat), NEW k \in Nat, NEW f, IsSum(f, s)
  PROVE  /\ f[Len(s)] \in Nat
         /\ \E g : IsSum(g, Append(s, k)) /\ g[Len(s) + 1] = f[Len(s)] + k
  <1>1. PICK t, l : t = Append(s, k) /\ l = Len(s)
    OBVIOUS
  <1>2. /\ l \in Nat /\ Len(t) = l + 1 /\ t[l + 1] = k /\ t \in Seq(Nat)
        /\ \A n \in 1..l : t[n] = s[n]
    BY <1>1
  <1>3. \A n \in 0..l : f[n] \in Nat
    BY <1>1, <1>2, SumsAgree
  <1>4. PICK g : g = [n \in 0..(l + 1) |-> IF n = l + 1 THEN f[l] + k ELSE f[n]]
    OBVIOUS
  <1>5. \A n \in 0..l : f[n] = IF n = 0 THEN 0 ELSE f[n - 1] + s[n]
    BY <1>1 DEF IsSum
  <1>6. ASSUME NEW n \in 0..(l + 1)
        PROVE  g[n] = IF n = 0 THEN 0 ELSE g[n - 1] + t[n]
    <2>1. CASE n = l + 1
      <3>1. g[n] = f[l] + k /\ n # 0 /\ n - 1 = l /\ l \in 0..(l + 1) /\ l # l + 1
        BY <1>2, <1>4, <2>1
      <3>2. g[n - 1] = f[l] /\ t[n] = k
        BY <1>2, <1>4, <2>1, <3>1
      <3> QED BY <3>1, <3>2
    <2>2. CASE n # l + 1
      <3>1. n \in 0..l /\ g[n] = f[n]
        BY <1>2, <1>4, <2>2
      <3>2. CASE n = 0
        BY <1>5, <3>1, <3>2
      <3>3. CASE n # 0
        <4>1. n - 1 \in 0..(l + 1) /\ n - 1 # l + 1 /\ n \in 1..l
          BY <1>2, <3>1, <3>3
        <4>2. g[n - 1] = f[n - 1] /\ t[n] = s[n]
          BY <1>2, <1>4, <4>1
        <4> QED BY <1>5, <3>1, <3>3, <4>2
      <3> QED BY <3>2, <3>3
    <2> QED BY <2>1, <2>2
  <1>7. g = [n \in 0..(l + 1) |-> IF n = 0 THEN 0 ELSE g[n - 1] + t[n]]
    <2>1. g = [n \in 0..(l + 1) |-> g[n]]
      BY <1>4
    <2> QED BY <1>6, <2>1
  <1>8. IsSum(g, t)
    BY <1>2, <1>7 DEF IsSum
  <1>9. g[l + 1] = f[l] + k
    BY <1>2, <1>4
  <1> QED BY <1>1, <1>2, <1>3, <1>8, <1>9

\* Every sequence has sums.
LEMMA SumExists ==
  ASSUME NEW s \in Seq(Nat)
  PROVE  \E f : IsSum(f, s)
  <1>1. PICK B : B = {n \in Nat : \E t \in Seq(Nat) : Len(t) = n /\ ~\E f : IsSum(f, t)}
    OBVIOUS
  <1>2. SUFFICES B = {}
    <2>1. Len(s) \in Nat
      OBVIOUS
    <2> QED BY <1>1, <1>2, <2>1
  <1>3. SUFFICES ASSUME B # {} PROVE FALSE
    OBVIOUS
  <1>4. B \in SUBSET Nat
    BY <1>1
  <1>5. PICK k : k = Min(B)
    OBVIOUS
  <1>6. k \in B /\ \A y \in B : k <= y
    BY <1>3, <1>4, <1>5, LeastIn
  <1>7. PICK t \in Seq(Nat) : Len(t) = k /\ ~\E f : IsSum(f, t)
    BY <1>1, <1>6
  <1>8. k \in Nat
    BY <1>4, <1>6
  <1>9. CASE k = 0
    <2>1. PICK f : f = [n \in 0..0 |-> 0]
      OBVIOUS
    <2>2. f = [n \in 0..0 |-> IF n = 0 THEN 0 ELSE f[n - 1] + t[n]]
      BY <2>1
    <2>3. IsSum(f, t)
      BY <1>7, <1>9, <2>2 DEF IsSum
    <2> QED BY <1>7, <2>3
  <1>10. CASE k # 0
    <2>1. PICK u : u = SubSeq(t, 1, k - 1)
      OBVIOUS
    <2>2. k - 1 \in Nat /\ ~(k <= k - 1)
      BY <1>8, <1>10
    <2>3. u \in Seq(Nat) /\ Len(u) = k - 1 /\ t[k] \in Nat
      BY <1>7, <1>8, <1>10, <2>1
    <2>4. t = Append(u, t[k])
      BY <1>7, <1>8, <1>10, <2>1, <2>3
    <2>5. k - 1 \notin B
      BY <1>6, <2>2
    <2>6. PICK f : IsSum(f, u)
      BY <1>1, <2>2, <2>3, <2>5
    <2>7. \E g : IsSum(g, Append(u, t[k]))
      BY <2>3, <2>6, SumAppended
    <2>8. \E g : IsSum(g, t)
      BY <2>4, <2>7
    <2> QED BY <1>7, <2>8
  <1> QED BY <1>9, <1>10

\* The sum of no numbers.
LEMMA TotalEmpty == Total(<< >>) = 0
  <1> PICK e : e = << >>
    OBVIOUS
  <1>1. e = << >> /\ e \in Seq(Nat) /\ Len(e) = 0
    OBVIOUS
  <1>2. PICK h : IsSum(h, e)
    BY <1>1, SumExists
  <1>3. \A g : IsSum(g, e) => g = h
    BY <1>1, <1>2, SumUnique
  <1>4. Total(e) = h[Len(e)]
    BY <1>2, <1>3, TotalIsSum
  <1>5. h[0] = 0
    BY <1>1, <1>2 DEF IsSum
  <1> QED BY <1>1, <1>4, <1>5

\* A sum is a number, and a number at the end is added to it.
LEMMA TotalAppended ==
  ASSUME NEW s \in Seq(Nat), NEW k \in Nat
  PROVE  Total(s) \in Nat /\ Total(Append(s, k)) = Total(s) + k
  <1>1. PICK f : IsSum(f, s)
    BY SumExists
  <1>2. Total(s) = f[Len(s)]
    <2>1. \A g : IsSum(g, s) => g = f
      BY <1>1, SumUnique
    <2> QED BY <1>1, <2>1, TotalIsSum
  <1>3. f[Len(s)] \in Nat
    BY <1>1, SumAppended
  <1>4. PICK t : t = Append(s, k)
    OBVIOUS
  <1>5. t \in Seq(Nat) /\ Len(t) = Len(s) + 1
    BY <1>4
  <1>6. PICK g : IsSum(g, t) /\ g[Len(s) + 1] = f[Len(s)] + k
    BY <1>1, <1>4, SumAppended
  <1>7. Total(t) = g[Len(t)]
    <2>1. \A h : IsSum(h, t) => h = g
      BY <1>5, <1>6, SumUnique
    <2> QED BY <1>6, <2>1, TotalIsSum
  <1> QED BY <1>2, <1>3, <1>4, <1>5, <1>6, <1>7

----------------------------------------------------------------------------
(***************************************************************************)
(* What the threads count.                                                 *)
(***************************************************************************)
Tids == VMs \cup {"start"}
ThreadStates == [trapped : BOOLEAN, frame_depth : Int, stack_size : Int,
                 results : Addresses]

\* x counts activations that have the room rs.
Counts(x, rs) == x.frame_depth = Len(rs) /\ x.stack_size = Total(rs)

\* Thread r runs activations with the room rs, the others run nothing.
Tallied(th, r, rs) ==
  /\ th \in [Tids -> ThreadStates]
  /\ rs \in Seq(Nat)
  /\ ~th["start"].trapped
  /\ \A t \in Tids :
       /\ th[t].frame_depth <= FRAME_LIMIT + 1
       /\ ~th[t].trapped => Counts(th[t], IF t = r THEN rs ELSE << >>)
  /\ rs # << >> => r \in Tids /\ ~th[r].trapped

Rooms(s, fs) == [n \in DOMAIN fs |-> EntAt(s, fs[n]).room]

CountInv == call.step \notin Crashes => Tallied(threads, Tid, Rooms(instances[on], frames))

\* What an activation changes in a thread's state leaves it one.
LEMMA CountUpdate ==
  ASSUME NEW x \in ThreadStates, NEW d \in Int, NEW z \in Int
  PROVE  [x EXCEPT !.frame_depth = d, !.stack_size = z] \in ThreadStates
  BY Zenon DEF ThreadStates

\* A thread that runs, if any does, gets another state.
LEMMA TalliedPut ==
  ASSUME NEW th, NEW r, NEW rs, Tallied(th, r, rs), NEW t \in Tids, t = r \/ rs = << >>,
         NEW y \in ThreadStates, NEW qs \in Seq(Nat), t = "start" => ~y.trapped,
         y.frame_depth <= FRAME_LIMIT + 1, ~y.trapped => Counts(y, qs),
         qs # << >> => ~y.trapped
  PROVE  Tallied([th EXCEPT ![t] = y], t, qs)
  <1>1. PICK h : h = [th EXCEPT ![t] = y]
    OBVIOUS
  <1>2. th \in [Tids -> ThreadStates]
    BY DEF Tallied
  <1>3. /\ h \in [Tids -> ThreadStates] /\ h[t] = y
        /\ \A u \in Tids : u # t => h[u] = th[u]
    BY <1>1, <1>2
  <1>4. ~h["start"].trapped
    <2>1. "start" \in Tids /\ ~th["start"].trapped
      BY DEF Tids, Tallied
    <2> QED BY <1>3, <2>1
  <1>5. ASSUME NEW u \in Tids
        PROVE  /\ h[u].frame_depth <= FRAME_LIMIT + 1
               /\ ~h[u].trapped => Counts(h[u], IF u = t THEN qs ELSE << >>)
    <2>1. CASE u = t
      BY <1>3, <2>1
    <2>2. CASE u # t
      <3>1. /\ h[u] = th[u] /\ th[u].frame_depth <= FRAME_LIMIT + 1
            /\ ~th[u].trapped => Counts(th[u], IF u = r THEN rs ELSE << >>)
        BY <1>3, <2>2 DEF Tallied
      <3>2. (IF u = r THEN rs ELSE << >>) = << >>
        BY <2>2
      <3> QED BY <2>2, <3>1, <3>2
    <2> QED BY <2>1, <2>2
  <1>6. Tallied(h, t, qs)
    BY <1>3, <1>4, <1>5 DEF Tallied
  <1> QED BY <1>1, <1>6

\* When nothing runs it does not matter which thread would.
LEMMA TalliedIdle ==
  ASSUME NEW th, NEW r, Tallied(th, r, << >>), NEW q
  PROVE  Tallied(th, q, << >>)
  BY DEF Tallied

\* A thread is reset and runs nothing.
LEMMA TalliedReset ==
  ASSUME NEW th, NEW r, NEW rs, Tallied(th, r, rs), NEW t \in Tids, t = r \/ rs = << >>, NEW q
  PROVE  Tallied([th EXCEPT ![t] = NewThread], q, << >>)
  <1>1. PICK y, e : y = NewThread /\ e = << >>
    OBVIOUS
  <1>2. NULL \in Addresses
    BY DEF NULL, Addresses
  <1>3. y \in ThreadStates /\ ~y.trapped /\ y.frame_depth = 0 /\ y.stack_size = 0
    BY <1>1, <1>2 DEF NewThread, ThreadStates
  <1>4. e \in Seq(Nat) /\ Len(e) = 0 /\ Total(e) = 0
    BY <1>1, TotalEmpty
  <1>5. Counts(y, e) /\ y.frame_depth <= FRAME_LIMIT + 1
    BY <1>3, <1>4, LimitAssumption DEF Counts
  <1>6. Tallied([th EXCEPT ![t] = y], t, e)
    BY <1>1, <1>3, <1>4, <1>5, TalliedPut
  <1> QED BY <1>1, <1>6, TalliedIdle

\* A machine's thread traps and runs nothing.
LEMMA TalliedTrap ==
  ASSUME NEW th, NEW r, NEW rs, Tallied(th, r, rs), NEW t \in VMs, t = r \/ rs = << >>, NEW q
  PROVE  Tallied([th EXCEPT ![t].trapped = TRUE], q, << >>)
  <1>1. PICK y, e : y = [th[t] EXCEPT !.trapped = TRUE] /\ e = << >>
    OBVIOUS
  <1>2. th \in [Tids -> ThreadStates] /\ t \in Tids /\ th[t].frame_depth <= FRAME_LIMIT + 1
    BY DEF Tallied, Tids
  <1>3. th[t] \in ThreadStates
    BY <1>2
  <1>4. y \in ThreadStates /\ y.trapped = TRUE /\ y.frame_depth = th[t].frame_depth
    BY <1>1, <1>3 DEF ThreadStates
  <1>5. t # "start" /\ e \in Seq(Nat)
    BY <1>1, VMsAssumption
  <1>6. Tallied([th EXCEPT ![t] = y], t, e)
    BY <1>1, <1>2, <1>4, <1>5, TalliedPut
  <1>7. [th EXCEPT ![t].trapped = TRUE] = [th EXCEPT ![t] = y]
    BY <1>1, <1>2
  <1> QED BY <1>1, <1>6, <1>7, TalliedIdle

\* One activation more.
LEMMA TalliedPush ==
  ASSUME NEW th, NEW r, NEW rs, Tallied(th, r, rs), NEW t \in Tids, t = r \/ rs = << >>,
         ~th[t].trapped, th[t].frame_depth <= FRAME_LIMIT, NEW n \in Nat
  PROVE  Tallied([th EXCEPT ![t].frame_depth = @ + 1, ![t].stack_size = @ + n],
                 t, Append(rs, n))
  <1>1. PICK y, qs : /\ y = [th[t] EXCEPT !.frame_depth = @ + 1, !.stack_size = @ + n]
                     /\ qs = Append(rs, n)
    OBVIOUS
  <1>2. th \in [Tids -> ThreadStates] /\ rs \in Seq(Nat)
    BY DEF Tallied
  <1>3. /\ th[t] \in ThreadStates /\ th[t].frame_depth \in Int /\ th[t].stack_size \in Int
    BY <1>2 DEF ThreadStates
  <1>4. /\ y \in ThreadStates /\ y.trapped = th[t].trapped
        /\ y.frame_depth = th[t].frame_depth + 1 /\ y.stack_size = th[t].stack_size + n
    <2> PICK x, d, z : x = th[t] /\ d = th[t].frame_depth + 1 /\ z = th[t].stack_size + n
      OBVIOUS
    <2>1. y = [x EXCEPT !.frame_depth = d, !.stack_size = z]
      BY <1>1
    <2>2. x \in ThreadStates /\ d \in Int /\ z \in Int
      BY <1>3
    <2>3. y \in ThreadStates
      BY <2>1, <2>2, CountUpdate, Zenon
    <2> QED BY <2>1, <2>2, <2>3 DEF ThreadStates
  <1>5. Counts(th[t], rs)
    BY DEF Tallied
  <1>6. /\ qs \in Seq(Nat) /\ Len(qs) = Len(rs) + 1 /\ Total(qs) = Total(rs) + n
    BY <1>1, <1>2, TotalAppended
  <1>7. Counts(y, qs)
    BY <1>4, <1>5, <1>6 DEF Counts
  <1>8. y.frame_depth <= FRAME_LIMIT + 1 /\ ~y.trapped
    BY <1>3, <1>4, LimitAssumption
  <1>9. Tallied([th EXCEPT ![t] = y], t, qs)
    BY <1>4, <1>6, <1>7, <1>8, TalliedPut
  <1>10. [th EXCEPT ![t].frame_depth = @ + 1, ![t].stack_size = @ + n] = [th EXCEPT ![t] = y]
    BY <1>1, <1>2
  <1> QED BY <1>1, <1>9, <1>10

\* One activation less.
LEMMA TalliedPop ==
  ASSUME NEW th, NEW r, NEW qs \in Seq(Nat), NEW n \in Nat, Tallied(th, r, Append(qs, n))
  PROVE  Tallied([th EXCEPT ![r].frame_depth = @ - 1, ![r].stack_size = @ - n], r, qs)
  <1>1. PICK y, rs : /\ y = [th[r] EXCEPT !.frame_depth = @ - 1, !.stack_size = @ - n]
                     /\ rs = Append(qs, n)
    OBVIOUS
  <1>2. /\ rs # << >> /\ Len(rs) = Len(qs) + 1 /\ Total(rs) = Total(qs) + n
        /\ Total(qs) \in Nat /\ Len(qs) \in Nat
    BY <1>1, TotalAppended
  <1>3. /\ th \in [Tids -> ThreadStates] /\ r \in Tids /\ ~th[r].trapped /\ Tallied(th, r, rs)
        /\ th[r].frame_depth <= FRAME_LIMIT + 1
    BY <1>1, <1>2 DEF Tallied
  <1>4. /\ th[r] \in ThreadStates /\ th[r].frame_depth \in Int /\ th[r].stack_size \in Int
    BY <1>3 DEF ThreadStates
  <1>5. /\ y \in ThreadStates /\ y.trapped = th[r].trapped
        /\ y.frame_depth = th[r].frame_depth - 1 /\ y.stack_size = th[r].stack_size - n
    <2> PICK x, d, z : x = th[r] /\ d = th[r].frame_depth - 1 /\ z = th[r].stack_size - n
      OBVIOUS
    <2>1. y = [x EXCEPT !.frame_depth = d, !.stack_size = z]
      BY <1>1
    <2>2. x \in ThreadStates /\ d \in Int /\ z \in Int
      BY <1>4
    <2>3. y \in ThreadStates
      BY <2>1, <2>2, CountUpdate, Zenon
    <2> QED BY <2>1, <2>2, <2>3 DEF ThreadStates
  <1>6. Counts(th[r], rs)
    BY <1>3 DEF Tallied
  <1>7. Counts(y, qs)
    BY <1>2, <1>5, <1>6 DEF Counts
  <1>8. y.frame_depth <= FRAME_LIMIT + 1 /\ ~y.trapped
    BY <1>3, <1>4, <1>5, LimitAssumption
  <1>9. Tallied([th EXCEPT ![r] = y], r, qs)
    BY <1>3, <1>5, <1>7, <1>8, TalliedPut
  <1>10. [th EXCEPT ![r].frame_depth = @ - 1, ![r].stack_size = @ - n] = [th EXCEPT ![r] = y]
    BY <1>1, <1>3
  <1> QED BY <1>1, <1>9, <1>10

\* The results are kept.
LEMMA TalliedResults ==
  ASSUME NEW th, NEW t \in Tids, Tallied(th, t, << >>), NEW a \in Addresses
  PROVE  Tallied([th EXCEPT ![t].results = a], t, << >>)
  <1>1. PICK y, e : y = [th[t] EXCEPT !.results = a] /\ e = << >>
    OBVIOUS
  <1>2. /\ th \in [Tids -> ThreadStates] /\ Tallied(th, t, e) /\ e \in Seq(Nat)
        /\ th[t].frame_depth <= FRAME_LIMIT + 1
        /\ ~th[t].trapped => Counts(th[t], e)
        /\ t = "start" => ~th[t].trapped
    BY <1>1 DEF Tallied
  <1>3. th[t] \in ThreadStates
    BY <1>2
  <1>4. /\ y \in ThreadStates /\ y.trapped = th[t].trapped
        /\ y.frame_depth = th[t].frame_depth /\ y.stack_size = th[t].stack_size
    BY <1>1, <1>3 DEF ThreadStates
  <1>5. ~y.trapped => Counts(y, e)
    BY <1>2, <1>4 DEF Counts
  <1>6. Tallied([th EXCEPT ![t] = y], t, e)
    BY <1>1, <1>2, <1>4, <1>5, TalliedPut
  <1>7. [th EXCEPT ![t].results = a] = [th EXCEPT ![t] = y]
    BY <1>1, <1>2
  <1> QED BY <1>1, <1>6, <1>7

\* The room of a function is a number.
LEMMA RoomFacts ==
  ASSUME NEW s, Machine(s), NEW a, NEW kind, Owned(s, a, kind)
  PROVE  EntAt(s, a).room \in Nat
  <1>1. a[1] \in 1..Len(s) /\ a[2] \in 1..Len(s[a[1]].addrs)
    BY DEF Owned
  <1>2. s[a[1]] \in Instances /\ Shaped(s[a[1]])
    BY <1>1, MachineFacts
  <1>3. EntOf(s[a[1]], a[2]) \in Entities
    BY <1>1, <1>2, InstFacts
  <1> QED BY <1>3 DEF EntAt, Entities

\* The rooms of the activations are numbers, one for each.
LEMMA RoomsFacts ==
  ASSUME NEW s, Machine(s), NEW fs \in Seq(Addresses),
         \A n \in 1..Len(fs) : Owned(s, fs[n], "func")
  PROVE  Rooms(s, fs) \in Seq(Nat) /\ Len(Rooms(s, fs)) = Len(fs)
  <1>1. PICK l : l = Len(fs)
    OBVIOUS
  <1>2. l \in Nat /\ DOMAIN fs = 1..l
    BY <1>1
  <1>3. PICK rs : rs = [n \in 1..l |-> EntAt(s, fs[n]).room]
    OBVIOUS
  <1>4. \A n \in 1..l : EntAt(s, fs[n]).room \in Nat
    BY <1>1, RoomFacts
  <1>5. rs \in Seq(Nat) /\ Len(rs) = l
    BY <1>2, <1>3, <1>4
  <1>6. Rooms(s, fs) = rs
    BY <1>2, <1>3 DEF Rooms
  <1> QED BY <1>1, <1>5, <1>6

\* No activation has no room.
LEMMA NoRooms ==
  ASSUME NEW s
  PROVE  Rooms(s, << >>) = << >>
  <1>1. PICK e, rs : e = << >> /\ rs = Rooms(s, e)
    OBVIOUS
  <1>2. DOMAIN e = {} /\ e \in Seq(Nat)
    BY <1>1
  <1>3. rs = [n \in {} |-> EntAt(s, e[n]).room]
    BY <1>1, <1>2 DEF Rooms
  <1>4. rs = << >>
    BY <1>3
  <1> QED BY <1>1, <1>4

\* The room of one more activation comes last.
LEMMA RoomsAppended ==
  ASSUME NEW s, Machine(s), NEW fs \in Seq(Addresses), NEW a \in Addresses,
         \A n \in 1..Len(fs) : Owned(s, fs[n], "func"), Owned(s, a, "func")
  PROVE  Rooms(s, Append(fs, a)) = Append(Rooms(s, fs), EntAt(s, a).room)
  <1>1. PICK gs, rs, n, l : /\ gs = Append(fs, a) /\ rs = Rooms(s, fs)
                            /\ n = EntAt(s, a).room /\ l = Len(fs)
    OBVIOUS
  <1>2. /\ gs \in Seq(Addresses) /\ Len(gs) = l + 1 /\ gs[l + 1] = a /\ l \in Nat
        /\ \A k \in 1..l : gs[k] = fs[k]
        /\ DOMAIN fs = 1..l /\ DOMAIN gs = 1..(l + 1)
    BY <1>1
  <1>3. rs \in Seq(Nat) /\ Len(rs) = l /\ n \in Nat
    BY <1>1, RoomsFacts, RoomFacts
  <1>4. \A k \in 1..l : rs[k] = EntAt(s, fs[k]).room
    BY <1>1, <1>2 DEF Rooms
  <1>5. PICK qs : qs = Append(rs, n)
    OBVIOUS
  <1>6. /\ qs \in Seq(Nat) /\ Len(qs) = l + 1 /\ qs[l + 1] = n
        /\ \A k \in 1..l : qs[k] = rs[k]
    BY <1>2, <1>3, <1>5
  <1>7. \A k \in 1..(l + 1) : qs[k] = EntAt(s, gs[k]).room
    <2> SUFFICES ASSUME NEW k \in 1..(l + 1) PROVE qs[k] = EntAt(s, gs[k]).room
      OBVIOUS
    <2>1. CASE k = l + 1
      BY <1>1, <1>2, <1>6, <2>1
    <2>2. CASE k # l + 1
      <3>1. k \in 1..l
        BY <1>2, <2>2
      <3> QED BY <1>2, <1>4, <1>6, <3>1
    <2> QED BY <2>1, <2>2
  <1>8. qs = [k \in 1..(l + 1) |-> qs[k]]
    BY <1>2, <1>6
  <1>9. qs = [k \in 1..(l + 1) |-> EntAt(s, gs[k]).room]
    BY <1>7, <1>8
  <1>10. Rooms(s, gs) = qs
    BY <1>2, <1>9 DEF Rooms
  <1> QED BY <1>1, <1>5, <1>10

\* The rooms stay while the instances keep their modules.
LEMMA RoomsStay ==
  ASSUME NEW s, NEW t, NEW fs \in Seq(Addresses),
         \A n \in 1..Len(fs) : Owned(s, fs[n], "func"),
         \A p \in 1..Len(s) : t[p].mod = s[p].mod
  PROVE  Rooms(t, fs) = Rooms(s, fs)
  <1>1. DOMAIN fs = 1..Len(fs)
    OBVIOUS
  <1>2. \A n \in DOMAIN fs : EntAt(t, fs[n]).room = EntAt(s, fs[n]).room
    BY <1>1 DEF Owned, EntAt, EntOf
  <1> QED BY <1>2 DEF Rooms

\* When nothing runs, any thread that has not trapped counts nothing.
LEMMA IdleTally ==
  ASSUME CountInv, call.step \notin Crashes, frames = << >>, NEW q
  PROVE  Tallied(threads, q, << >>)
  <1>1. Tallied(threads, Tid, << >>)
    BY NoRooms DEF CountInv
  <1> QED BY <1>1, TalliedIdle

\* After a step that ends with nothing running every thread counts nothing.
LEMMA NothingRuns ==
  ASSUME NEW q, Tallied(threads', q, << >>), frames' = << >>
  PROVE  CountInv'
  <1>1. Rooms(instances'[on'], frames') = << >>
    BY NoRooms
  <1>2. Tallied(threads', Tid', << >>)
    BY TalliedIdle
  <1> QED BY <1>1, <1>2 DEF CountInv

\* While code runs, its thread has not trapped and counts what runs.
LEMMA RunTally ==
  ASSUME Inv, CountInv, Running
  PROVE  /\ Tallied(threads, Tid, Rooms(instances[on], frames)) /\ Tid \in Tids
         /\ Rooms(instances[on], frames) # << >> /\ ~threads[Tid].trapped
         /\ Tid = IF call.step = "start" THEN "start" ELSE on
  <1>1. Tallied(threads, Tid, Rooms(instances[on], frames))
    BY DEF CountInv, Running
  <1>2. Rooms(instances[on], frames) # << >>
    <2>1. Len(Rooms(instances[on], frames)) = Len(frames) /\ Len(frames) >= 1
      BY RunFacts, RoomsFacts
    <2> QED BY <2>1
  <1> QED BY <1>1, <1>2 DEF Tallied, Tid

\* One lemma per action, or per group of actions that change the same state.
\* The host's operations on the registry and on machines, and linking.
LEMMA HostCounts ==
  ASSUME Inv, CountInv, HostRegister \/ HostVm \/ HostConstruct
  PROVE  CountInv'
  <1>1. CASE HostRegister
    <2>1. frames = << >> /\ Register /\ UNCHANGED thvars
      BY <1>1 DEF HostRegister
    <2>2. call.step \notin Crashes
      BY <2>1 DEF Register, runtime_module_add, runtime_module_drop, module_register_name,
                  Instantiate, Idle, Crashes
    <2>3. Tallied(threads', Tid, << >>) /\ frames' = << >>
      BY <2>1, <2>2, IdleTally DEF thvars
    <2> QED BY <2>3, NothingRuns
  <1>2. CASE HostConstruct
    <2>1. Construct /\ UNCHANGED thvars
      BY <1>2 DEF HostConstruct
    <2>2. call.step \in Steps /\ (call.step # "start" \/ Desc[call.mod].start = 0)
      BY <2>1 DEF Construct, vm_link_module_inst, module_inst_init_global,
                  module_inst_init_elem, module_inst_init_data, NoStart, At, Steps
    <2>3. frames = << >> /\ call.step \notin Crashes
      BY <2>2, NotRunning DEF Steps, Crashes
    <2>4. Tallied(threads', Tid, << >>) /\ frames' = << >>
      BY <2>1, <2>3, IdleTally DEF thvars
    <2> QED BY <2>4, NothingRuns
  <1>3. CASE HostVm
    <2>1. frames = << >> /\ UNCHANGED <<frames, on>>
      BY <1>3 DEF HostVm
    <2>2. call.step \notin Crashes
      BY <1>3 DEF HostVm, runtime_vm_new, runtime_vm_drop, runtime_drop, Idle, Crashes
    <2>3. Tallied(threads, Tid, << >>)
      BY <2>1, <2>2, IdleTally
    <2>4. ASSUME NEW v \in VMs, threads' = [threads EXCEPT ![v] = NewThread]
          PROVE  CountInv'
      <3>1. Tallied(threads', v, << >>)
        BY <2>3, <2>4, TalliedReset DEF Tids
      <3> QED BY <2>1, <3>1, NothingRuns
    <2>5. ASSUME threads' = [t \in DOMAIN threads |-> NewThread]
          PROVE  CountInv'
      <3>1. DOMAIN threads = Tids /\ "start" \in Tids
        BY <2>3 DEF Tallied, Tids
      <3>2. NULL \in Addresses
        BY DEF NULL, Addresses
      <3>3. /\ NewThread \in ThreadStates /\ ~NewThread.trapped
            /\ NewThread.frame_depth = 0 /\ NewThread.stack_size = 0
        BY <3>2 DEF NewThread, ThreadStates
      <3>4. Counts(NewThread, << >>)
        BY <3>3, TotalEmpty DEF Counts
      <3>5. Tallied(threads', "start", << >>)
        BY <2>5, <3>1, <3>3, <3>4, LimitAssumption DEF Tallied
      <3> QED BY <2>1, <3>5, NothingRuns
    <2> QED BY <1>3, <2>4, <2>5 DEF HostVm
  <1> QED BY <1>1, <1>2, <1>3

\* thread_reset.
LEMMA ResetCounts ==
  ASSUME Inv, CountInv, NEW v \in VMs, thread_reset(v)
  PROVE  CountInv'
  <1>1. /\ frames = << >> /\ frames' = << >> /\ call.step \notin Crashes
        /\ threads' = [threads EXCEPT ![v] = NewThread]
    BY DEF thread_reset, Idle, Crashes
  <1>2. Tallied(threads, v, << >>)
    BY <1>1, IdleTally
  <1>3. Tallied(threads', v, << >>)
    BY <1>1, <1>2, TalliedReset DEF Tids
  <1> QED BY <1>1, <1>3, NothingRuns

\* The first activation, of a function of machine v in thread t.
LEMMA FirstCounts ==
  ASSUME Inv, CountInv, frames = << >>, call.step \notin Crashes, NEW t \in Tids, NEW v \in VMs,
         NEW a \in Addresses, Owned(instances[v], a, "func"), Push(t, v, a),
         ~threads[t].trapped, threads[t].frame_depth <= FRAME_LIMIT,
         on' = v, instances' = instances, Tid' = t
  PROVE  CountInv'
  <1>1. PICK n : n = Room(v, a)
    OBVIOUS
  <1>2. n = EntAt(instances[v], a).room
    BY <1>1 DEF Room, Ent, EntAt, EntOf
  <1>3. Machine(instances[v])
    BY InvFacts
  <1>4. n \in Nat
    BY <1>2, <1>3, RoomFacts
  <1>5. Tallied(threads, t, << >>)
    BY IdleTally
  <1>6. threads' = [threads EXCEPT ![t].frame_depth = @ + 1, ![t].stack_size = @ + n]
    BY <1>1 DEF Push
  <1>7. Tallied(threads', t, Append(<< >>, n))
    BY <1>4, <1>5, <1>6, TalliedPush
  <1>8. Rooms(instances[v], Append(<< >>, a)) = Append(<< >>, n)
    <2>1. PICK e : e = << >>
      OBVIOUS
    <2>2. e \in Seq(Addresses) /\ \A k \in 1..Len(e) : Owned(instances[v], e[k], "func")
      BY <2>1
    <2>3. Rooms(instances[v], Append(e, a)) = Append(Rooms(instances[v], e), n)
      BY <1>2, <1>3, <2>2, RoomsAppended
    <2> QED BY <2>1, <2>3, NoRooms
  <1>9. Rooms(instances'[on'], frames') = Append(<< >>, n)
    BY <1>8 DEF Push
  <1> QED BY <1>7, <1>9 DEF CountInv

\* The host's call: stopped by the limits, or the first activation.
LEMMA HostCallCounts ==
  ASSUME Inv, CountInv, NEW v \in VMs, NEW name, NEW field, HostCall(v, name, field)
  PROVE  CountInv'
  <1>1. PICK p, x : /\ p = vm_find_module_inst(v, name)
                    /\ x = FindExport(instances[v][p].mod, "func", field)
    OBVIOUS
  <1>2. /\ frames = << >> /\ call.step \in {"ok", "err"} /\ p # 0 /\ x # 0
        /\ instances[v][p].state = "ready" /\ ~threads[v].trapped
        /\ call' = NoCall /\ instances' = instances
        /\ \/ /\ Exhausted(v)
              /\ threads' = [threads EXCEPT ![v].trapped = TRUE]
              /\ UNCHANGED <<frames, on>>
           \/ /\ ~Exhausted(v)
              /\ Push(v, v, instances[v][p].addrs[x]) /\ on' = v
    BY <1>1 DEF HostCall, Idle
  <1>3. CASE /\ threads' = [threads EXCEPT ![v].trapped = TRUE]
             /\ UNCHANGED <<frames, on>>
    <2>1. Tallied(threads, v, << >>)
      BY <1>2, IdleTally DEF Crashes
    <2>2. Tallied(threads', v, << >>)
      BY <1>3, <2>1, TalliedTrap
    <2> QED BY <1>2, <1>3, <2>2, NothingRuns
  <1>4. CASE ~Exhausted(v) /\ Push(v, v, instances[v][p].addrs[x]) /\ on' = v
    <2>1. PICK a : a = instances[v][p].addrs[x]
      OBVIOUS
    <2>2. a \in Addresses /\ Owned(instances[v], a, "func")
      BY <1>1, <1>2, <2>1, HostFunction
    <2>3. threads[v].frame_depth <= FRAME_LIMIT
      <3>1. Tallied(threads, v, << >>)
        BY <1>2, IdleTally DEF Crashes
      <3>2. threads[v].frame_depth \in Int
        BY <3>1 DEF Tallied, Tids, ThreadStates
      <3>3. ~(threads[v].frame_depth > FRAME_LIMIT)
        BY <1>4 DEF Exhausted
      <3> QED BY <3>2, <3>3, LimitAssumption
    <2>4. Tid' = v /\ v \in Tids /\ call.step \notin Crashes
      BY <1>2, <1>4, CallTypes DEF Tid, Tids, Crashes
    <2> QED BY <1>2, <1>4, <2>1, <2>2, <2>3, <2>4, FirstCounts
  <1> QED BY <1>2, <1>3, <1>4

\* The start function's thread is new, so that the limits do not stop it.
LEMMA CallStartCounts ==
  ASSUME Inv, CountInv, CallStart
  PROVE  CountInv'
  <1>1. PICK a : a = Inst.addrs[Desc[call.mod].start]
    OBVIOUS
  <1>2. /\ call.step = "start" /\ frames = << >> /\ Desc[call.mod].start # 0
        /\ Push("start", call.vm, a) /\ on' = call.vm /\ UNCHANGED <<instances, call>>
    BY <1>1 DEF CallStart, At
  <1>3. a \in Addresses /\ Owned(instances[call.vm], a, "func")
    BY <1>1, <1>2, StartFunction
  <1>4. call.vm \in VMs
    BY <1>2, StepFacts DEF Steps
  <1>5. "start" \in Tids /\ call.step \notin Crashes /\ Tid' = "start"
    BY <1>2 DEF Tids, Tid, Crashes
  <1>6. ~threads["start"].trapped /\ threads["start"].frame_depth <= FRAME_LIMIT
    <2>1. Tallied(threads, "start", << >>)
      BY <1>2, <1>5, IdleTally
    <2>2. ~threads["start"].trapped /\ Counts(threads["start"], << >>)
      BY <1>5, <2>1 DEF Tallied
    <2> QED BY <2>2, LimitAssumption DEF Counts
  <1> QED BY <1>2, <1>3, <1>4, <1>5, <1>6, FirstCounts

\* A trap, in a start function's thread or in the machine's.
LEMMA UnwindCounts ==
  ASSUME Inv, CountInv, Running, Unwind
  PROVE  CountInv'
  <1>1. PICK rs : rs = Rooms(instances[on], frames)
    OBVIOUS
  <1>2. Tallied(threads, Tid, rs) /\ on \in VMs /\ frames' = << >>
    BY <1>1, RunTally, RunFacts DEF Unwind
  <1>3. CASE call.step = "start"
    <2>1. threads' = [threads EXCEPT !["start"] = NewThread] /\ Tid = "start" /\ "start" \in Tids
      BY <1>3 DEF Unwind, Tid, Tids
    <2>2. Tallied(threads', "start", << >>)
      BY <1>2, <2>1, TalliedReset
    <2> QED BY <1>2, <2>2, NothingRuns
  <1>4. CASE call.step # "start"
    <2>1. threads' = [threads EXCEPT ![on].trapped = TRUE] /\ Tid = on
      BY <1>4 DEF Unwind, Tid
    <2>2. Tallied(threads', on, << >>)
      BY <1>2, <2>1, TalliedTrap
    <2> QED BY <1>2, <2>2, NothingRuns
  <1> QED BY <1>3, <1>4

\* A call, refused or entered.
LEMMA EnterCounts ==
  ASSUME Inv, CountInv, Running, NEW a \in Addresses, Owned(instances[on], a, "func"), Enter(a)
  PROVE  CountInv'
  <1>1. CASE Unwind
    BY <1>1, UnwindCounts
  <1>2. CASE ~Exhausted(Tid) /\ Push(Tid, on, a) /\ UNCHANGED <<on, instances, call>>
    <2>1. PICK n, t, rs : /\ n = Room(on, a) /\ t = Tid /\ rs = Rooms(instances[on], frames)
      OBVIOUS
    <2>2. /\ n = EntAt(instances[on], a).room /\ Machine(instances[on])
          /\ frames \in Seq(Addresses)
          /\ \A k \in 1..Len(frames) : Owned(instances[on], frames[k], "func")
      BY <2>1, RunFacts DEF Room, Ent, EntAt, EntOf
    <2>3. n \in Nat
      BY <2>2, RoomFacts
    <2>4. Tallied(threads, t, rs) /\ t \in Tids /\ ~threads[t].trapped
      BY <2>1, RunTally
    <2>5. threads[t].frame_depth <= FRAME_LIMIT
      <3>1. threads[t].frame_depth \in Int
        BY <2>4 DEF Tallied, ThreadStates
      <3>2. ~(threads[t].frame_depth > FRAME_LIMIT)
        BY <1>2, <2>1 DEF Exhausted
      <3> QED BY <3>1, <3>2, LimitAssumption
    <2>6. threads' = [threads EXCEPT ![t].frame_depth = @ + 1, ![t].stack_size = @ + n]
      BY <1>2, <2>1 DEF Push
    <2>7. Tallied(threads', t, Append(rs, n))
      BY <2>3, <2>4, <2>5, <2>6, TalliedPush
    <2>8. Rooms(instances[on], Append(frames, a)) = Append(rs, n)
      BY <2>1, <2>2, RoomsAppended
    <2>9. Rooms(instances'[on'], frames') = Append(rs, n) /\ Tid' = t
      BY <1>2, <2>1, <2>8 DEF Push, Tid
    <2> QED BY <2>7, <2>9 DEF CountInv
  <1> QED BY <1>1, <1>2 DEF Enter

\* Direct and indirect calls.
LEMMA CallsCounts ==
  ASSUME Inv, CountInv, CallDirect \/ CallIndirect
  PROVE  CountInv'
  <1>1. CASE CallDirect
    <2>1. Running
      BY <1>1 DEF CallDirect
    <2>2. PICK i \in Named("func") : Enter(Here.addrs[i])
      BY <1>1 DEF CallDirect
    <2> QED BY <2>1, <2>2, NamedFacts, EnterCounts
  <1>2. CASE CallIndirect
    <2>1. Running
      BY <1>2 DEF CallIndirect
    <2>2. PICK i \in Named("tab") : \E a \in Contents(i) \ {NULL, nullref} : Enter(a)
      BY <1>2 DEF CallIndirect
    <2>3. PICK a \in Contents(i) \ {NULL, nullref} : Enter(a)
      BY <2>2
    <2>4. a \in Addresses /\ Owned(instances[on], a, "func")
      BY <2>1, ContentFacts DEF Nothing
    <2> QED BY <2>1, <2>3, <2>4, EnterCounts
  <1> QED BY <1>1, <1>2

\* What else running code does leaves the threads and the modules of instances.
LEMMA StayCounts ==
  ASSUME Inv, CountInv, TableSet \/ TableGrow \/ MemoryGrow \/ SegmentDrop
  PROVE  CountInv'
  <1>1. Running /\ Stay
    BY DEF TableSet, TableGrow, MemoryGrow, SegmentDrop
  <1>2. Final
    BY RunFinal
  <1>3. /\ on \in VMs /\ on \in vms' /\ frames \in Seq(Addresses)
        /\ DOMAIN instances[on] = 1..Len(instances[on])
        /\ \A n \in 1..Len(frames) : Owned(instances[on], frames[n], "func")
    BY <1>1, RunFacts, MachineFacts
  <1>4. \A p \in 1..Len(instances[on]) : instances'[on][p].mod = instances[on][p].mod
    BY <1>2, <1>3 DEF Final
  <1>5. Rooms(instances'[on], frames) = Rooms(instances[on], frames)
    BY <1>3, <1>4, RoomsStay
  <1>6. threads' = threads /\ Tid' = Tid /\ frames' = frames /\ on' = on
    BY <1>1 DEF Stay, Tid
  <1> QED BY <1>1, <1>5, <1>6, RunTally DEF CountInv

\* The end of an activation counts it off, the last one's too.
LEMMA ReturnCounts ==
  ASSUME Inv, CountInv, Return
  PROVE  CountInv'
  <1>1. Running /\ frames' = SubSeq(frames, 1, Len(frames) - 1)
    BY DEF Return
  <1>2. PICK s, gs, a, t, n, l : /\ s = instances[on] /\ gs = SubSeq(frames, 1, Len(frames) - 1)
                                 /\ a = frames[Len(frames)] /\ t = Tid /\ n = Room(on, a)
                                 /\ l = Len(frames)
    OBVIOUS
  <1>3. /\ frames \in Seq(Addresses) /\ l \in Nat /\ l >= 1 /\ Machine(s) /\ on \in VMs
        /\ \A k \in 1..l : Owned(s, frames[k], "func")
    BY <1>1, <1>2, RunFacts
  <1>4. /\ gs \in Seq(Addresses) /\ Len(gs) = l - 1 /\ frames = Append(gs, a) /\ a \in Addresses
        /\ \A k \in 1..Len(gs) : gs[k] = frames[k] /\ k \in 1..l
    BY <1>2, <1>3
  <1>5. /\ \A k \in 1..Len(gs) : Owned(s, gs[k], "func")
        /\ Owned(s, a, "func")
    BY <1>2, <1>3, <1>4
  <1>6. n = EntAt(s, a).room /\ n \in Nat
    BY <1>2, <1>3, <1>5, RoomFacts DEF Room, Ent, EntAt, EntOf
  <1>7. PICK qs : qs = Rooms(s, gs)
    OBVIOUS
  <1>8. qs \in Seq(Nat)
    BY <1>3, <1>4, <1>5, <1>7, RoomsFacts
  <1>9. Rooms(s, frames) = Append(qs, n)
    BY <1>3, <1>4, <1>5, <1>6, <1>7, RoomsAppended
  <1>10. Tallied(threads, t, Append(qs, n)) /\ t \in Tids
    BY <1>1, <1>2, <1>9, RunTally
  <1>11. PICK th : th = [threads EXCEPT ![t].frame_depth = @ - 1, ![t].stack_size = @ - n]
    OBVIOUS
  <1>12. Tallied(th, t, qs)
    BY <1>8, <1>6, <1>10, <1>11, TalliedPop
  <1>13. CASE l > 1
    <2>1. threads' = Popped(Tid, a) /\ UNCHANGED <<on, instances, call>>
      BY <1>2, <1>13 DEF Return
    <2>2. threads' = th
      BY <1>2, <1>11, <2>1 DEF Popped
    <2>3. Rooms(instances'[on'], frames') = qs /\ Tid' = t
      BY <1>1, <1>2, <1>7, <2>1 DEF Tid
    <2> QED BY <1>12, <2>2, <2>3 DEF CountInv
  <1>14. CASE ~(l > 1)
    <2>1. l = 1
      BY <1>3, <1>14
    <2>2. gs = << >>
      BY <1>4, <2>1
    <2>3. frames' = << >>
      BY <1>1, <1>2, <2>2
    <2>4. CASE call.step = "start"
      <3>1. threads' = [threads EXCEPT !["start"] = NewThread] /\ t = "start"
        BY <1>2, <1>14, <2>4 DEF Return, Tid
      <3>2. Tallied(threads', t, << >>)
        BY <1>10, <3>1, TalliedReset
      <3> QED BY <2>3, <3>2, NothingRuns
    <2>5. CASE call.step # "start"
      <3>1. threads' = [Popped(on, a) EXCEPT ![on].results = a] /\ t = on
        BY <1>2, <1>14, <2>5 DEF Return, Tid
      <3>2. Popped(on, a) = th
        BY <1>2, <1>11, <3>1 DEF Popped
      <3>3. threads' = [th EXCEPT ![t].results = a]
        BY <3>1, <3>2
      <3>4. qs = << >>
        BY <1>7, <2>2, NoRooms
      <3>5. Tallied(threads', t, << >>)
        BY <1>4, <1>10, <1>12, <3>3, <3>4, TalliedResults
      <3> QED BY <2>3, <3>5, NothingRuns
    <2> QED BY <2>4, <2>5
  <1> QED BY <1>13, <1>14

\* Every step keeps the counts.
LEMMA NextCounts ==
  ASSUME Inv, CountInv, [Next]_allvars
  PROVE  CountInv'
  <1>1. CASE HostRegister \/ HostVm \/ HostConstruct
    BY <1>1, HostCounts
  <1>2. CASE \E v \in VMs : thread_reset(v)
    BY <1>2, ResetCounts
  <1>3. CASE \E v \in VMs, n \in Names, field \in Fields : HostCall(v, n, field)
    BY <1>3, HostCallCounts
  <1>4. CASE CallStart
    BY <1>4, CallStartCounts
  <1>5. CASE CallDirect \/ CallIndirect
    BY <1>5, CallsCounts
  <1>6. CASE TableSet \/ TableGrow \/ MemoryGrow \/ SegmentDrop
    BY <1>6, StayCounts
  <1>7. CASE UseNull \/ CallBadRef \/ UseNoMemory
    <2>1. PICK how \in Crashes : call' = [call EXCEPT !.step = how]
      BY <1>7 DEF UseNull, CallBadRef, UseNoMemory, Crash, Crashes
    <2>2. call'.step \in Crashes
      BY <2>1, InvFacts DEF Calls
    <2> QED BY <2>2 DEF CountInv
  <1>8. CASE Trap
    BY <1>8, UnwindCounts DEF Trap
  <1>9. CASE Return
    BY <1>9, ReturnCounts
  <1>10. CASE UNCHANGED allvars
    <2>1. UNCHANGED <<call, threads, instances, on, frames>>
      BY <1>10 DEF allvars, rtvars, thvars
    <2> QED BY <2>1 DEF CountInv, Tid
  <1> QED BY <1>1, <1>2, <1>3, <1>4, <1>5, <1>6, <1>7, <1>8, <1>9, <1>10 DEF Next, Crashed

\* What a thread counts is exact: in all runs, a thread that has not trapped has
\* counted the activations on it and their room and no others, and none has
\* counted more than one activation beyond the limit.
THEOREM CountersExact == Spec => []CountsExact
  <1>1. Init => CountInv
    <2> SUFFICES ASSUME Init PROVE CountInv
      OBVIOUS
    <2>1. threads = [t \in Tids |-> NewThread] /\ frames = << >> /\ "start" \in Tids
      BY DEF Init, Tids
    <2>2. NULL \in Addresses
      BY DEF NULL, Addresses
    <2>3. /\ NewThread \in ThreadStates /\ ~NewThread.trapped
          /\ NewThread.frame_depth = 0 /\ NewThread.stack_size = 0
      BY <2>2 DEF NewThread, ThreadStates
    <2>4. Counts(NewThread, << >>)
      BY <2>3, TotalEmpty DEF Counts
    <2>5. Tallied(threads, Tid, << >>)
      BY <2>1, <2>3, <2>4, LimitAssumption DEF Tallied
    <2> QED BY <2>1, <2>5, NoRooms DEF CountInv
  <1>2. Inv /\ CountInv /\ [Next]_allvars => CountInv'
    BY NextCounts
  <1>3. Inv /\ CountInv => CountsExact
    <2> SUFFICES ASSUME Inv, CountInv, call.step \notin Crashes, NEW t \in DOMAIN threads
                 PROVE  /\ ~threads[t].trapped =>
                             LET fs == IF OnThread(t) THEN frames ELSE << >>
                             IN  /\ threads[t].frame_depth = Len(fs)
                                 /\ threads[t].stack_size =
                                      Total([i \in DOMAIN fs |-> Room(on, fs[i])])
                        /\ OnThread(t) => ~threads[t].trapped
                        /\ threads[t].frame_depth <= FRAME_LIMIT + 1
      BY DEF CountsExact
    <2> DEFINE fs == IF OnThread(t) THEN frames ELSE << >>
               rs == Rooms(instances[on], frames)
    <2>1. [i \in DOMAIN fs |-> Room(on, fs[i])] = Rooms(instances[on], fs)
      BY DEF Rooms, Room, Ent, EntAt, EntOf
    <2>2. Tallied(threads, Tid, rs) /\ DOMAIN threads = Tids
      BY DEF CountInv, Tallied
    <2>3. frames = << >> \/ (Len(rs) = Len(frames) /\ Len(frames) >= 1)
      <3> SUFFICES ASSUME frames # << >> PROVE Len(rs) = Len(frames) /\ Len(frames) >= 1
        OBVIOUS
      <3>1. /\ frames \in Seq(Addresses) /\ on \in VMs
            /\ \A n \in 1..Len(frames) : Owned(instances[on], frames[n], "func")
        BY InvFacts DEF Activations
      <3>2. Machine(instances[on])
        BY <3>1, InvFacts
      <3> QED BY <3>1, <3>2, RoomsFacts
    <2>4. frames = << >> => rs = << >>
      BY NoRooms
    <2>5. Rooms(instances[on], fs) = (IF t = Tid THEN rs ELSE << >>)
      BY <2>4, NoRooms DEF OnThread
    <2>6. Len(Rooms(instances[on], fs)) = Len(fs)
      BY <2>3, <2>4, <2>5, NoRooms DEF OnThread
    <2>7. OnThread(t) => rs # << >> /\ t = Tid
      BY <2>3 DEF OnThread
    <2>8. ~threads[t].trapped => Counts(threads[t], Rooms(instances[on], fs))
      BY <2>2, <2>5 DEF Tallied
    <2>9. OnThread(t) => ~threads[t].trapped
      BY <2>2, <2>7 DEF Tallied
    <2>10. threads[t].frame_depth <= FRAME_LIMIT + 1
      BY <2>2 DEF Tallied
    <2> QED BY <2>1, <2>6, <2>8, <2>9, <2>10 DEF Counts
  <1> QED BY <1>1, <1>2, <1>3, InvAlways, PTL DEF Spec
=============================================================================
