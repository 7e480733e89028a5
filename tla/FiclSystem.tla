----------------------------- MODULE FiclSystem ----------------------------
(***************************************************************************)
(* Systems, their lists of virtual machines and the host's output          *)
(* (system.c, callback.c), and virtual machines of one system that run in  *)
(* threads of their own on its one dictionary, in a build that has         *)
(* ficlDictionaryLock (dictionary.c, search.c).                            *)
(*                                                                         *)
(* A step of a virtual machine is what it does between two accesses to the *)
(* dictionary that another thread can come between.                        *)
(***************************************************************************)
EXTENDS Integers, Sequences, Functions

CONSTANTS
    Systems,        \* addresses of systems
    VMs,            \* addresses of virtual machines
    Channels,       \* output functions a host may give a system
    Lists,          \* wordlists
    None,           \* NULL
    Threaded,       \* bound: the systems whose VMs run programs
    MaxLists,       \* bound on the search order
    MaxCells,       \* bound on the cells of a dictionary
    MaxNested,      \* bound on the count of a lock
    Obligations     \* the rules of use the host and the program keep

(***************************************************************************)
(* What the code leaves to the host and the program.                       *)
(*   lookup_with_locals  where VMs share a dictionary, words are looked up *)
(*                       only while compiling a definition with locals     *)
(*   order_fits          one VM at a time changes the search order, SEARCH>*)
(*                       where it has a list, >SEARCH where it has room    *)
(*   order_still         the search order changes only while no other VM   *)
(*                       reads it                                          *)
(*   one_session         while a VM compiles a definition no other one     *)
(*                       adds to the dictionary                            *)
(*   idle_destroyed      a VM that is destroyed, with its system or alone, *)
(*                       is not running                                    *)
(*   first_system_last   no system is there after the first is destroyed   *)
(***************************************************************************)
AllObligations == {"lookup_with_locals", "order_fits", "order_still", "one_session",
                   "idle_destroyed", "first_system_last"}

Keeps(rule) == rule \in Obligations

ASSUME BoundsAssumption ==
    MaxLists \in Nat /\ MaxCells \in Nat /\ MaxNested \in Nat /\ Threaded \subseteq Systems
ASSUME NoneAssumption        == None \notin Systems \cup VMs \cup Channels \cup Lists
ASSUME AddressAssumption     == Systems \cap VMs = {}
ASSUME ObligationsAssumption == Obligations \subseteq AllObligations

VARIABLES
    status,     \* of each system: "none", "live" or "freed"
    global,     \* ficlSystemGlobal
    textOut,    \* callback.textOut of each system and VM
    vmList,     \* the VMs of each system, the newest first
    lock,       \* of each dictionary: who holds it, and how many times
    dict,       \* of each dictionary: its cells, smudge, and search order
    pc          \* of each VM: what it is doing

vars       == <<status, global, textOut, vmList, lock, dict, pc>>
systemVars == <<status, global, textOut, vmList>>

Free       == [owner |-> None, count |-> 0]
Resting(f) == [at |-> "idle", op |-> "none", saw |-> 0, nested |-> FALSE, from |-> f]
Idle       == Resting(0)
EmptyDict  == [cells |-> << >>, smudge |-> 0, smudged |-> FALSE,
               lists |-> [i \in 1..MaxLists |-> None], count |-> 0]

SystemOf(v) == CHOOSE s \in Systems : v \in Range(vmList[s])
Linked(v)   == \E s \in Systems : v \in Range(vmList[s])
Open(v)     == pc[v].from # 0
Quiet(v)    == pc[v] = Idle /\ \A s \in Systems : lock[s].owner # v

-----------------------------------------------------------------------------
(* The life of systems and virtual machines.                                 *)

Init ==
    /\ status = [s \in Systems |-> "none"] /\ global = None
    /\ textOut = [x \in Systems \cup VMs |-> None]
    /\ vmList = [s \in Systems |-> << >>]
    /\ lock = [s \in Systems |-> Free] /\ dict = [s \in Systems |-> EmptyDict]
    /\ pc = [v \in VMs |-> Idle]

(* The VM that compiles the softcore is gone when the call returns.          *)
SystemCreate(s) ==
    /\ Keeps("first_system_last") /\ global # None => status[global] = "live"
    /\ status[s] = "none" /\ status' = [status EXCEPT ![s] = "live"]
    /\ \E c \in Channels \cup {None} : textOut' = [textOut EXCEPT ![s] = c]
    /\ global' = IF global = None THEN s ELSE global
    /\ UNCHANGED <<vmList, lock, dict, pc>>

(* Faulty: only the newest VM is destroyed.                                  *)
ButNewest(list) == IF list = << >> THEN list ELSE Tail(list)

AllDestroyed(list) == << >>

(* The pointer is set to NULL before it is compared with ficlSystemGlobal,   *)
(* which therefore stays as it is.                                           *)
SystemDestroy(s) ==
    /\ status[s] = "live"
    /\ Keeps("idle_destroyed") => \A v \in Range(vmList[s]) : Quiet(v)
    /\ Keeps("first_system_last") /\ global = s => \A t \in Systems \ {s} : status[t] # "live"
    /\ status' = [status EXCEPT ![s] = "freed"]
    /\ textOut' = [x \in Systems \cup VMs |-> IF x = s \/ x \in Range(vmList[s]) THEN None ELSE textOut[x]]
    /\ vmList' = [vmList EXCEPT ![s] = AllDestroyed(@)]
    /\ lock' = [lock EXCEPT ![s] = Free] /\ dict' = [dict EXCEPT ![s] = EmptyDict]
    /\ pc' = [v \in VMs |-> IF v \in Range(vmList[s]) THEN Idle ELSE pc[v]]
    /\ UNCHANGED global

(* The VM gets a copy of the callbacks of its system.                        *)
SystemCreateVm(s) ==
    /\ status[s] = "live"
    /\ Keeps("lookup_with_locals") =>
          lock[s].owner = None /\ \A w \in Range(vmList[s]) : pc[w].op # "lookup"
    /\ \E v \in VMs :
          /\ ~Linked(v)
          /\ vmList' = [vmList EXCEPT ![s] = <<v>> \o @]
          /\ textOut' = [textOut EXCEPT ![v] = textOut[s]]
    /\ UNCHANGED <<status, global, lock, dict, pc>>

Unlinked(list, v) ==
    LET k == CHOOSE k \in DOMAIN list : list[k] = v
    IN  [i \in 1..(Len(list) - 1) |-> IF i < k THEN list[i] ELSE list[i + 1]]

SystemDestroyVm(v) ==
    /\ Linked(v) /\ (Keeps("idle_destroyed") => Quiet(v) /\ ~Open(v))
    /\ vmList' = [vmList EXCEPT ![SystemOf(v)] = Unlinked(@, v)]
    /\ textOut' = [textOut EXCEPT ![v] = None]
    /\ pc' = [pc EXCEPT ![v] = Idle]
    /\ UNCHANGED <<status, global, lock, dict>>

(* Which callback's function gets the text of a VM: its own, its system's,   *)
(* that of the global system; then the default.                              *)
TextOut(v) ==
    IF textOut[v] # None THEN v
    ELSE IF textOut[SystemOf(v)] # None THEN SystemOf(v)
    ELSE global

-----------------------------------------------------------------------------
(* The lock of a dictionary counts nested calls of its owner.                *)

(* Faulty: the lock lets everybody in.                                       *)
Unguarded(s, v) == TRUE

Available(s, v) == lock[s].owner \in {None, v}
Take(s, v) == lock' = [lock EXCEPT ![s] = [owner |-> v, count |-> @.count + 1]]

(* Faulty: the first release gives up nested ones too.                       *)
ReleaseAll(s) == lock' = [lock EXCEPT ![s] = Free]

Released(l) == IF l.count = 1 THEN Free ELSE [owner |-> l.owner, count |-> l.count - 1]
Release(s)  == lock' = [lock EXCEPT ![s] = Released(@)]

(* The operations that lock, and those that change the search order.         *)
OrderOps   == {"set-order", "search>", ">search"}
AddingOps  == {"word", "build", ":"}
LockedOps  == OrderOps \cup AddingOps \cup {"abort", "lookup", "lookup local", "get-order"}

Others(v) == Range(vmList[SystemOf(v)]) \ {v}

Alone(v, op) ==
    /\ op = "lookup" => /\ Keeps("lookup_with_locals") => Others(v) = {}
                        /\ lock[SystemOf(v)].count <= MaxNested - 4
    /\ Keeps("order_still") =>
          /\ op \in OrderOps => \A w \in Others(v) : pc[w].op # "get-order"
          /\ op = "get-order" => \A w \in Others(v) : pc[w].op \notin OrderOps
    /\ Keeps("one_session") /\ op \in AddingOps =>
          \A w \in Others(v) : ~Open(w) /\ pc[w].op \notin (IF op = ":" THEN AddingOps ELSE {":"})
    /\ Keeps("order_fits") /\ op \in OrderOps =>
          /\ \A w \in Others(v) : pc[w].op \notin OrderOps
          /\ op = "search>" => dict[SystemOf(v)].count > 0
          /\ op = ">search" => dict[SystemOf(v)].count < MaxLists

At(v, where) == Linked(v) /\ pc[v].at = where
Moves(v, p)  == pc' = [pc EXCEPT ![v] = p]
Stays        == UNCHANGED systemVars

ListsCounted(d) == d.count

(* A VM with an open definition adds cells to it until it is done.           *)
Begin(v) ==
    /\ At(v, "idle") /\ SystemOf(v) \in Threaded
    /\ \E op \in LockedOps :
          /\ Alone(v, op)
          /\ Open(v) => op \in {"abort", "lookup local"}
          /\ op \in {"abort", "lookup local"} => Open(v)
          /\ Moves(v, [pc[v] EXCEPT !.at = "wait", !.op = op,
                          !.saw = IF op = "get-order" THEN ListsCounted(dict[SystemOf(v)]) ELSE 0])
    /\ UNCHANGED <<lock, dict>> /\ Stays

Enter(v) ==
    /\ At(v, "wait") /\ Available(SystemOf(v), v) /\ Take(SystemOf(v), v)
    /\ Moves(v, [pc[v] EXCEPT !.at = "inside"])
    /\ UNCHANGED dict /\ Stays

Ends(v) == Moves(v, Resting(pc[v].from))
Leaves(v) == Ends(v) /\ Release(SystemOf(v))
Inside(v, op) == At(v, "inside") /\ pc[v].op = op
Stores(v, d) == dict' = [dict EXCEPT ![SystemOf(v)] = d]
Dict(v) == dict[SystemOf(v)]
HereOf(v) == Len(Dict(v).cells) + 1

(* ficlBuild locks around ficlDictionaryAppendWord, which locks again.       *)
Build(v) ==
    /\ Inside(v, "build") /\ Take(SystemOf(v), v)
    /\ Moves(v, [pc[v] EXCEPT !.op = "word", !.nested = TRUE])
    /\ UNCHANGED dict /\ Stays

(* here is read, and the cell is stored there and here moved past it later.  *)
ReadHere(v) ==
    /\ \/ Inside(v, "word") \/ Inside(v, ":")
       \/ At(v, "idle") /\ Open(v) /\ HereOf(v) <= MaxCells
    /\ Moves(v, [pc[v] EXCEPT !.at = IF @ = "idle" THEN "cell" ELSE "header", !.saw = HereOf(v)])
    /\ UNCHANGED <<lock, dict>> /\ Stays

Written(v) == SubSeq(Dict(v).cells, 1, pc[v].saw - 1) \o <<v>>

AppendCell(v) ==
    /\ At(v, "cell") /\ Stores(v, [Dict(v) EXCEPT !.cells = Written(v)])
    /\ Ends(v)
    /\ UNCHANGED lock /\ Stays

(* A word of : stays open; any other is unsmudged before the lock is left.   *)
AppendWord(v) ==
    /\ At(v, "header") /\ pc[v].saw <= MaxCells
    /\ Stores(v, [Dict(v) EXCEPT !.cells = Written(v), !.smudge = pc[v].saw,
                                 !.smudged = (pc[v].op = ":")])
    /\ Moves(v, IF pc[v].nested THEN [pc[v] EXCEPT !.at = "built"]
                ELSE Resting(IF pc[v].op = ":" THEN pc[v].saw ELSE 0))
    /\ Release(SystemOf(v)) /\ Stays

Built(v) == At(v, "built") /\ Leaves(v) /\ UNCHANGED dict /\ Stays

(* A dictionary that is full is the host's to notice.                        *)
NoRoom(v) == At(v, "header") /\ pc[v].saw > MaxCells /\ UNCHANGED dict /\ Stays
             /\ (IF pc[v].nested THEN Moves(v, [pc[v] EXCEPT !.at = "built"]) ELSE Ends(v))
             /\ Release(SystemOf(v))

(* ; unsmudges the last word of the dictionary, without the lock.            *)
Semicolon(v) ==
    /\ At(v, "idle") /\ Open(v)
    /\ Stores(v, [Dict(v) EXCEPT !.smudged = FALSE])
    /\ Moves(v, Idle)
    /\ UNCHANGED lock /\ Stays

(* here goes back to where the last word starts, if it is open.              *)
AbortDefinition(v) ==
    /\ Inside(v, "abort")
    /\ Stores(v, IF Dict(v).smudged THEN [Dict(v) EXCEPT !.cells = SubSeq(@, 1, Dict(v).smudge - 1)]
                 ELSE Dict(v))
    /\ Moves(v, Idle) /\ Release(SystemOf(v)) /\ Stays

(* ficlDictionaryLookup locks where it should unlock.                        *)
Lookup(v) ==
    /\ Inside(v, "lookup") /\ Take(SystemOf(v), v)
    /\ Ends(v) /\ UNCHANGED dict /\ Stays

(* Faulty: so does ficlSystemLookupLocal.                                    *)
LookupLocalLocking(v) ==
    Inside(v, "lookup local") /\ Take(SystemOf(v), v) /\ Ends(v) /\ UNCHANGED dict /\ Stays

LookupLocal(v) == Inside(v, "lookup local") /\ Leaves(v) /\ UNCHANGED dict /\ Stays

(* The number of lists was read before the lock was taken.                   *)
OrderRead(v) == SubSeq(Dict(v).lists, 1, pc[v].saw)
GetOrder(v) == Inside(v, "get-order") /\ Leaves(v) /\ UNCHANGED dict /\ Stays

SetOrder(v) ==
    /\ Inside(v, "set-order")
    /\ \E n \in 0..MaxLists : \E new \in [1..n -> Lists] :
          Stores(v, [Dict(v) EXCEPT !.lists = [i \in 1..MaxLists |-> IF i <= n THEN new[i] ELSE @[i]],
                                    !.count = n])
    /\ Leaves(v) /\ Stays

(* An empty search order throws, and the lock is kept.                       *)
SearchPop(v) ==
    /\ Inside(v, "search>")
    /\ IF Dict(v).count = 0 THEN Ends(v) /\ UNCHANGED <<dict, lock>>
       ELSE Stores(v, [Dict(v) EXCEPT !.count = @ - 1]) /\ Leaves(v)
    /\ Stays

(* So does a search order that is full (that one more list fits it than it   *)
(* has room for is FiclDictionary's).                                        *)
SearchPush(v) ==
    /\ Inside(v, ">search")
    /\ IF Dict(v).count = MaxLists THEN Ends(v) /\ UNCHANGED <<dict, lock>>
       ELSE /\ \E w \in Lists : Stores(v, [Dict(v) EXCEPT !.count = @ + 1, !.lists[Dict(v).count + 1] = w])
            /\ Leaves(v)
    /\ Stays

Finish(v) ==
    \/ Build(v) \/ AppendCell(v) \/ AppendWord(v) \/ Built(v) \/ NoRoom(v)
    \/ (At(v, "inside") /\ ReadHere(v))
    \/ AbortDefinition(v) \/ Lookup(v) \/ LookupLocal(v)
    \/ GetOrder(v) \/ SetOrder(v) \/ SearchPop(v) \/ SearchPush(v)

Next ==
    \/ \E s \in Systems : SystemCreate(s) \/ SystemDestroy(s) \/ SystemCreateVm(s)
    \/ \E v \in VMs :
          \/ SystemDestroyVm(v)
          \/ Begin(v) \/ Enter(v) \/ Semicolon(v) \/ Finish(v)
          \/ (At(v, "idle") /\ ReadHere(v))

Spec == Init /\ [][Next]_vars

(* A thread that is inside an operation goes on with it, and the lock of the *)
(* platform lets everybody who waits for it in at some time.                 *)
FairSpec == Spec /\ \A v \in VMs : WF_vars(Finish(v)) /\ SF_vars(Enter(v))

-----------------------------------------------------------------------------
(* Properties.                                                               *)

Levels(v) == CASE pc[v].at \in {"idle", "wait", "cell"} -> 0
               [] pc[v].at = "header" /\ pc[v].nested -> 2
               [] pc[v].at = "inside" /\ pc[v].nested -> 2
               [] OTHER -> 1

(* A VM that shares a dictionary holds its lock exactly as often as the      *)
(* operations it is in took it: a nested release does not let another VM in  *)
(* early, and an operation that is over, or failed, leaves nothing locked.   *)
LockMatches ==
    \A s \in Systems : \A v \in Range(vmList[s]) : Others(v) # {} =>
        (IF lock[s].owner = v THEN lock[s].count ELSE 0) = Levels(v)

(* What a VM adds to the dictionary is where it thinks it is.  A word is     *)
(* stored where here still points, whichever VMs add words; and a definition *)
(* that is open is the last one, smudged, with nobody else's cells in it,    *)
(* when ; comes to unsmudge it.                                              *)
DefinitionsWhole ==
    \A v \in VMs :
        /\ pc[v].at \in {"header", "cell"} => pc[v].saw = HereOf(v)
        /\ Linked(v) /\ At(v, "idle") /\ Open(v) =>
              /\ Dict(v).smudged /\ Dict(v).smudge = pc[v].from
              /\ \A a \in pc[v].from..Len(Dict(v).cells) : Dict(v).cells[a] = v

(* GET-ORDER gives the search order there is while it holds the lock, though *)
(* it counted the lists before.                                              *)
OrderReadReal ==
    \A v \in VMs : Inside(v, "get-order") => OrderRead(v) = SubSeq(Dict(v).lists, 1, Dict(v).count)

(* What a VM knows of the dictionary it shares still holds when it acts on   *)
(* it: where here is, which definition is open, how long the order is.       *)
DictionaryShared == DefinitionsWhole /\ OrderReadReal

(* Every VM that exists is in the list of one system, once, and one that is  *)
(* in none has been destroyed: destroying one VM, or the system of others,   *)
(* neither leaks a VM nor keeps one that is gone.                            *)
VmListsExact ==
    /\ \A s \in Systems :
          /\ IsInjective(vmList[s])
          /\ vmList[s] # << >> => status[s] = "live"
          /\ \A t \in Systems \ {s} : Range(vmList[s]) \cap Range(vmList[t]) = {}
    /\ \A v \in VMs : ~Linked(v) => textOut[v] = None /\ pc[v] = Idle

(* The text of a VM never goes through the callback of a system that was     *)
(* destroyed.                                                                *)
OutputLive == \A v \in VMs : Linked(v) /\ TextOut(v) \in Systems => status[TextOut(v)] = "live"

(* Nothing that lives points to what is gone, in the lists of VMs or on the  *)
(* way of the output.                                                        *)
NothingOutlives == VmListsExact /\ OutputLive

(* A VM that waits for the dictionary gets it.                               *)
EveryoneGetsIn == \A v \in VMs : pc[v].at = "wait" ~> pc[v].at # "wait"
=============================================================================
