------------------------------- MODULE HzdPtr -------------------------------
(***************************************************************************)
(* The hazard pointers of include/mem/zm_hzdptr.h.  Every thread has a     *)
(* list node with two slots, in which it publishes the objects it is about *)
(* to access, and a private list of the objects it retired; when that list *)
(* is as long as ScanFactor times the number of nodes, a scan reads all    *)
(* the slots, one after the other, and lets go of the retired objects it   *)
(* did not find there.                                                     *)
(*                                                                         *)
(* The active flag of a node is set before the node is published and       *)
(* cleared by nobody but zm_hzdptr_helpscan, which only clears a flag that *)
(* it found clear: it never is.  So zm_hzdptr_allocate takes over no node  *)
(* and zm_hzdptr_helpscan, the end of a scan, finds nothing to do; neither *)
(* appears here.  The lists of a thread are sets: an object is retired     *)
(* once, which is for the users of this module to show.                    *)
(***************************************************************************)
EXTENDS Integers, Sequences, FiniteSets

CONSTANTS
  Threads, NULL,
  Nodes,        \* the objects that are protected and retired
  ScanFactor    \* 2 in the code

ASSUME HzdPtrAssumption == NULL \notin Nodes /\ ScanFactor \in Nat \ {0}

VARIABLES
  hplist,     \* zm_hzdptr_list: the threads whose nodes are published
  hplength,   \* zm_hplist_length
  hp,         \* the slots of each thread's node
  rlist,      \* the objects each thread retired
  hpc,        \* each thread's place in zm_hzdptr_allocate or _scan
  plist, todo,  \* locals of zm_hzdptr_scan: the pointers found and the
                \* slots still to be read
  reclaimed   \* history: the objects that a scan has let go of

hpVars == <<hplist, hplength, hp, rlist, hpc, plist, todo, reclaimed>>

Slots == {0, 1}  \* ZM_HZDPTR_NUM

(* The threads of registered have their node already.                      *)
HPInitWith(registered) ==
  /\ hplist = registered
  /\ hplength = Len(registered)
  /\ hp = [t \in Threads |-> [i \in Slots |-> NULL]]
  /\ rlist = [t \in Threads |-> {}]
  /\ hpc = [t \in Threads |->
              IF \E k \in 1..Len(registered) : registered[k] = t THEN "ready" ELSE "null"]
  /\ plist = [t \in Threads |-> {}]
  /\ todo = [t \in Threads |-> << >>]
  /\ reclaimed = {}

HPInit == HPInitWith(<< >>)

HPGoto(t, label) == hpc' = [hpc EXCEPT ![t] = label]

(* zm_hzdptr_allocate, called by zm_hzdptr_get while zm_my_hplnode is NULL: *)
(* first the length...                                                      *)
AllocLength(t) ==
  /\ hpc[t] = "null"
  /\ hplength' = hplength + 1
  /\ HPGoto(t, "push")
  /\ UNCHANGED <<hplist, hp, rlist, plist, todo, reclaimed>>

(* ...then the node becomes the head of the list, with whatever malloc     *)
(* left in its slots...                                                    *)
AllocPush(t) ==
  /\ hpc[t] = "push"
  /\ hplist' = << t >> \o hplist
  /\ \E garbage \in [Slots -> Nodes \cup {NULL}] : hp' = [hp EXCEPT ![t] = garbage]
  /\ HPGoto(t, "init")
  /\ UNCHANGED <<hplength, rlist, plist, todo, reclaimed>>

(* ...and then it is initialised. *)
AllocInit(t) ==
  /\ hpc[t] = "init"
  /\ hp' = [hp EXCEPT ![t] = [i \in Slots |-> NULL]]
  /\ rlist' = [rlist EXCEPT ![t] = {}]
  /\ HPGoto(t, "ready")
  /\ UNCHANGED <<hplist, hplength, plist, todo, reclaimed>>

Allocate(t) == AllocLength(t) \/ AllocPush(t) \/ AllocInit(t)

(* hzdptrs[i] = n *)
Publish(t, i, n) ==
  /\ hp' = [hp EXCEPT ![t][i] = n]
  /\ UNCHANGED <<hplist, hplength, rlist, hpc, plist, todo, reclaimed>>

(* The slots in the order of the list, which grows at its head only: those *)
(* that a scan which starts now will read.                                 *)
SlotOrder ==
  [k \in 1 .. 2 * Len(hplist) |-> <<hplist[(k + 1) \div 2], (k + 1) % 2>>]

(* zm_hzdptr_retire *)
Retire(t, n) ==
  /\ hpc[t] = "ready"
  /\ rlist' = [rlist EXCEPT ![t] = @ \cup {n}]
  /\ \/ /\ Cardinality(rlist'[t]) >= ScanFactor * hplength
        /\ HPGoto(t, "scan")
        /\ todo' = [todo EXCEPT ![t] = SlotOrder]
     \/ /\ Cardinality(rlist'[t]) < ScanFactor * hplength
        /\ UNCHANGED <<hpc, todo>>
  /\ UNCHANGED <<hplist, hplength, hp, plist, reclaimed>>

(* Stage 1 of zm_hzdptr_scan: the next slot. *)
ScanRead(t) ==
  /\ hpc[t] = "scan"
  /\ todo[t] # << >>
  /\ LET slot == Head(todo[t])
     IN  plist' = [plist EXCEPT ![t] = @ \cup ({hp[slot[1]][slot[2]]} \ {NULL})]
  /\ todo' = [todo EXCEPT ![t] = Tail(@)]
  /\ UNCHANGED <<hplist, hplength, hp, rlist, hpc, reclaimed>>

(* Stage 2: what was not found leaves the retired list.  zm_sdlist_rmnode  *)
(* frees the list's node, and nobody frees the object.                     *)
ScanRemove(t) ==
  /\ hpc[t] = "scan"
  /\ todo[t] = << >>
  /\ rlist' = [rlist EXCEPT ![t] = @ \cap plist[t]]
  /\ reclaimed' = reclaimed \cup (rlist[t] \ plist[t])
  /\ plist' = [plist EXCEPT ![t] = {}]
  /\ HPGoto(t, "ready")
  /\ UNCHANGED <<hplist, hplength, hp, todo>>

Scan(t) == ScanRead(t) \/ ScanRemove(t)
-----------------------------------------------------------------------------
HPTypeOK ==
  /\ hplist \in Seq(Threads)
  /\ hplength \in Nat
  /\ hp \in [Threads -> [Slots -> Nodes \cup {NULL}]]
  /\ rlist \in [Threads -> SUBSET Nodes]
  /\ hpc \in [Threads -> {"null", "push", "init", "ready", "scan"}]
  /\ plist \in [Threads -> SUBSET Nodes]
  /\ todo \in [Threads -> Seq(Threads \X Slots)]
  /\ reclaimed \subseteq Nodes
=============================================================================
