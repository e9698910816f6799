------------------------------- MODULE SDList -------------------------------
(***************************************************************************)
(* The doubly linked list of include/list/zm_sdlist.h, in the hands of its *)
(* client: a thread that retires objects, and the second stage of its      *)
(* zm_hzdptr_scan, which goes over one list while it removes nodes from    *)
(* two.  Data are the objects; an object is retired once, but may be found *)
(* in any number of hazard pointers, so that plist may have it repeatedly. *)
(* The lists are private to a thread: a call is a step, but the loop of    *)
(* zm_sdlist_remove and that of the scan are taken apart.                  *)
(*                                                                         *)
(* line, before and pulled are history variables: the nodes of each list   *)
(* in their order, and what was retired and found when the scan went to    *)
(* its second stage.  This list is proved about only (MSQueueProofs).       *)
(***************************************************************************)
EXTENDS Integers, SequencesExt

CONSTANTS Nodes, Data

NULL == CHOOSE v : v \notin Nodes \cup Data

VARIABLES
  head, tail, length,  \* zm_sdlist_t, of either list
  next, prev, data,    \* zm_sdlnode_t
  alive,               \* the nodes that malloc has handed out
  pc,
  node, nxt, cur,      \* node and next of zm_hzdptr_scan, node of zm_sdlist_remove
  line, before, pulled

lists == <<head, tail, length, next, prev, data, alive, line>>
vars == <<lists, pc, node, nxt, cur, before, pulled>>

Lists == {"rlist", "plist"}

(* zm_sdlist_init of rlist; plist is initialised by each scan.             *)
Init ==
  /\ head = [l \in Lists |-> NULL] /\ tail = [l \in Lists |-> NULL]
  /\ length = [l \in Lists |-> 0]
  /\ next = [n \in Nodes |-> NULL] /\ prev = [n \in Nodes |-> NULL]
  /\ data = [n \in Nodes |-> NULL]
  /\ alive = {}
  /\ pc = "idle"
  /\ node = NULL /\ nxt = NULL /\ cur = NULL
  /\ line = [l \in Lists |-> << >>]
  /\ before = {} /\ pulled = {}

Goto(from, to) == pc = from /\ pc' = to

(* A list without one of its nodes.                                        *)
Without(s, n) == RemoveAt(s, CHOOSE i \in 1..Len(s) : s[i] = n)

DataOf(l) == {data[line[l][i]] : i \in 1..Len(line[l])}
-----------------------------------------------------------------------------
(* zm_sdlist_push_back *)
PushBack(l, d) ==
  \E n \in Nodes \ alive :
    /\ alive' = alive \cup {n}
    /\ data' = [data EXCEPT ![n] = d]
    /\ next' = [m \in Nodes |-> IF m = n THEN NULL
                                ELSE IF m = tail[l] THEN n ELSE next[m]]
    /\ prev' = [prev EXCEPT ![n] = tail[l]]
    /\ head' = [head EXCEPT ![l] = IF tail[l] = NULL THEN n ELSE @]
    /\ tail' = [tail EXCEPT ![l] = n]
    /\ length' = [length EXCEPT ![l] = @ + 1]
    /\ line' = [line EXCEPT ![l] = Append(@, n)]

(* zm_sdlist_rmnode, which frees the node and not its data *)
RmNode(l, n) ==
  /\ head' = [head EXCEPT ![l] = IF n = @ THEN next[n] ELSE @]
  /\ tail' = [tail EXCEPT ![l] = IF n = @ THEN prev[n] ELSE @]
  /\ next' = [m \in Nodes |-> IF m = prev[n] THEN next[n] ELSE next[m]]
  /\ prev' = [m \in Nodes |-> IF m = next[n] THEN prev[n] ELSE prev[m]]
  /\ alive' = alive \ {n}
  /\ length' = [length EXCEPT ![l] = @ - 1]
  /\ line' = [line EXCEPT ![l] = Without(@, n)]
  /\ UNCHANGED data

(* zm_sdlist_pop_front: the length is counted down below 0 too. *)
PopFront(l) ==
  /\ length' = [length EXCEPT ![l] = @ - 1]
  /\ IF head[l] = NULL
     THEN UNCHANGED <<head, tail, prev, alive, line>>
     ELSE LET new == next[head[l]]
          IN  /\ head' = [head EXCEPT ![l] = new]
              /\ tail' = [tail EXCEPT ![l] = IF new = NULL THEN NULL ELSE @]
              /\ prev' = [m \in Nodes |-> IF m = new THEN NULL ELSE prev[m]]
              /\ alive' = alive \ {head[l]}
              /\ line' = [line EXCEPT ![l] = Tail(@)]
  /\ UNCHANGED <<next, data>>
-----------------------------------------------------------------------------
(* zm_hzdptr_retire, of an object that its client has not retired before,  *)
(* as the queues do not; and the beginning of zm_hzdptr_scan.              *)
Retire(d) ==
  /\ pc = "idle"
  /\ d \notin DataOf("rlist")
  /\ PushBack("rlist", d)
  /\ \E hplist_length \in Nat :
       pc' = IF length'["rlist"] >= 2 * hplist_length THEN "init" ELSE "idle"
  /\ UNCHANGED <<node, nxt, cur, before, pulled>>

ScanInit ==
  /\ Goto("init", "pull")
  /\ head' = [head EXCEPT !["plist"] = NULL]
  /\ tail' = [tail EXCEPT !["plist"] = NULL]
  /\ length' = [length EXCEPT !["plist"] = 0]
  /\ before' = DataOf("rlist") /\ pulled' = {}
  /\ UNCHANGED <<next, prev, data, alive, line, node, nxt, cur>>

(* Stage 1: a pointer that some thread has published... *)
Pull(d) ==
  /\ Goto("pull", "pull")
  /\ PushBack("plist", d)
  /\ pulled' = pulled \cup {d}
  /\ UNCHANGED <<node, nxt, cur, before>>

PullEnd ==
  /\ Goto("pull", "loop")
  /\ node' = head["rlist"]
  /\ UNCHANGED <<lists, nxt, cur, before, pulled>>

(* ...stage 2: the next retired object, looked for in plist...             *)
LoopTest ==
  /\ \/ node = NULL /\ Goto("loop", "free") /\ UNCHANGED <<nxt, cur>>
     \/ /\ node # NULL /\ Goto("loop", "search")
        /\ nxt' = next[node]
        /\ cur' = head["plist"]
  /\ UNCHANGED <<lists, node, before, pulled>>

SearchNext ==
  /\ Goto("search", "search")
  /\ cur # NULL /\ data[cur] # data[node]
  /\ cur' = next[cur]
  /\ UNCHANGED <<lists, node, nxt, before, pulled>>

(* ...where one of its occurrences is removed, and the object kept...      *)
Found ==
  /\ Goto("search", "loop")
  /\ cur # NULL /\ data[cur] = data[node]
  /\ RmNode("plist", cur)
  /\ node' = nxt
  /\ UNCHANGED <<nxt, cur, before, pulled>>

(* ...or from where it is missing, and let go.                             *)
NotFound ==
  /\ Goto("search", "loop")
  /\ cur = NULL
  /\ RmNode("rlist", node)
  /\ node' = nxt
  /\ UNCHANGED <<nxt, cur, before, pulled>>

(* zm_sdlist_free, one call of zm_sdlist_pop_front at a time.              *)
Free ==
  /\ Goto("free", IF head["plist"] = NULL THEN "idle" ELSE "free")
  /\ PopFront("plist")
  /\ UNCHANGED <<node, nxt, cur, before, pulled>>

Next ==
  \/ \E d \in Data : Retire(d) \/ Pull(d)
  \/ ScanInit \/ PullEnd \/ LoopTest \/ SearchNext \/ Found \/ NotFound \/ Free

Spec == Init /\ [][Next]_vars
-----------------------------------------------------------------------------
TypeOK ==
  /\ head \in [Lists -> Nodes \cup {NULL}] /\ tail \in [Lists -> Nodes \cup {NULL}]
  /\ length \in [Lists -> Int]
  /\ next \in [Nodes -> Nodes \cup {NULL}] /\ prev \in [Nodes -> Nodes \cup {NULL}]
  /\ data \in [Nodes -> Data \cup {NULL}]
  /\ alive \subseteq Nodes
  /\ pc \in {"idle", "init", "pull", "loop", "search", "free"}
  /\ node \in Nodes \cup {NULL} /\ nxt \in Nodes \cup {NULL}
  /\ cur \in Nodes \cup {NULL}
  /\ line \in [Lists -> Seq(Nodes)]
  /\ before \subseteq Data /\ pulled \subseteq Data

(* The node after the i-th of a list, or before it.                        *)
Successor(l, i) == IF i < Len(line[l]) THEN line[l][i + 1] ELSE NULL
Predecessor(l, i) == IF i > 1 THEN line[l][i - 1] ELSE NULL

(* A list is spelled forwards by next and backwards by prev...             *)
Spelled(l) ==
  /\ head[l] = Successor(l, 0) /\ tail[l] = Predecessor(l, Len(line[l]) + 1)
  /\ \A i \in 1..Len(line[l]) :
       /\ next[line[l][i]] = Successor(l, i)
       /\ prev[line[l][i]] = Predecessor(l, i)
  /\ \A i, j \in 1..Len(line[l]) : line[l][i] = line[l][j] => i = j

(* ...and shares no node with the other.                                   *)
Apart ==
  \A i \in 1..Len(line["rlist"]), j \in 1..Len(line["plist"]) :
    line["rlist"][i] # line["plist"][j]

InLists == {n \in Nodes : \E l \in Lists : \E i \in 1..Len(line[l]) : line[l][i] = n}

(* Both lists stay so through removals at either end and in the middle,    *)
(* and have the length that a retirement compares; what is allocated is    *)
(* what is in a list, and a scan leaves none of plist behind.              *)
ListsOK ==
  /\ TypeOK
  /\ \A l \in Lists : Spelled(l)
  /\ Apart
  /\ alive = InLists
  /\ length["rlist"] = Len(line["rlist"])
  /\ pc \in {"idle", "init"} => line["plist"] = << >>
  /\ pc \in {"pull", "loop", "search"} => length["plist"] = Len(line["plist"])

(* Neither loop ever looks at a node that was freed, though both free the  *)
(* nodes they have come to.                                                *)
NoStrayAccess ==
  /\ pc = "loop" => node \in alive \cup {NULL}
  /\ pc = "search" => node \in alive /\ cur \in alive \cup {NULL}

(* A scan keeps what it has found in a hazard pointer and lets go of       *)
(* everything else, although it removes what it finds from plist and stops *)
(* at the first occurrence: this is what HzdPtr takes for one step.        *)
ScanExact == pc = "free" => DataOf("rlist") = before \cap pulled
-----------------------------------------------------------------------------
(* The inductive invariant.  An object is retired once...                  *)
RetiredOnce ==
  /\ \A l \in Lists : DataOf(l) \subseteq Data
  /\ \A i, j \in 1..Len(line["rlist"]) :
       data[line["rlist"][i]] = data[line["rlist"][j]] => i = j

(* ...the scan has kept the first k objects, which were found, and plist   *)
(* has everything else that was, and no more...                            *)
Kept(k) == {data[line["rlist"][i]] : i \in 1..k}

LoopAt(k) ==
  /\ k <= Len(line["rlist"])
  /\ node = Successor("rlist", k)
  /\ pc = "search" => node # NULL /\ nxt = Successor("rlist", k + 1)
  /\ Kept(k) \subseteq pulled
  /\ DataOf("rlist") \subseteq before
  /\ \A d \in before : d \in DataOf("rlist") \/ d \notin pulled
  /\ DataOf("plist") \subseteq pulled
  /\ \A d \in pulled : d \in DataOf("plist") \/ d \in Kept(k)

(* ...and the search has passed j nodes that have something else.          *)
SearchAt(j) ==
  /\ j <= Len(line["plist"])
  /\ cur = Successor("plist", j)
  /\ \A i \in 1..j : data[line["plist"][i]] # data[node]

ScanOK ==
  /\ pc = "pull" => before = DataOf("rlist") /\ pulled = DataOf("plist")
  /\ pc \in {"loop", "search"} => \E k \in Nat : LoopAt(k)
  /\ pc = "search" => \E j \in Nat : SearchAt(j)

IInv == ListsOK /\ RetiredOnce /\ ScanOK /\ ScanExact
=============================================================================
