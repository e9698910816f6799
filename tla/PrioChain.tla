----------------------------- MODULE PrioChain -----------------------------
(***************************************************************************)
(* The client of test/regres/cond/prio_chain.c: in every round, thread i   *)
(* waits until the i threads before it had their turn, takes its own and   *)
(* signals all the others.  Two barriers separate the rounds from the      *)
(* initialisation of the counts.  Until its turn a thread may use the lock *)
(* for something else, by any of its operations, as often as it likes.     *)
(***************************************************************************)
EXTENDS CCond

ASSUME ChainAssumption == Threads = 0 .. Cardinality(Threads) - 1

VARIABLES
  stage,    \* where each thread is in its round
  left,     \* the threads it has still to signal
  counter   \* the global counter

chainVars == <<stage, left, counter>>
allVars == <<vars, condVars, chainVars>>

ChainInit ==
  /\ Init /\ CondInit
  /\ stage = [t \in Threads |-> "barrier1"]
  /\ left = [t \in Threads |-> {}]
  /\ counter = 0

To(t, from, to) == stage[t] = from /\ stage' = [stage EXCEPT ![t] = to]

(* pthread_barrier_wait *)
Barrier(from, to) ==
  /\ \A t \in Threads : stage[t] = from
  /\ stage' = [t \in Threads |-> to]
  /\ UNCHANGED <<vars, condVars, left, counter>>

Setup(t) ==
  /\ To(t, "setup", "barrier2")
  /\ counter' = IF t = 0 THEN 0 ELSE counter
  /\ SCountInit(t, t)
  /\ UNCHANGED <<vars, left>>

Outside(t) == cpc[t] = "out" /\ UNCHANGED <<condVars, chainVars>>

(* The lock acquired, for the turn or for something else... *)
Acquire(t) == stage[t] = "run" /\ Outside(t) /\ AcquireFetchAdd(t)
Try(t) == stage[t] = "run" /\ Outside(t) /\ TryLoadNext(t)

(* ...and given back without a turn. *)
Leave(t) == stage[t] = "run" /\ Outside(t) /\ Release(t)

Ask(t) == Outside(t) /\ Nowaiters(t)

LockStep(t) ==
  Outside(t) /\ (AcquireSpin(t) \/ TryLoadServing(t) \/ TryCAS(t))

Await(t) ==
  /\ To(t, "run", IF count[t] > 0 THEN "wait" ELSE "turn")
  /\ SCountWait(t)
  /\ UNCHANGED <<left, counter>>

AwaitStep(t) ==
  \/ /\ WaitRelease(t) \/ WaitSpin(t) \/ WaitAcquire(t)
     /\ UNCHANGED chainVars
  \/ /\ To(t, "wait", "turn")
     /\ WaitReturn(t)
     /\ UNCHANGED <<left, counter>>

TakeTurn(t) ==
  /\ To(t, "turn", "signal")
  /\ counter' = counter + 1
  /\ left' = [left EXCEPT ![t] = Threads \ {t}]
  /\ UNCHANGED <<vars, condVars>>

(* The loop over the other threads, in any order. *)
SignalOther(t) ==
  /\ stage[t] = "signal"
  /\ \E c \in left[t] : SCountSignal(c) /\ left' = [left EXCEPT ![t] = @ \ {c}]
  /\ UNCHANGED <<vars, stage, counter>>

Finish(t) ==
  /\ To(t, "signal", "barrier1")
  /\ left[t] = {}
  /\ Release(t)
  /\ UNCHANGED <<condVars, left, counter>>

Round(t) ==
  LockStep(t) \/ AwaitStep(t) \/ TakeTurn(t) \/ SignalOther(t) \/ Finish(t)

Barriers == Barrier("barrier1", "setup") \/ Barrier("barrier2", "run")

ChainNext ==
  \/ Barriers
  \/ \E t \in Threads :
       \/ Setup(t) \/ Acquire(t) \/ Try(t) \/ Leave(t) \/ Ask(t) \/ Await(t)
       \/ Round(t)

ChainSpec == ChainInit /\ [][ChainNext]_allVars

(* A thread that runs keeps running; whatever else it uses the lock for,   *)
(* it acquires it and waits for its turn in the end.                       *)
ChainFairSpec ==
  /\ ChainSpec
  /\ WF_allVars(Barriers)
  /\ \A t \in Threads :
       /\ WF_allVars(Setup(t) \/ Round(t))
       /\ SF_allVars(Acquire(t))
       /\ SF_allVars(Await(t))
-----------------------------------------------------------------------------
(* The assertion of the test, which aborts: a thread takes its turn when   *)
(* as many had theirs as its number says, whoever used the lock between a  *)
(* signal and the wake-up.                                                 *)
TurnsInOrder == \A t \in Threads : stage[t] = "turn" => counter = t

(* Every thread gets its turn in every round: no signal is lost between    *)
(* the check of the count and the wait, or between the release of the lock *)
(* and the spin.                                                           *)
EveryTurn == \A t \in Threads : stage[t] = "run" ~> stage[t] = "barrier1"
-----------------------------------------------------------------------------
(* The inductive invariant.  A thread has the lock from its turn to the    *)
(* end of its signals, and not between rounds...                           *)
Active(t) == stage[t] \in {"run", "wait", "turn"}

PlacesOK ==
  /\ (\A t \in Threads : stage[t] \in {"setup", "barrier2"})
       \/ (\A t \in Threads : stage[t] \notin {"setup", "barrier2"})
  /\ \A t \in Threads :
       /\ stage[t] \in {"barrier1", "setup", "barrier2"} => pc[t] = "idle"
       /\ stage[t] \in {"turn", "signal"} => pc[t] = "cs"
       /\ stage[t] = "wait" <=> cpc[t] # "out"
       /\ cpc[t] = "release" => pc[t] = "cs"
       /\ cpc[t] \in {"spin", "acquire"} => pc[t] = "idle"
       /\ cpc[t] = "spin_lock" => pc[t] = "spin"
       /\ left[t] # {} => stage[t] = "signal"

(* ...it goes on from its wait when its count is 0...                      *)
WaitsOK ==
  \A t \in Threads :
    /\ stage[t] = "turn" \/ cpc[t] \in {"acquire", "spin_lock"} => count[t] = 0
    /\ cpc[t] \in {"release", "spin"} /\ flag[t] = "CLEAR" => count[t] = 0

(* ...which is how many turns it has to wait for, with the one that was    *)
(* taken and not signalled to it yet.                                      *)
Pending(t) == \E s \in Threads : t \in left[s]

TurnsOK ==
  /\ \A t \in Threads : stage[t] = "barrier2" => count[t] = t /\ (t = 0 => counter = 0)
  /\ \A t \in Threads : Active(t) =>
       /\ counter <= t
       /\ count[t] = (t - counter) + (IF Pending(t) THEN 1 ELSE 0)
  /\ \A t \in Threads : stage[t] \in {"signal", "barrier1"} =>
       \/ t < counter
       \/ \A u \in Threads : stage[u] = "barrier1"

ChainTypeOK ==
  /\ flag \in [Threads -> {"CLEAR", "WAIT"}]
  /\ count \in [Threads -> Nat]
  /\ cpc \in [Threads -> {"out", "release", "spin", "acquire", "spin_lock"}]
  /\ stage \in [Threads -> {"barrier1", "setup", "barrier2", "run", "wait",
                             "turn", "signal"}]
  /\ left \in [Threads -> SUBSET Threads]
  /\ counter \in Nat

ChainInv == ChainTypeOK /\ PlacesOK /\ WaitsOK /\ TurnsOK
=============================================================================
