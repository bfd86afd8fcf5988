---------------------------- MODULE SingleFlight ----------------------------
(***************************************************************************)
(* singleflight.Group of CCache: concurrent calls of Do with one key share *)
(* one execution of fn.  Each goroutine of Callers calls Do once; the call *)
(* object a goroutine allocates is named after it.  Every critical section *)
(* of g.mu is one step.  fn is external: it returns a value or an error,   *)
(* or panics when MayPanic (the goroutine's caller recovers, as net/http   *)
(* does, or the program would be gone).                                    *)
(***************************************************************************)
EXTENDS Naturals, FiniteSets

CONSTANTS
  Callers,
  Keys,
  MayPanic,
  NoCall

ASSUME CallersAssumption ==
  /\ NoCall \notin Callers
  /\ MayPanic \in BOOLEAN

VARIABLES
  key,       \* the key each goroutine asks for
  m,         \* g.m: key -> call, NoCall when absent
  pc,
  callOf,    \* the call object each goroutine uses
  val,       \* c.val, c.err of each call object
  finished,  \* the call objects whose WaitGroup is back to 0
  ret,       \* what Do returned
  \* history, read by the properties only
  returnedBefore  \* those whose Do of the same key had returned when Do was called

vars == <<key, m, pc, callOf, val, finished, ret, returnedBefore>>

TypeOK ==
  /\ key \in [Callers -> Keys]
  /\ m \in [Keys -> Callers \cup {NoCall}]
  /\ pc \in [Callers -> {"idle", "enter", "fn", "done", "delete", "wait",
                         "returned", "panicked"}]
  /\ callOf \in [Callers -> Callers \cup {NoCall}]
  /\ val \in [Callers -> {"none", "value", "error"}]
  /\ finished \in SUBSET Callers
  /\ ret \in [Callers -> {"none", "value", "error"}]
  /\ returnedBefore \in [Callers -> SUBSET Callers]

Init ==
  /\ key \in [Callers -> Keys]
  /\ m = [k \in Keys |-> NoCall]
  /\ pc = [g \in Callers |-> "idle"]
  /\ callOf = [g \in Callers |-> NoCall]
  /\ val = [g \in Callers |-> "none"]
  /\ finished = {}
  /\ ret = [g \in Callers |-> "none"]
  /\ returnedBefore = [g \in Callers |-> {}]

Goto(g, p) == pc' = [pc EXCEPT ![g] = p]

Start(g) ==
  /\ pc[g] = "idle"
  /\ Goto(g, "enter")
  /\ returnedBefore' =
       [returnedBefore EXCEPT ![g] = {h \in Callers : pc[h] = "returned" /\ key[h] = key[g]}]
  /\ UNCHANGED <<key, m, callOf, val, finished, ret>>

\* The map has a call for the key of g.  Mutant: it is never looked at.
NotLooked(g) == FALSE
InFlight(g) == m[key[g]] # NoCall

\* The map without the call of k.  Mutant: it is not deleted.
Kept(k) == m
Without(k) == [m EXCEPT ![k] = NoCall]

\* wg.Wait returns.  Mutant: nobody waits.
NoWait(c) == TRUE
Over(c) == c \in finished

\* The first critical section: join the call in the map, or put a new one there.
Join(g) ==
  /\ pc[g] = "enter" /\ InFlight(g)
  /\ callOf' = [callOf EXCEPT ![g] = m[key[g]]]
  /\ Goto(g, "wait")
  /\ UNCHANGED <<key, m, val, finished, ret, returnedBefore>>

Lead(g) ==
  /\ pc[g] = "enter" /\ ~InFlight(g)
  /\ m' = [m EXCEPT ![key[g]] = g]
  /\ callOf' = [callOf EXCEPT ![g] = g]
  /\ Goto(g, "fn")
  /\ UNCHANGED <<key, val, finished, ret, returnedBefore>>

FnReturns(g) ==
  /\ pc[g] = "fn"
  /\ \E v \in {"value", "error"} : val' = [val EXCEPT ![g] = v]
  /\ Goto(g, "done")
  /\ UNCHANGED <<key, m, callOf, finished, ret, returnedBefore>>

\* Nothing is deferred: the call stays in the map, its WaitGroup at 1.
FnPanics(g) ==
  /\ MayPanic /\ pc[g] = "fn"
  /\ Goto(g, "panicked")
  /\ UNCHANGED <<key, m, callOf, val, finished, ret, returnedBefore>>

\* Mutant: wg.Done is not reached.
DoneSkipped(g) ==
  /\ pc[g] = "done"
  /\ Goto(g, "delete")
  /\ UNCHANGED <<key, m, callOf, val, finished, ret, returnedBefore>>

Done(g) ==
  /\ pc[g] = "done"
  /\ finished' = finished \cup {g}
  /\ Goto(g, "delete")
  /\ UNCHANGED <<key, m, callOf, val, ret, returnedBefore>>

\* The second critical section, and the return of the goroutine that led.
Delete(g) ==
  /\ pc[g] = "delete"
  /\ m' = Without(key[g])
  /\ ret' = [ret EXCEPT ![g] = val[g]]
  /\ Goto(g, "returned")
  /\ UNCHANGED <<key, callOf, val, finished, returnedBefore>>

WaitReturns(g) ==
  /\ pc[g] = "wait" /\ Over(callOf[g])
  /\ ret' = [ret EXCEPT ![g] = val[callOf[g]]]
  /\ Goto(g, "returned")
  /\ UNCHANGED <<key, m, callOf, val, finished, returnedBefore>>

\* All that can return have.
Terminated ==
  /\ \A g \in Callers : \/ pc[g] \in {"returned", "panicked"}
                        \/ pc[g] = "wait" /\ pc[callOf[g]] = "panicked"
  /\ UNCHANGED vars

DoStep(g) == Join(g) \/ Lead(g) \/ FnReturns(g) \/ Done(g) \/ Delete(g) \/ WaitReturns(g)

Next == (\E g \in Callers : Start(g) \/ DoStep(g) \/ FnPanics(g)) \/ Terminated

Spec == Init /\ [][Next]_vars

-----------------------------------------------------------------------------
(* Properties.                                                             *)

\* singleflight.go:22: fn runs once at a time for a key, however the deletion
\* of a finished call and the arrival of a new one interleave.
OneExecution ==
  \A g, h \in Callers :
    pc[g] = "fn" /\ pc[h] = "fn" /\ key[g] = key[h] => g = h

\* Do returns what one execution of fn for its own key gave, and all that share
\* the execution return the same.
SharedResult ==
  \A g \in Callers : pc[g] = "returned" =>
    /\ ret[g] # "none" /\ ret[g] = val[callOf[g]]
    /\ key[callOf[g]] = key[g]

\* A Do that begins after another one has returned executes afresh: it never
\* shares the execution of the latter if that one led it.
NoReuseAfterReturn ==
  \A g \in Callers : callOf[g] \notin returnedBefore[g]

\* The inductive invariant behind the safety properties: the call in the map is
\* that of the one goroutine between Lead and Delete, and a call is joined by
\* goroutines of its key only.
LeaderInv ==
  /\ \A k \in Keys : m[k] # NoCall =>
       key[m[k]] = k /\ pc[m[k]] \in {"fn", "done", "delete", "panicked"}
  /\ \A g \in Callers :
       /\ pc[g] \in {"fn", "done", "delete", "panicked"} => m[key[g]] = g
       /\ pc[g] \in {"fn", "done", "delete", "panicked"} => callOf[g] = g
       /\ pc[g] \in {"idle", "enter"} <=> callOf[g] = NoCall
       /\ pc[g] \in {"wait", "returned"} => key[callOf[g]] = key[g]

ResultInv ==
  \A g \in Callers :
    /\ g \in finished => val[g] # "none"
    /\ pc[g] \in {"idle", "enter", "wait", "fn"} => val[g] = "none"
    /\ pc[g] \in {"done", "delete"} => val[g] # "none"
    /\ pc[g] = "delete" => g \in finished
    /\ pc[g] = "returned" =>
         /\ callOf[g] \in finished
         /\ ret[g] = val[callOf[g]]
    /\ \A h \in returnedBefore[g] : pc[h] = "returned" /\ h # callOf[g]

IInv == TypeOK /\ LeaderInv /\ ResultInv
=============================================================================
