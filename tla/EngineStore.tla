---------------------------- MODULE EngineStore ----------------------------
(***************************************************************************)
(* What ConnectionCache promises its callers, without order, ages or       *)
(* locks: a map from connection ids to at most one engine each, of bounded *)
(* size, that may forget an entry at any time, and in which every engine   *)
(* it lets go is disposed, once, and never given out again.                *)
(***************************************************************************)
EXTENDS Naturals, FiniteSets

CONSTANTS Conns, Engines, MaxSize, NoEngine

VARIABLES
  store,    \* the engine held for each id, or NoEngine
  released, \* engines let go and not disposed yet
  gone      \* engines disposed

storeVars == <<store, released, gone>>

Held(f) == {c \in Conns : f[c] # NoEngine}

\* What the ids in D held.
Holdings(D) == {store[c] : c \in D} \ {NoEngine}

Init ==
  /\ store = [c \in Conns |-> NoEngine]
  /\ released = {}
  /\ gone = {}

\* Keep e for c; entries of other ids may have to make room, only when full.
Keep(c, e) ==
  /\ e \notin released \cup gone \cup Holdings(Conns \ {c})
  /\ \E D \in SUBSET (Conns \ {c}) :
       /\ store' = [x \in Conns |-> IF x = c THEN e ELSE IF x \in D THEN NoEngine ELSE store[x]]
       /\ Holdings(D) # {} => Cardinality(Held(store')) = MaxSize
       /\ Cardinality(Held(store')) <= MaxSize
       /\ released' = released \cup (Holdings(D \cup {c}) \ {e})
       /\ UNCHANGED gone

\* Forget some entries: one that expired or was evicted, or all of them.
Forget(D) ==
  /\ store' = [x \in Conns |-> IF x \in D THEN NoEngine ELSE store[x]]
  /\ released' = released \cup Holdings(D)
  /\ UNCHANGED gone

Close(e) ==
  /\ e \in released
  /\ released' = released \ {e}
  /\ gone' = gone \cup {e}
  /\ UNCHANGED store

Next ==
  \/ \E c \in Conns, e \in Engines : Keep(c, e)
  \/ \E c \in Conns : Forget({c})
  \/ Forget(Conns)
  \/ \E e \in Engines : Close(e)

Safety == Init /\ [][Next]_storeVars

Spec == Safety /\ \A e \in Engines : WF_storeVars(Close(e))
=============================================================================
