---------------------------- MODULE SchemaProofs ----------------------------
(***************************************************************************)
(* validation_error reports its own header's error, for any threads and    *)
(* any number of calls.  ReportsItsOwnError is not inductive: that the log *)
(* still holds the reader's error rests on the lock keeping every other    *)
(* validate out, which LogBelongsToHolder adds.                            *)
(***************************************************************************)
EXTENDS SBDHSchema, TLAPS

Inv == TypeOK /\ LogBelongsToHolder /\ ReportsItsOwnError

\* Nobody is inside validation_error at first.
LEMMA InitInv == Init => Inv
BY SchemaAssumption DEF Init, Inv, TypeOK, LogBelongsToHolder, ReportsItsOwnError

\* Every step of every thread keeps the invariant.
LEMMA NextInv == Inv /\ [Next]_vars => Inv'
<1> SUFFICES ASSUME Inv, [Next]_vars
             PROVE  Inv'
  OBVIOUS
<1> USE SchemaAssumption DEF Inv, TypeOK
<1>1. ASSUME NEW t \in Thread, Call(t)
      PROVE  Inv'
  <2>1. PICK f \in Error \cup {None} : fault' = [fault EXCEPT ![t] = f]
    BY <1>1 DEF Call
  <2>3. TypeOK'
    BY <1>1, <2>1 DEF Call
  <2>4. LogBelongsToHolder'
    BY <1>1, <2>1 DEF Call, LogBelongsToHolder
  <2>5. ReportsItsOwnError'
    BY <1>1, <2>1 DEF Call, ReportsItsOwnError
  <2> QED
    BY <2>3, <2>4, <2>5
<1>2. ASSUME NEW t \in Thread, Acquire(t)
      PROVE  Inv'
  BY <1>2 DEF Acquire, LogBelongsToHolder, ReportsItsOwnError
<1>3. ASSUME NEW t \in Thread, Validate(t)
      PROVE  Inv'
  <2>1. \A u \in Thread : u # t => pc[u] \notin {"validate", "read", "leave"}
    BY <1>3 DEF Validate, LogBelongsToHolder
  <2>2. TypeOK'
    BY <1>3 DEF Validate, Logged
  <2>3. LogBelongsToHolder'
    BY <1>3, <2>1 DEF Validate, LogBelongsToHolder
  <2>4. ReportsItsOwnError'
    BY <1>3, <2>1 DEF Validate, ReportsItsOwnError
  <2> QED
    BY <2>2, <2>3, <2>4
<1>4. ASSUME NEW t \in Thread, ReadLog(t)
      PROVE  Inv'
  <2>1. error_log = Logged(fault[t]) /\ fault[t] # None
    BY <1>4 DEF ReadLog, LogBelongsToHolder
  <2>2. (IF error_log = None THEN "" ELSE error_log) = fault[t]
    BY <2>1 DEF Logged
  <2>3. TypeOK'
    BY <1>4, <2>2 DEF ReadLog
  <2>4. LogBelongsToHolder'
    BY <1>4 DEF ReadLog, LogBelongsToHolder
  <2>5. ReportsItsOwnError'
    BY <1>4, <2>2 DEF ReadLog, ReportsItsOwnError
  <2> QED
    BY <2>3, <2>4, <2>5
<1>5. ASSUME NEW t \in Thread, Release(t)
      PROVE  Inv'
  BY <1>5 DEF Release, LogBelongsToHolder, ReportsItsOwnError
<1>6. ASSUME NEW t \in Thread, ValidateRaises(t)
      PROVE  Inv'
  <2>1. \A u \in Thread : u # t => pc[u] \notin {"validate", "read", "leave", "unwind"}
    BY <1>6 DEF ValidateRaises, LogBelongsToHolder
  <2>2. TypeOK'
    BY <1>6 DEF ValidateRaises, Logged
  <2>3. LogBelongsToHolder'
    BY <1>6, <2>1 DEF ValidateRaises, LogBelongsToHolder
  <2>4. ReportsItsOwnError'
    BY <1>6, <2>1 DEF ValidateRaises, ReportsItsOwnError
  <2> QED
    BY <2>2, <2>3, <2>4
<1>7. CASE UNCHANGED vars
  BY <1>7 DEF vars, LogBelongsToHolder, ReportsItsOwnError
<1> QED
  BY <1>1, <1>2, <1>3, <1>4, <1>5, <1>6, <1>7 DEF Next, Step

\* The error text validation_error returns to a thread is about the header
\* that thread passed, whatever the other threads validate meanwhile.
THEOREM OwnError == Spec => []ReportsItsOwnError
<1>1. Inv => ReportsItsOwnError
  BY DEF Inv
<1> QED
  BY InitInv, NextInv, <1>1, PTL DEF Spec
=============================================================================
