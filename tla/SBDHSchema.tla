----------------------------- MODULE SBDHSchema -----------------------------
(***************************************************************************)
(* SBDHSchema.validation_error (as4/resources/schemas/vendor/sbdh): one    *)
(* lxml schema object, whose validate fills one error_log, shared by the   *)
(* threads that parse messages and guarded by SBDHSchema.lock.             *)
(***************************************************************************)
CONSTANTS
    Thread, \* request threads
    Error,  \* what makes a header invalid: the message logged, "" for none
    None    \* Python's None: the header is valid, or nobody holds the lock

ASSUME SchemaAssumption == None \notin Thread \cup Error

VARIABLES
    lock,      \* the thread holding SBDHSchema.lock, or None
    error_log, \* what the last validate left in the shared log
    pc,        \* where each thread is inside validation_error
    fault,     \* what is wrong with the header each thread validates
    result     \* what validation_error returned to each thread

vars == <<lock, error_log, pc, fault, result>>

Init ==
    /\ lock = None
    /\ error_log = None
    /\ pc = [t \in Thread |-> "idle"]
    /\ fault = [t \in Thread |-> None]
    /\ result = [t \in Thread |-> None]

\* process_sbdh calls validation_error with a header, valid or not.
Call(t) ==
    /\ pc[t] = "idle"
    /\ \E f \in Error \cup {None} : fault' = [fault EXCEPT ![t] = f]
    /\ pc' = [pc EXCEPT ![t] = "enter"]
    /\ UNCHANGED <<lock, error_log, result>>

\* Mutant: validation_error does not wait for the lock.
AcquireAtOnce(t) ==
    /\ pc[t] = "enter"
    /\ lock' = t
    /\ pc' = [pc EXCEPT ![t] = "validate"]
    /\ UNCHANGED <<error_log, fault, result>>

\* with cls.lock: threading.Lock lets in any of the threads that wait.
Acquire(t) ==
    /\ pc[t] = "enter" /\ lock = None
    /\ lock' = t
    /\ pc' = [pc EXCEPT ![t] = "validate"]
    /\ UNCHANGED <<error_log, fault, result>>

\* What validate leaves in the log for a header with this fault.
Logged(f) == IF f = "" THEN None ELSE f

\* sbdh_schema.validate clears the log and fills it anew; a valid header
\* needs no look at the log.
Validate(t) ==
    /\ pc[t] = "validate"
    /\ error_log' = Logged(fault[t])
    /\ pc' = [pc EXCEPT ![t] = IF fault[t] = None THEN "leave" ELSE "read"]
    /\ result' = [result EXCEPT ![t] = IF fault[t] = None THEN None ELSE @]
    /\ UNCHANGED <<lock, fault>>

\* validate raises, an internal error of the validator or no memory, with the
\* log in whatever state; the exception unwinds the with block.
ValidateRaises(t) ==
    /\ pc[t] = "validate"
    /\ \E f \in Error \cup {None} : error_log' = Logged(f)
    /\ pc' = [pc EXCEPT ![t] = "unwind"]
    /\ UNCHANGED <<lock, fault, result>>

\* error_log.last_error, and "" when the log is empty.
ReadLog(t) ==
    /\ pc[t] = "read"
    /\ result' = [result EXCEPT ![t] = IF error_log = None THEN "" ELSE error_log]
    /\ pc' = [pc EXCEPT ![t] = "leave"]
    /\ UNCHANGED <<lock, error_log, fault>>

\* Mutant: the lock is released before the return statements alone.
ReleaseOnReturn(t) ==
    /\ pc[t] \in {"leave", "unwind"}
    /\ lock' = IF pc[t] = "leave" THEN None ELSE lock
    /\ pc' = [pc EXCEPT ![t] = "idle"]
    /\ UNCHANGED <<error_log, fault, result>>

\* The end of the with block, on return and on an exception.
Release(t) ==
    /\ pc[t] \in {"leave", "unwind"}
    /\ lock' = None
    /\ pc' = [pc EXCEPT ![t] = "idle"]
    /\ UNCHANGED <<error_log, fault, result>>

Step(t) == Acquire(t) \/ Validate(t) \/ ValidateRaises(t) \/ ReadLog(t) \/ Release(t)

Next == \E t \in Thread : Call(t) \/ Step(t)

Spec == Init /\ [][Next]_vars

\* A thread that can go on goes on.  Nothing is assumed of the lock: a thread
\* that waits may be overtaken again and again.
FairSpec == Spec /\ \A t \in Thread : WF_vars(Step(t))

-----------------------------------------------------------------------------
(* Properties *)

\* Every variable has its type.
TypeOK ==
    /\ lock \in Thread \cup {None}
    /\ error_log \in Error \cup {None}
    /\ pc \in [Thread -> {"idle", "enter", "validate", "read", "leave", "unwind"}]
    /\ fault \in [Thread -> Error \cup {None}]
    /\ result \in [Thread -> Error \cup {None, ""}]

\* What a call returns is about the header of that call: the error text a
\* refused sender gets is never another request's.
ReportsItsOwnError ==
    \A t \in Thread : pc[t] = "leave" => result[t] = fault[t]

\* Between validate and the read, the log is the reader's own.
LogBelongsToHolder ==
    \A t \in Thread :
        /\ pc[t] \in {"validate", "read", "leave", "unwind"} => lock = t
        /\ pc[t] = "read" => error_log = Logged(fault[t]) /\ fault[t] # None

\* While a request waits for the lock some request gets through, endlessly
\* many calls and any number of exceptions out of validate included: no call
\* leaves validation_error with the lock still taken.
WaitingIsServed ==
    (\E t \in Thread : pc[t] = "enter") ~> (\E t \in Thread : pc[t] \in {"leave", "unwind"})
=============================================================================
