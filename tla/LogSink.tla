-------------------------------- MODULE LogSink --------------------------------
(***************************************************************************)
(* The handlers of the package logger (observability/logging_setup.py).    *)
(* Every run of a page's script configures the logger anew: it clears the  *)
(* handlers another session may be writing through, and adds a stream and  *)
(* a file of its own.  An event reaches the handlers there are when it is  *)
(* emitted.                                                                *)
(***************************************************************************)
EXTENDS Naturals, Sequences, FiniteSets

CONSTANTS
    Sessions,   \* the browser tabs of one process
    Nobody

ASSUME NobodyAssumption == Nobody \notin Sessions

VARIABLES
    handlers,   \* logger.handlers
    lock,       \* _CONFIGURE_LOCK: who holds it
    at          \* at[s]: "idle" between two runs of the script, "cleared" inside
                \* the swap, "configured" after it

sinkVars == <<handlers, lock, at>>

SinkInit ==
    /\ handlers = <<>>
    /\ lock = Nobody
    /\ at = [s \in Sessions |-> "idle"]

\* Mutant: the swap does not take the lock.
Clear_bug(s) ==
    /\ at[s] = "idle"
    /\ handlers' = <<>>
    /\ at' = [at EXCEPT ![s] = "cleared"]
    /\ UNCHANGED lock

\* configure_logging takes the lock, closes the handlers and clears the list.
Clear(s) ==
    /\ at[s] = "idle"
    /\ lock = Nobody
    /\ lock' = s
    /\ handlers' = <<>>
    /\ at' = [at EXCEPT ![s] = "cleared"]

\* It adds its own two and releases the lock.
Install(s) ==
    /\ at[s] = "cleared"
    /\ handlers' = handlers \o <<"stream", "file">>
    /\ lock' = Nobody
    /\ at' = [at EXCEPT ![s] = "configured"]

\* The script ends, or is started again: the handlers stay.
Return(s) ==
    /\ at[s] = "configured"
    /\ at' = [at EXCEPT ![s] = "idle"]
    /\ UNCHANGED <<handlers, lock>>

SinkNext == \E s \in Sessions : Clear(s) \/ Install(s) \/ Return(s)

SinkSpec == SinkInit /\ [][SinkNext]_sinkVars

\* How many lines of the file one event becomes.
Copies == Cardinality({i \in DOMAIN handlers : handlers[i] = "file"})

-------------------------------------------------------------------------------

(* However the runs of the sessions' scripts overlap, no event is written  *)
(* to the file twice; and outside a swap, once anyone has configured the   *)
(* logger, every event is written (logging_setup.py:36-43, 170-183).       *)
NoLineTwice ==
    /\ Copies <= 1
    /\ lock = Nobody /\ (\E s \in Sessions : at[s] = "configured") => Copies = 1
===============================================================================
