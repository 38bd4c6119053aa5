----------------------------- MODULE ChangeQueue -----------------------------
(***************************************************************************)
(* What a queue of changes promises its user, without tables, batches or    *)
(* commands: each change is entered once, in the order of its number, and   *)
(* comes to an end that is final: reported done if it has taken effect, or  *)
(* given up after enough attempts.                                          *)
(*                                                                          *)
(* Orderly means that at worst the server refuses a change. Then a change   *)
(* takes effect at most once, and is not tried again nor given up once it   *)
(* has; none is tried too often; and a newer change is not reached before   *)
(* every older one that waits was tried.                                    *)
(***************************************************************************)
EXTENDS Naturals

CONSTANTS
    Changes,    \* the changes: a set of numbers, in the order in which they are made
    Patience    \* failed attempts before a change is given up

VARIABLES
    orderly,    \* nothing worse than a refusal happens
    told,       \* what the user is told of a change
    done,       \* changes that have taken effect
    tries       \* failed attempts

changeVars == <<orderly, told, done, tries>>

ChangeInit ==
    /\ orderly \in BOOLEAN
    /\ told = [m \in Changes |-> "none"]
    /\ done = {}
    /\ tries = [m \in Changes |-> 0]

\* Every older change that still waits had its turn.
InTurn(m) == \A n \in Changes : n < m /\ told[n] = "waiting" => tries[n] > 0

\* A change that asks for nothing has taken effect as soon as it is made.
Enter(m) ==
    /\ told[m] = "none"
    /\ \A n \in Changes : n < m => told[n] # "none"
    /\ told' = [told EXCEPT ![m] = "waiting"]
    /\ done' \in {done, done \cup {m}}
    /\ UNCHANGED <<orderly, tries>>

TakeEffect(m) ==
    /\ told[m] = "waiting"
    /\ orderly => m \notin done /\ InTurn(m)
    /\ done' = done \cup {m}
    /\ UNCHANGED <<orderly, told, tries>>

TryFails(m) ==
    /\ told[m] = "waiting"
    /\ orderly => m \notin done /\ InTurn(m) /\ tries[m] < Patience
    /\ tries' = [tries EXCEPT ![m] = @ + 1]
    /\ UNCHANGED <<orderly, told, done>>

ReportDone(m) ==
    /\ told[m] = "waiting"
    /\ m \in done
    /\ orderly => InTurn(m)
    /\ told' = [told EXCEPT ![m] = "done"]
    /\ UNCHANGED <<orderly, done, tries>>

GiveUp(m) ==
    /\ told[m] = "waiting"
    /\ tries[m] >= Patience
    /\ orderly => m \notin done /\ InTurn(m)
    /\ told' = [told EXCEPT ![m] = "failed"]
    /\ UNCHANGED <<orderly, done, tries>>

ChangeNext ==
    \E m \in Changes :
        Enter(m) \/ TakeEffect(m) \/ TryFails(m) \/ ReportDone(m) \/ GiveUp(m)

ChangeSpec == ChangeInit /\ [][ChangeNext]_changeVars
=============================================================================
