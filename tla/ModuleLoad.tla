----------------------------- MODULE ModuleLoad -----------------------------
(***************************************************************************)
(* Loading and unloading the module: it reserves its event subclasses one  *)
(* after the other and frees them again when one cannot be had.  A name    *)
(* has one owner in FreeSWITCH; others come and go.                        *)
(***************************************************************************)
EXTENDS Naturals, Sequences, FiniteSets

CONSTANT Subclasses   \* the names, in the order they are reserved

ASSUME SubclassesAssumption ==
    Subclasses \in Seq(STRING) /\ \A i, j \in 1..Len(Subclasses) : Subclasses[i] = Subclasses[j] => i = j

VARIABLES
    module,   \* "unloaded", "loading" or "loaded"
    owner     \* of each name: "none", "us" or "other"

loadVars == <<module, owner>>

SubclassNames == {Subclasses[i] : i \in 1..Len(Subclasses)}
Ours == {name \in SubclassNames : owner[name] = "us"}

LoadInit == module = "unloaded" /\ owner \in [SubclassNames -> {"none", "other"}]

Load == module = "unloaded" /\ module' = "loading" /\ UNCHANGED owner

NextSubclass == Subclasses[Cardinality(Ours) + 1]

ReserveSubclass ==
    /\ module = "loading" /\ Cardinality(Ours) < Len(Subclasses)
    /\ owner[NextSubclass] = "none"
    /\ owner' = [owner EXCEPT ![NextSubclass] = "us"]
    /\ UNCHANGED module

\* Freeing a name that somebody else reserved does nothing.
FreeEventSubclasses == owner' = [name \in SubclassNames |-> IF owner[name] = "us" THEN "none" ELSE owner[name]]

\* A faulty variant of the next action: no rollback.
ReserveFailsOnly ==
    /\ module = "loading" /\ Cardinality(Ours) < Len(Subclasses)
    /\ module' = "unloaded" /\ UNCHANGED owner

\* The name is taken, or there is no memory for it.
ReserveFails ==
    /\ module = "loading" /\ Cardinality(Ours) < Len(Subclasses)
    /\ module' = "unloaded" /\ FreeEventSubclasses

AddApis ==
    /\ module = "loading" /\ Cardinality(Ours) = Len(Subclasses)
    /\ module' = "loaded" /\ UNCHANGED owner

Shutdown == module = "loaded" /\ module' = "unloaded" /\ FreeEventSubclasses

\* Other modules reserve and free names of their own.
Others ==
    /\ \E name \in SubclassNames :
           \/ owner[name] = "none" /\ owner' = [owner EXCEPT ![name] = "other"]
           \/ owner[name] = "other" /\ owner' = [owner EXCEPT ![name] = "none"]
    /\ UNCHANGED module

LoadNext == Load \/ ReserveSubclass \/ ReserveFails \/ AddApis \/ Others

\* A module that is not loaded owns no name, or it could never be loaded again; one that
\* offers commands owns all of them, so that every event it fires can be received.
SubclassesAllOrNothing ==
    /\ module = "unloaded" => Ours = {}
    /\ module = "loaded" => Ours = SubclassNames
=============================================================================
