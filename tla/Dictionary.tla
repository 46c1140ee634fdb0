----------------------------- MODULE Dictionary -----------------------------
(***************************************************************************)
(* What a 64-bit hash table of CPVMM promises its callers: a finite map    *)
(* from keys to values.  A call that cannot get memory changes nothing and *)
(* answers FALSE.                                                          *)
(***************************************************************************)
EXTENDS TLC

CONSTANTS DictKeys, DictValues

VARIABLES exists,  \* it has been created and not destroyed
          dict,    \* the pairs it holds, as a function on the keys present
          answer   \* what the last call returned

dictVars == <<exists, dict, answer>>

Says(op, key, result) == answer' = [op |-> op, key |-> key, result |-> result]

DictInit == exists = FALSE /\ dict = <<>> /\ answer = [op |-> "none", key |-> 0, result |-> "FALSE"]

Create == /\ ~exists /\ UNCHANGED dict
          /\ \/ exists' = TRUE /\ Says("create", 0, "TRUE")
             \/ exists' = FALSE /\ Says("create", 0, "FALSE")

\* A pair can be refused only when its key is new: for want of memory.
Put(k, v) == /\ exists /\ exists'
             /\ \/ dict' = (k :> v) @@ dict /\ Says("put", k, "TRUE")
                \/ k \notin DOMAIN dict /\ UNCHANGED dict /\ Says("put", k, "FALSE")

Drop(k) == /\ exists /\ exists'
           /\ dict' = [j \in DOMAIN dict \ {k} |-> dict[j]]
           /\ Says("drop", k, IF k \in DOMAIN dict THEN "TRUE" ELSE "FALSE")

Look(k) == /\ exists /\ exists' /\ UNCHANGED dict
           /\ Says("look", k, IF k \in DOMAIN dict THEN dict[k] ELSE "FALSE")

\* The table may be reorganised; nobody can tell.
Resize == exists /\ exists' /\ UNCHANGED dict /\ \E r \in {"TRUE", "FALSE"} : Says("resize", 0, r)

Destroy == exists /\ exists' = FALSE /\ dict' = <<>> /\ Says("destroy", 0, "TRUE")

DictNext == \/ Create \/ Resize \/ Destroy
            \/ \E k \in DictKeys : Drop(k) \/ Look(k) \/ \E v \in DictValues : Put(k, v)

DictSpec == DictInit /\ [][DictNext]_dictVars
=============================================================================
