------------------------------ MODULE KvStore ------------------------------
(***************************************************************************)
(* What the key-value namespace promises: a map from keys to values.  A    *)
(* worker takes a command (a sequence of sub-commands, one unless it is a  *)
(* batch) and carries each sub-command out at one instant.                 *)
(***************************************************************************)
EXTENDS Sequences

CONSTANTS Keys,         \* keys of the store
          Workers,      \* threads that carry commands out
          Absent        \* the value of a key that is not stored

VARIABLES kv,           \* the value of every key
          todo          \* what is left of each worker's command: a sequence
                        \* of sub-commands [op, key, val]
vars == <<kv, todo>>

Init == /\ kv = [k \in Keys |-> Absent]
        /\ todo = [w \in Workers |-> <<>>]

\* Any command may come.
Submit(w) == /\ todo[w] = <<>>
             /\ todo' = [todo EXCEPT ![w] = todo'[w]]
             /\ UNCHANGED kv

Apply(w) ==
    /\ todo[w] # <<>>
    /\ todo' = [todo EXCEPT ![w] = Tail(@)]
    /\ LET c == Head(todo[w]) IN
       kv' = CASE c.op = "store"  -> [kv EXCEPT ![c.key] = c.val]
               [] c.op = "delete" -> [kv EXCEPT ![c.key] = Absent]
               [] OTHER           -> kv

Next == \E w \in Workers : Submit(w) \/ Apply(w)

Spec == Init /\ [][Next]_vars
=============================================================================
