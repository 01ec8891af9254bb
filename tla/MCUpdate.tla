------------------------------- MODULE MCUpdate --------------------------------
(* Instance of Workdir and Update for TLC. *)
EXTENDS Update, TLC

Symmetry == Permutations(Procs)

(* Two runs and a look for their seeds, two updates and such a look.  *)
Together(commands, what, n) == Cardinality({p \in Procs : commands[p] = what}) = n
MCCommands == {c \in [Procs -> {"run", "update", "pastseed"}] :
  \/ Together(c, "run", 2) /\ Together(c, "pastseed", 1)
  \/ Together(c, "update", 2) /\ Together(c, "pastseed", 1)}
================================================================================
