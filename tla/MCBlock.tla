------------------------------ MODULE MCBlock ------------------------------
(***************************************************************************)
(* ManagedBlock from every file of a few lines.  Two agents share it, or    *)
(* one does with somebody who edits it: the shorter the first file, the     *)
(* more edits.  Agents carry out orders for ever.                          *)
(***************************************************************************)
EXTENDS ManagedBlock

CONSTANTS
  MaxLines,   \* lines of the first file and edits by hand, together
  k1, k2      \* keys

VARIABLES
  active,     \* the agents of this behaviour
  edits       \* edits by hand still to come

mcvars == <<blockVars, active, edits>>

\* Set the block to one key or two, or clear it; or an order no agent may follow.
Orders ==
  [lines : {<<k1>>, <<k2, k1>>, <<Begin>>}, clear : {FALSE}]
    \union {[lines |-> <<>>, clear |-> TRUE]}

Files(n) == {f \in [lines : SeqOf(Line, n), final : BOOLEAN] : f \in Text}

MCInit ==
  /\ BlockInit(Files(MaxLines))
  /\ \/ active = Agent /\ edits = 0
     \/ /\ active = {CHOOSE a \in Agent : TRUE}
        /\ edits = Min({2, MaxLines - Len(file.lines)})

MCNext ==
  /\ UNCHANGED active
  /\ \/ edits > 0 /\ HandStep /\ edits' = edits - 1
     \/ (\E a \in active : AgentStep(a)) /\ UNCHANGED edits

MCSpec == MCInit /\ [][MCNext]_mcvars
=============================================================================
