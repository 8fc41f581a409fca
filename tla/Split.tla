-------------------------------- MODULE Split --------------------------------
(***************************************************************************)
(* Split (transforms/Split.cpp): a list of weak references to outputs. An  *)
(* output that has been destroyed stays in the list, and is skipped, until *)
(* removeOutput is called next. Outputs are compared by address, which is  *)
(* taken as the object: a new object at the old address finds only the     *)
(* expired reference, and is added.                                        *)
(***************************************************************************)
EXTENDS Naturals, Sequences

setOutput(m_outputs, output, alive) ==
    IF \E i \in DOMAIN m_outputs : m_outputs[i] = output /\ output \in alive
    THEN m_outputs ELSE Append(m_outputs, output)

\* What std::remove_if leaves of the list: the outputs in kept, in their order.
Kept(m_outputs, kept) ==
    LET upTo[i \in 0..Len(m_outputs)] ==
            IF i = 0 THEN <<>>
            ELSE IF m_outputs[i] \in kept THEN Append(upTo[i - 1], m_outputs[i]) ELSE upTo[i - 1]
    IN  upTo[Len(m_outputs)]

\* Mutant: only what has expired is removed.
RemoveExpired(m_outputs, output, alive) == Kept(m_outputs, alive)
removeOutput(m_outputs, output, alive) == Kept(m_outputs, alive \ {output})

\* Who gets a buffer that is pushed, in this order.
Receivers(m_outputs, alive) == Kept(m_outputs, alive)
=============================================================================
