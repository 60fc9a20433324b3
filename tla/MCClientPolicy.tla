--------------------------- MODULE MCClientPolicy ---------------------------
(* Instances of ClientPolicy for TLC. *)
EXTENDS ClientPolicy

CONSTANTS p, q, i1, i2

TwoCallers == {p, q}
TwoInstances == {i1, i2}

NoPatch == [f \in {} |-> TRUE]
LetItSample == "samplingEnabled" :> TRUE @@ "requireHumanInTheLoop" :> FALSE
               @@ "maxOutputTokens" :> 40000
LetItAsk == "elicitationEnabled" :> TRUE @@ "requireUrlForSensitive" :> FALSE
Work == <<[uri |-> "w", name |-> "first"], [uri |-> "w", name |-> "work"]>>
RootsOfMount == "roots" :> Work
Quiet == "listChanged" :> FALSE @@ "allowUrlMode" :> FALSE

MountPatches == {NoPatch, LetItSample @@ LetItAsk @@ RootsOfMount, Quiet}
Patches == {LetItSample, "samplingEnabled" :> FALSE @@ "elicitationEnabled" :> FALSE}
RootLists == {Work}
Symmetric == Permutations(TwoInstances) \cup Permutations(TwoCallers)
=============================================================================
