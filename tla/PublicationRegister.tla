------------------------ MODULE PublicationRegister ------------------------
(***************************************************************************)
(* What a publication repository promises to the managers that share it:   *)
(* one register per key, written once, renewed in place, emptied; nothing  *)
(* enters it whose object was not read back, and nothing is served that it *)
(* never held.                                                             *)
(***************************************************************************)
CONSTANTS Keys, NoManifest

VARIABLES
    held,      \* the register of each key
    ever,      \* every manifest a register ever held
    readBack,  \* objects somebody has read back
    served     \* manifests callers were handed

avars == <<held, ever, readBack, served>>

Init ==
    /\ held = [k \in Keys |-> NoManifest]
    /\ ever = {}
    /\ readBack = {}
    /\ served = {}

Hold(k, m) ==
    /\ held' = [held EXCEPT ![k] = m]
    /\ ever' = ever \cup {m}

\* An empty register takes a manifest of its key whose object was read back.
Publish(k, m) ==
    /\ held[k] = NoManifest
    /\ m.key = k /\ m.obj \in readBack
    /\ Hold(k, m)

\* A renewal changes the reference, never what it refers to.
Renew(k, m) ==
    /\ held[k] # NoManifest
    /\ m.key = k /\ m.obj = held[k].obj /\ m.ret = held[k].ret
    /\ Hold(k, m)

Remove(k) ==
    /\ held' = [held EXCEPT ![k] = NoManifest]
    /\ UNCHANGED ever

\* Reading back and serving go with any step.
Next ==
    /\ \/ UNCHANGED <<held, ever>>
       \/ \E k \in Keys : Remove(k) \/ \E m \in ever' : Publish(k, m) \/ Renew(k, m)
    /\ readBack \subseteq readBack'
    /\ served \subseteq served'
    /\ served' \subseteq served \cup ever'

Spec == Init /\ [][Next]_avars

=============================================================================
