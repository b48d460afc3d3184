--------------------------- MODULE MCVaultClient ---------------------------
(* Instances of VaultClient for TLC: who runs which operation. *)
EXTENDS VaultClient, TLC

CONSTANTS t1, t2, o1, o2

(* Two tabs, one operation at a time in each. *)
OneEach == (o1 :> t1) @@ (o2 :> t2)

(* One tab with two operations in progress. *)
BothInOne == (o1 :> t1) @@ (o2 :> t1)

(* One tab with one operation in progress: enough to see that an import    *)
(* drops items (section 4 of the README).                                  *)
OneOp == o1 :> t1

(* The edits are interchangeable, and so are tabs and operations as long   *)
(* as each operation stays in its tab.                                     *)
ClientSymmetry ==
    Permutations(Edits)
        \cup {f \in Permutations(Tabs \cup Saves) :
                \A o \in Saves : f[o] \in Saves /\ TabOf[f[o]] = f[TabOf[o]]}

(* What follows an answer that came after a lock is not explored, nor are  *)
(* unlocks by passkey after a lock in the middle of an operation.          *)
Timely ==
    /\ late = {}
    /\ interrupted # {} =>
          \A t \in Tabs : /\ tab[t].peek = Null
                          /\ tab[t].locked => tab[t].peekDue
============================================================================
