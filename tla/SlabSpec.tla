------------------------------ MODULE SlabSpec ------------------------------
(***************************************************************************)
(* What the slab array promises its callers (spec.md 4.1, 4.3), without    *)
(* slabs, growth or sorting: an append-only collection of items and        *)
(* cursors that hand each stored item out exactly once.  A cursor in       *)
(* "inorder" mode hands them out in add order, one in "merge" mode in      *)
(* ascending key order, one in "any" mode (an in-order cursor on a sorted  *)
(* slab, or a compare_fn cursor on an unsorted one) in no promised order.  *)
(***************************************************************************)
EXTENDS Naturals, FiniteSets

CONSTANTS Keys, MaxItems, Cursors

VARIABLES stored, remaining, mode

Items == { <<k, n>> : k \in Keys, n \in 1..MaxItems }
Modes == {"closed", "inorder", "merge", "any"}

TypeOK ==
  /\ stored \subseteq Items
  /\ remaining \in [Cursors -> SUBSET Items]
  /\ mode \in [Cursors -> Modes]

Init ==
  /\ stored = {}
  /\ remaining = [c \in Cursors |-> {}]
  /\ mode = [c \in Cursors |-> "closed"]

\* An item is added while no cursor is open; ids count the adds.
Add(k) ==
  /\ \A c \in Cursors : mode[c] = "closed"
  /\ Cardinality(stored) < MaxItems
  /\ stored' = stored \cup {<<k, Cardinality(stored) + 1>>}
  /\ UNCHANGED <<remaining, mode>>

Open(c, m) ==
  /\ mode[c] = "closed"
  /\ m # "closed"
  /\ mode' = [mode EXCEPT ![c] = m]
  /\ remaining' = [remaining EXCEPT ![c] = stored]
  /\ UNCHANGED stored

\* The item a cursor may hand out next.
MayYield(c, it) ==
  /\ it \in remaining[c]
  /\ mode[c] = "inorder" => \A o \in remaining[c] : it[2] <= o[2]
  /\ mode[c] = "merge" => \A o \in remaining[c] : it[1] <= o[1]

Yield(c) ==
  \E it \in remaining[c] :
    /\ MayYield(c, it)
    /\ remaining' = [remaining EXCEPT ![c] = @ \ {it}]
    /\ UNCHANGED <<stored, mode>>

Close(c) ==
  /\ mode[c] # "closed"
  /\ mode' = [mode EXCEPT ![c] = "closed"]
  /\ remaining' = [remaining EXCEPT ![c] = {}]
  /\ UNCHANGED stored

Next ==
  \/ \E k \in Keys : Add(k)
  \/ \E c \in Cursors : \/ \E m \in Modes : Open(c, m)
                        \/ Yield(c)
                        \/ Close(c)

Spec == Init /\ [][Next]_<<stored, remaining, mode>>

=============================================================================
