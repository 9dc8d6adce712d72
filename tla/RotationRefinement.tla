------------------------- MODULE RotationRefinement -------------------------
(* CredentialRotation implements RotationSpec: what a caller can obtain is   *)
(* the promoted versions that were neither purged nor given up, the change   *)
(* under way is the active rotation.                                         *)
EXTENDS CredentialRotation

Promise == INSTANCE RotationSpec WITH
  issued <- lastVersion,
  served <- {v \in Created : Servable(v)},
  staged <- {v \in Created : Live(v) /\ promotedAt[v] = 0},
  change <- {[old |-> previousVersion[r], new |-> r] : r \in {q \in Created : Active(q)}},
  window <- overlap

\* Every interleaving of rotation operations, break-glass, plain version writes
\* and workers, failed compare-and-swaps and stale candidate lists included,
\* keeps the promise a caller of reveal relies on: each step is a step of
\* RotationSpec or changes nothing it speaks of.
ImplementsPromise == Promise!Spec
=============================================================================
