--------------------------- MODULE CertPairProofs ---------------------------
(***************************************************************************)
(* One call of writeCertKeyPair at a time: then a call that succeeds leaves *)
(* its pair, and one in which no more than one operation fails is all or    *)
(* nothing, for any pairs, any number of calls, and wherever the panel has  *)
(* died before.                                                            *)
(***************************************************************************)
EXTENDS CertPair, TLAPS

(* The calls follow one another. *)
Alone == \E w \in Writer : Writer = {w}

Many(w)  == faults[w] = 2
New(w)   == file["cert"] = pair[w] /\ file["key"] = pair[w]
Same(w)  == file["cert"] = old[w].cert /\ file["key"] = old[w].key

(* What can be put back: the old certificate, if there was one. *)
Saved(w) == /\ had[w] => file["certBak"] = old[w].cert /\ old[w].cert # None
            /\ ~had[w] /\ old[w].cert # None => faults[w] # 0

Early == {"certTmp", "keyTmp", "dropBak", "snapshot"}

(* Where the two halves are while w is at its next operation. *)
At(w) ==
    /\ pc[w] \in {"ok", "clean"} => New(w)
    /\ pc[w] \in Early => Same(w) /\ ~had[w]
    /\ pc[w] \in {"err", "dropKey"} => Same(w) \/ Many(w)
    /\ pc[w] \notin Ended => pair[w] # None
    /\ pc[w] \in {"keyTmp", "dropBak", "snapshot", "swapCert"} => file["certTmp"] = pair[w]
    /\ pc[w] \in {"dropBak", "snapshot", "swapCert", "swapKey"} => file["keyTmp"] = pair[w]
    /\ pc[w] \in {"swapCert", "swapKey", "dropCert", "undoCert", "undoKey"} =>
         file["key"] = old[w].key /\ Saved(w)
    /\ pc[w] \in {"swapCert", "undoCert"} => (~had[w] => file["cert"] = old[w].cert)
    /\ pc[w] = "swapKey" => file["cert"] = pair[w]
    /\ pc[w] \in {"dropCert", "undoCert", "undoKey"} => faults[w] # 0
    /\ pc[w] = "dropCert" => (~had[w] => old[w].cert = None \/ Many(w))
    /\ pc[w] = "undoKey" => (~had[w] => file["cert"] = old[w].cert \/ Many(w))

IInv == TypeOK /\ \A w \in Writer : At(w)

(* A life starts with both halves of one pair, or with neither. *)
LEMMA PairInit == Init => IInv
<1> SUFFICES ASSUME Init PROVE IInv
  OBVIOUS
<1>1. PICK p \in Pair \cup {None} :
        /\ file = [n \in Name |-> IF n \in {"cert", "key"} THEN p ELSE None]
        /\ old = [w \in Writer |-> [cert |-> p, key |-> p]]
        /\ pair = [w \in Writer |-> p]
  BY DEF Init
<1>2. TypeOK
  BY <1>1, PairAssumption DEF Init, TypeOK, PC, Ended, Name
<1>3. \A w \in Writer : At(w)
  BY <1>1 DEF Init, At, New, Name, Ended, Early
<1> QED BY <1>2, <1>3 DEF IInv

(* Every operation of the only call, the failing ones included, keeps the    *)
(* halves where the next operation expects them.                             *)
LEMMA PairStep == Alone /\ IInv /\ [Next]_vars => IInv'
<1> SUFFICES ASSUME Alone, IInv, [Next]_vars PROVE IInv'
  OBVIOUS
<1>0. PICK w \in Writer : Writer = {w}
  BY DEF Alone
<1> SUFFICES TypeOK' /\ At(w)'
  BY <1>0 DEF IInv
<1>1. TypeOK /\ At(w)
  BY DEF IInv
<1> USE <1>1, PairAssumption DEF TypeOK, At, New, Same, Many, Saved, Early, Name, PC, Ended
<1>2. CASE UNCHANGED vars
  BY <1>2 DEF vars
<1>3. CASE \E p \in Pair : Write(w, p)
  BY <1>3 DEF Write
<1>4. CASE WriteCert(w)
  BY <1>4 DEF WriteCert, Step, Put, Works
<1>5. CASE WriteCertFail(w)
  BY <1>5 DEF WriteCertFail, Step, Put, Fault
<1>6. CASE WriteKey(w)
  BY <1>6 DEF WriteKey, Step, Put, Works
<1>7. CASE WriteKeyFail(w)
  BY <1>7 DEF WriteKeyFail, Step, Fault
<1>8. CASE DropBak(w)
  BY <1>8 DEF DropBak, Step, TryRemove, Remove, Put, Works, Fault
<1>9. CASE Snapshot(w)
  BY <1>9 DEF Snapshot, Step, Rename
<1>10. CASE NoSnapshot(w)
  BY <1>10 DEF NoSnapshot, Step, Fault
<1>11. CASE SwapCert(w)
  BY <1>11 DEF SwapCert, Step, Rename, Works
<1>12. CASE SwapCertFail(w)
  BY <1>12 DEF SwapCertFail, Step, Fault
<1>13. CASE SwapKey(w)
  BY <1>13 DEF SwapKey, Step, Rename, Works
<1>14. CASE SwapKeyFail(w)
  BY <1>14 DEF SwapKeyFail, Step, Fault
<1>15. CASE DropCert(w)
  BY <1>15 DEF DropCert, Step, TryRemove, Remove, Put, Works, Fault
<1>16. CASE PutBack(w)
  BY <1>16 DEF PutBack, Undo, Step, Rename, Works
<1>17. CASE PutBackFail(w)
  BY <1>17 DEF PutBackFail, Undo, Step, Fault
<1>18. CASE Clean(w)
  BY <1>18 DEF Clean, Step, TryRemove, Remove, Put, Works, Fault
<1>19. CASE Crash
  BY <1>19 DEF Crash
<1>20. CASE DropKey(w)
  BY <1>20 DEF DropKey, Step, TryRemove, Remove, Put, Works, Fault
<1> QED
  BY <1>0, <1>2, <1>3, <1>4, <1>5, <1>6, <1>7, <1>8, <1>9, <1>10, <1>11, <1>12,
     <1>13, <1>14, <1>15, <1>16, <1>17, <1>18, <1>19, <1>20 DEF Next, Go

(* Types, and no half is ever the torn remains of a failed write.           *)
THEOREM PairTypes ==
    ASSUME Alone
    PROVE  Spec => []TypeOK
<1>1. IInv => TypeOK
  BY DEF IInv
<1>2. IInv /\ [Next]_vars => IInv'
  BY PairStep
<1> QED
  BY <1>1, <1>2, PairInit, PTL DEF Spec

(* Calls that follow one another are all or nothing: whatever single         *)
(* operation fails, the pair on disk is the one before or the one asked for. *)
THEOREM CallsAreWhole ==
    ASSUME Alone
    PROVE  Spec => []WholePair
<1>1. IInv => WholePair
  <2> SUFFICES ASSUME IInv, \A w \in Writer : pc[w] \in Ended
               PROVE  \E w \in Writer : Kept(w)
    BY DEF WholePair
  <2>1. PICK w \in Writer : Writer = {w}
    BY DEF Alone
  <2>2. At(w) /\ pc[w] \in Ended
    BY DEF IInv
  <2> QED BY <2>2 DEF At, New, Same, Many, Kept, Ended
<1>2. IInv /\ [Next]_vars => IInv'
  BY PairStep
<1> QED
  BY <1>1, <1>2, PairInit, PTL DEF Spec
=============================================================================
