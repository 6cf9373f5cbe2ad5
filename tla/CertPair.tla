------------------------------ MODULE CertPair ------------------------------
(***************************************************************************)
(* writeCertKeyPair of ssl/store.go, file operation by file operation: how *)
(* the fullchain and the private key of one certificate are replaced.  No  *)
(* lock is held: an upload, a renewal by hand and the nightly sweep may    *)
(* write the same pair at the same time.                                   *)
(***************************************************************************)
EXTENDS Naturals, FiniteSets

CONSTANTS
    Writer,     \* calls of writeCertKeyPair that may run at the same time
    Pair,       \* matching pairs; a half is called like its pair
    None,       \* the file does not exist
    Torn        \* what a failed WriteFile leaves

ASSUME PairAssumption ==
    /\ None \notin Pair
    /\ Torn \notin Pair
    /\ None # Torn

Name == {"cert", "key", "certTmp", "keyTmp", "certBak"}

VARIABLES
    file,    \* file[n]: what the file n holds
    pc,      \* pc[w]: the next operation of w, or how its last call ended
    pair,    \* pair[w]: certPEM and keyPEM
    had,     \* had[w]: hadCert
    faults,  \* history: how many operations of this call have failed; 2 is any more
    old      \* history: the two halves before the call

vars == <<file, pc, pair, had, faults, old>>

Ended == {"ok", "err", "dead"}
PC    == Ended \cup {"certTmp", "keyTmp", "dropBak", "snapshot", "swapCert",
                     "swapKey", "dropCert", "undoCert", "undoKey", "dropKey", "clean"}

Init ==
    /\ \E p \in Pair \cup {None} :
         /\ file = [n \in Name |-> IF n \in {"cert", "key"} THEN p ELSE None]
         /\ old = [w \in Writer |-> [cert |-> p, key |-> p]]
         /\ pair = [w \in Writer |-> p]
    /\ pc = [w \in Writer |-> "ok"]
    /\ had = [w \in Writer |-> FALSE]
    /\ faults = [w \in Writer |-> 0]

-----------------------------------------------------------------------------
Put(n, x)    == file' = [file EXCEPT ![n] = x]
Remove(n)    == Put(n, None)
Rename(a, b) == /\ file[a] # None
                /\ file' = [file EXCEPT ![b] = file[a], ![a] = None]

Step(w, from, to) == /\ pc[w] = from
                     /\ pc' = [pc EXCEPT ![w] = to]
                     /\ UNCHANGED <<pair, old>>

Works == UNCHANGED <<had, faults>>

(* An operation of the system fails. *)
Fault(w) == faults' = [faults EXCEPT ![w] = IF @ = 0 THEN 1 ELSE 2]

(* A Remove whose error nobody looks at. *)
TryRemove(w, n) == \/ Remove(n) /\ Works
                   \/ Fault(w) /\ UNCHANGED <<file, had>>

Write(w, p) ==
    /\ pc[w] \in Ended
    /\ pc' = [pc EXCEPT ![w] = "certTmp"]
    /\ pair' = [pair EXCEPT ![w] = p]
    /\ old' = [old EXCEPT ![w] = [cert |-> file["cert"], key |-> file["key"]]]
    /\ had' = [had EXCEPT ![w] = FALSE]
    /\ faults' = [faults EXCEPT ![w] = 0]
    /\ UNCHANGED file

WriteCert(w) == Step(w, "certTmp", "keyTmp") /\ Put("certTmp", pair[w]) /\ Works

(* A failed MkdirAll or open leaves the temporary file alone, a failed write *)
(* leaves it as far as it got.                                               *)
\* Mutant: the error of the first WriteFile is dropped (WriteCertFail).
WriteCertFailIgnored(w) ==
    Step(w, "certTmp", "keyTmp") /\ Put("certTmp", Torn) /\ Fault(w) /\ UNCHANGED had
WriteCertFail(w) ==
    /\ Step(w, "certTmp", "err")
    /\ \E x \in {file["certTmp"], Torn} : Put("certTmp", x)
    /\ Fault(w) /\ UNCHANGED had

WriteKey(w) == Step(w, "keyTmp", "dropBak") /\ Put("keyTmp", pair[w]) /\ Works

WriteKeyFail(w) ==
    /\ Step(w, "keyTmp", "err")
    /\ \E x \in {file["keyTmp"], Torn} :
         file' = [file EXCEPT !["keyTmp"] = x, !["certTmp"] = None]
    /\ Fault(w) /\ UNCHANGED had

DropBak(w) == Step(w, "dropBak", "snapshot") /\ TryRemove(w, "certBak")

Snapshot(w) ==
    /\ Step(w, "snapshot", "swapCert")
    /\ Rename("cert", "certBak")
    /\ had' = [had EXCEPT ![w] = TRUE]
    /\ UNCHANGED faults

(* The rename fails when there is no certificate yet, and that is no error. *)
NoSnapshot(w) ==
    /\ Step(w, "snapshot", "swapCert")
    /\ IF file["cert"] = None THEN UNCHANGED faults ELSE Fault(w)
    /\ UNCHANGED <<had, file>>

SwapCert(w) == Step(w, "swapCert", "swapKey") /\ Rename("certTmp", "cert") /\ Works

SwapCertFail(w) ==
    /\ Step(w, "swapCert", "undoCert")
    /\ IF file["certTmp"] = None THEN UNCHANGED faults ELSE Fault(w)
    /\ UNCHANGED <<had, file>>

SwapKey(w) == Step(w, "swapKey", "clean") /\ Rename("keyTmp", "key") /\ Works

\* Mutant: a failed key swap keeps the new certificate (SwapKeyFail).
SwapKeyFailKept(w) ==
    /\ Step(w, "swapKey", "err")
    /\ IF file["keyTmp"] = None THEN UNCHANGED faults ELSE Fault(w)
    /\ UNCHANGED <<had, file>>
SwapKeyFail(w) ==
    /\ Step(w, "swapKey", "dropCert")
    /\ IF file["keyTmp"] = None THEN UNCHANGED faults ELSE Fault(w)
    /\ UNCHANGED <<had, file>>

DropCert(w) == Step(w, "dropCert", "undoKey") /\ TryRemove(w, "cert")

(* The error of the rename that undoes the swap is ignored. *)
Undo(w) == Step(w, "undoCert", "dropKey") \/ Step(w, "undoKey", "err")

PutBack(w) ==
    /\ Undo(w)
    /\ IF had[w] /\ file["certBak"] # None THEN Rename("certBak", "cert") ELSE UNCHANGED file
    /\ Works

PutBackFail(w) ==
    /\ Undo(w)
    /\ had[w]
    /\ Fault(w)
    /\ UNCHANGED <<had, file>>

DropKey(w) == Step(w, "dropKey", "err") /\ TryRemove(w, "keyTmp")

Clean(w) == Step(w, "clean", "ok") /\ TryRemove(w, "certBak")

(* The panel dies; after the next boot the same files are there. *)
Crash ==
    /\ pc' = [w \in Writer |-> IF pc[w] \in Ended THEN pc[w] ELSE "dead"]
    /\ UNCHANGED <<file, pair, had, faults, old>>

Go(w) ==
    \/ WriteCert(w) \/ WriteCertFail(w) \/ WriteKey(w) \/ WriteKeyFail(w)
    \/ DropBak(w) \/ Snapshot(w) \/ NoSnapshot(w)
    \/ SwapCert(w) \/ SwapCertFail(w) \/ SwapKey(w) \/ SwapKeyFail(w)
    \/ DropCert(w) \/ PutBack(w) \/ PutBackFail(w) \/ DropKey(w) \/ Clean(w)

Next == Crash \/ \E w \in Writer : Go(w) \/ \E p \in Pair : Write(w, p)

Spec == Init /\ [][Next]_vars

-----------------------------------------------------------------------------
(* Properties *)

(* Types; what a failed write got to never takes the place of either half,  *)
(* as long as one call runs at a time ("both are staged to temp files       *)
(* first").                                                                 *)
TypeOK ==
    /\ file \in [Name -> Pair \cup {None, Torn}]
    /\ file["cert"] # Torn /\ file["key"] # Torn
    /\ pc \in [Writer -> PC]
    /\ pair \in [Writer -> Pair \cup {None}]
    /\ had \in [Writer -> BOOLEAN]
    /\ faults \in [Writer -> 0..2]
    /\ old \in [Writer -> [cert : Pair \cup {None}, key : Pair \cup {None}]]

(* All or nothing: a call that succeeds leaves its pair, whatever an earlier *)
(* death of the panel has left; one that fails "leaves the existing pair     *)
(* untouched", unless an undoing operation failed as well.                   *)
Kept(w) ==
    CASE pc[w] = "ok"                     -> file["cert"] = pair[w] /\ file["key"] = pair[w]
      [] pc[w] = "err" /\ faults[w] # 2  -> file["cert"] = old[w].cert /\ file["key"] = old[w].key
      [] OTHER                            -> TRUE
WholePair == (\A w \in Writer : pc[w] \in Ended) => \E w \in Writer : Kept(w)

(* "This ensures the on-disk fullchain/privkey are never left mismatched":   *)
(* when no call is going on the two belong together.                         *)
NeverLeftMismatched ==
    (\A w \in Writer : pc[w] \in Ended) => file["cert"] = file["key"]
=============================================================================
